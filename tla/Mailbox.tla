------------------------------- MODULE Mailbox ------------------------------
(***************************************************************************)
(* What Relay does with the mails and folders it has: attachments, moves,  *)
(* lists, folders, and the IMAP slots that carry the commands.             *)
(***************************************************************************)
EXTENDS Parts

At == INSTANCE Attachments WITH None <- Absent
Mo == INSTANCE Moves WITH Mails <- Messages, Folders <- MailFolders, Numbers <- Uids, None <- Absent
Li == INSTANCE ListCache WITH Folders <- MailFolders, Inbox <- InboxFolder
Fo == INSTANCE FolderAdmin WITH Mails <- Filed, Paths <- TreePaths, None <- Absent, Gone <- Nowhere
Is == INSTANCE ImapSlots WITH Folders <- MailFolders, Inbox <- InboxFolder, None <- Absent

\* What the parts assume of their constants.
ASSUME MailboxAssumption ==
    /\ At!NamesAssumption
    /\ Mo!MovesAssumption
    /\ Li!FoldersAssumption
    /\ Fo!PathsAssumption
    /\ Is!NamesAssumption

-----------------------------------------------------------------------------
\* Cleaning up never removes a file a row still names, while drafts are saved (cache/attachments.rs).
DraftsKeepContents == part = "attachments" => At!DraftsKeepContents

\* However a move or deletion breaks off, the mail is somewhere whole (api/messages.rs).
MovedNotLost == part = "moves" => Mo!MovedNotLost

\* A list shows the changes the user knows of, but for one put into the cache late (cache/mod.rs).
OwnChangesShown == part = "lists" => Li!OwnChangesShown

\* Deleting a folder puts every mail in it and below it into the trash first (api/messages.rs).
FoldersNotMails == part = "folders" => Fo!FoldersNotMails

\* A waiting move names a folder that exists, through renames above it (api/messages.rs).
MovesFollow == part = "folders" => Fo!MovesFollow

\* Every IMAP command runs in the folder it names, unless two had a session of the slot (imap/client.rs).
RightFolderUndisturbed == part = "imap" => Is!RightFolderUndisturbed
=============================================================================
