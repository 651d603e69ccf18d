---------------------------- MODULE FolderAdmin ----------------------------
(***************************************************************************)
(* Creating, renaming, deleting and emptying folders (api/messages.rs) of  *)
(* an account in mirror mode: the provider first, in as many commands as   *)
(* it takes, each of which may fail, then Relay's index in one section.    *)
(* Mails go on arriving at the provider, other clients go on using it, and *)
(* moves made in Relay wait for their turn there.                          *)
(***************************************************************************)
EXTENDS Naturals, Sequences, SequencesExt, FiniteSets

CONSTANTS Mails,
          Paths,        \* names of folders: sequences, a folder below another extends it
          TrashPlaces,  \* where the provider may have its trash
          None, Gone,
          MaxRequests   \* bound: requests about folders

VARIABLES tree,     \* the provider's folders, and its trash
          trash,
          at,       \* where each mail is at the provider: None before it arrives, Gone after it went
          shown,    \* where Relay's index has it
          locals,   \* folders only in Relay
          ops,      \* moves waiting for the provider: the target of each mail's
          rescued,  \* mails whose move puts them back from the archive where they are gone
          todo,     \* the request under way: kind, folder, new name, folders still to do
          moved,    \* the one of these whose mails have been moved to the trash
          requests,
          dropped,  \* history: names of folders deleted
          halfway,  \* history: old names the waiting moves kept when the provider had renamed the folder
          lost      \* history: why a mail is gone: "emptied", "deleted", "late", ...

provider == <<tree, trash, at>>
index == <<shown, locals, ops, rescued>>
history == <<dropped, halfway, lost>>
vars == <<provider, index, todo, moved, requests, history>>

Inbox == <<"INBOX">>
Trash == <<"Trash">>   \* what Relay calls it
Below(p, q) == IsPrefix(q, p)                      \* p is q or below it
Under(q, P) == {p \in P : Below(p, q)}
Place == Paths \cup {Trash}
WithParents(p) == {q \in Place : Below(p, q)}      \* what a server makes for CREATE and RENAME
Rename(p, old, new) == IF p # None /\ Below(p, old) THEN new \o SubSeq(p, Len(old) + 1, Len(p)) ELSE p
NoRequest == [kind |-> "none", folder |-> Inbox, new |-> Inbox, left |-> {}]

(* A folder may be renamed to any name that a folder beside it could have, *)
(* with what is below it.                                                  *)
PathsAssumption == /\ Place \subseteq Seq(STRING) \ {<<>>} /\ TrashPlaces \subseteq Paths /\ Inbox \in Paths
                   /\ None \notin Place /\ Gone \notin Place \cup {None}
                   /\ \A p \in Place \ {Inbox}, q \in Paths \ {Inbox} : Len(p) = Len(q) =>
                         \A r \in Under(p, Place) : Rename(r, p, q) \in Place
                   /\ Trash \in Paths \/ Under(Trash, Paths) = {}
                   /\ MaxRequests \in Nat

TypeOK == /\ tree \subseteq Place /\ trash \in Place \cup {None}
          /\ at \in [Mails -> Place \cup {None, Gone}]
          /\ shown \in [Mails -> Place \cup {None}]
          /\ locals \subseteq Place /\ ops \in [Mails -> Place \cup {None}]
          /\ rescued \subseteq Mails /\ dropped \cup halfway \subseteq Place
          /\ todo \in [kind : {"none", "rename", "renamed", "delete", "empty", "to provider"},
                       folder : Place, new : Place, left : SUBSET Place]
          /\ moved \in Place \cup {None} /\ requests \in 0 .. MaxRequests
          /\ lost \in [Mails -> {"no", "emptied", "deleted", "late", "waiting", "trash below"}]

Init == /\ trash \in TrashPlaces \cup {None}
        /\ tree \in {T \in SUBSET Paths : Inbox \in T /\ (trash = None \/ trash \in T)
                                          /\ \A p \in T : WithParents(p) \subseteq T}
        /\ at \in [Mails -> tree \cup {None}]
        /\ shown = [m \in Mails |-> IF at[m] # None /\ at[m] = trash THEN Trash ELSE at[m]]
        /\ locals = {} /\ ops = [m \in Mails |-> None] /\ rescued = {} /\ dropped = {} /\ halfway = {}
        /\ todo = NoRequest /\ moved = None /\ requests = 0
        /\ lost = [m \in Mails |-> "no"]

TrashOf == IF trash = None THEN Trash ELSE trash
Provider(p) == IF p = Trash THEN TrashOf ELSE p
Relay(p) == IF p = trash THEN Trash ELSE p
Begin(r) == /\ todo = NoRequest /\ requests < MaxRequests
            /\ requests' = requests + 1 /\ todo' = r /\ moved' = None
Fail == /\ todo.kind \notin {"none", "renamed"} /\ todo' = NoRequest /\ moved' = None
        /\ UNCHANGED <<provider, index, requests, history>>

-----------------------------------------------------------------------------
(* What goes on meanwhile.  A mail arrives, or another client moves one; a *)
(* move in Relay, to a folder it shows, changes the index and leaves an op *)
(* (move_mid).                                                             *)
Late(p) == IF p = moved THEN "late" ELSE "no"
Arrive(m, p) == /\ p \in tree /\ at[m] \in (tree \cup {None}) \ {p}
                /\ at' = [at EXCEPT ![m] = p]
                /\ lost' = [lost EXCEPT ![m] = Late(p)]
                /\ UNCHANGED <<tree, trash, index, todo, moved, requests, dropped, halfway>>
move_message(m, p) == /\ shown[m] \notin {None, p}
                      /\ p \in tree \cup locals \cup {Trash} \/ \E n \in Mails : shown[n] = p
                      /\ shown' = [shown EXCEPT ![m] = p]
                      /\ ops' = [ops EXCEPT ![m] = IF p \in locals THEN None ELSE p]
                      /\ rescued' = rescued \ {m}
                      /\ UNCHANGED <<provider, locals, todo, moved, requests, history>>
(* The replay makes the target where the provider lacks it.                *)
Replay(m) == LET target == Provider(ops[m])
             IN /\ ops[m] # None
                /\ ops' = [ops EXCEPT ![m] = None] /\ rescued' = rescued \ {m}
                /\ IF at[m] \in tree \/ m \in rescued
                   THEN /\ at' = [at EXCEPT ![m] = target]
                        /\ lost' = [lost EXCEPT ![m] = Late(target)]
                        /\ tree' = tree \cup WithParents(target)
                        /\ trash' = IF target = Trash THEN Trash ELSE trash
                   ELSE UNCHANGED <<provider, lost>>
                /\ UNCHANGED <<shown, locals, todo, moved, requests, dropped, halfway>>
(* The synchronisation shows what is there, and lets go of folders the     *)
(* provider lists no more (verschwundene_ordner).                          *)
Sync(m) == /\ ops[m] = None /\ shown[m] \notin locals
           /\ shown' = [shown EXCEPT ![m] = IF at[m] \in tree THEN Relay(at[m]) ELSE None]
           /\ UNCHANGED <<provider, locals, ops, rescued, todo, moved, requests, history>>

-----------------------------------------------------------------------------
create_folder(p) == /\ Begin(NoRequest) /\ p \notin tree \cup locals
                    /\ \/ /\ tree' = tree \cup WithParents(p) /\ UNCHANGED locals
                          /\ trash' = IF p = Trash THEN TrashOf ELSE trash
                       \/ locals' = locals \cup {p} /\ UNCHANGED <<tree, trash>>   \* in archive mode
                    /\ UNCHANGED <<at, shown, ops, rescued, history>>

(* rename_folder: the provider, then the index with the folders below, the *)
(* cursors and the ops that wait (ordner_umbenennen), in writes of their   *)
(* own.  The provider may have renamed and the index not follow: the       *)
(* answer is lost, Relay stops, or the new name is taken in the index; or  *)
(* the folders follow and the waiting ops do not.                          *)
rename_folder(p, q) ==
    /\ p \in tree \ {Inbox, trash} /\ q \in Paths \ (tree \cup locals) /\ Len(q) = Len(p)
    /\ Begin([NoRequest EXCEPT !.kind = "rename", !.folder = p, !.new = q])
    /\ UNCHANGED <<provider, index, history>>
RenameAtProvider ==
    /\ todo.kind = "rename"
    /\ tree' = {Rename(r, todo.folder, todo.new) : r \in tree} \cup WithParents(todo.new)
    /\ trash' = Rename(trash, todo.folder, todo.new)
    /\ at' = [m \in Mails |-> IF at[m] \in tree THEN Rename(at[m], todo.folder, todo.new) ELSE at[m]]
    /\ todo' = [todo EXCEPT !.kind = "renamed"]
    /\ UNCHANGED <<index, moved, requests, history>>
OldOps == ops
RenamedOps == [m \in Mails |-> Rename(ops[m], todo.folder, todo.new)]
Along(S) == S \cup {Rename(r, todo.folder, todo.new) : r \in S}
FoldersFollow == /\ shown' = [m \in Mails |-> Rename(shown[m], todo.folder, todo.new)]
                 /\ locals' = {Rename(p, todo.folder, todo.new) : p \in locals}
ordner_umbenennen ==
    /\ todo.kind = "renamed"
    /\ \/ FoldersFollow /\ ops' = RenamedOps /\ halfway' = Along(halfway)
       \/ /\ FoldersFollow \/ UNCHANGED <<shown, locals>>
          /\ UNCHANGED ops /\ halfway' = Along(halfway) \cup Under(todo.folder, Place)
    /\ dropped' = Along(dropped)
    /\ todo' = NoRequest
    /\ UNCHANGED <<provider, rescued, moved, requests, lost>>

(* delete_folder: each of the folders, one below another before it, emptied*)
(* into the trash and deleted.  (Mutant: only the folder itself is emptied;*)
(* those below are deleted with what is in them.)                          *)
Deepest(P) == {p \in P : ~\E q \in P \ {p} : Below(q, p)}
delete_folder(p) ==
    /\ p \in tree \ {Inbox, Trash, <<"Archive">>}
    /\ Begin([NoRequest EXCEPT !.kind = "delete", !.folder = p, !.new = TrashOf, !.left = Under(p, tree)])
    /\ trash' = TrashOf /\ tree' = tree \cup {TrashOf}
    /\ UNCHANGED <<at, index, history>>
TopOnly(p) == p = todo.folder /\ ~Below(todo.new, p)
ToTrashFirst(p) == ~Below(todo.new, p)
(* alle_verschieben; it may stop half way. *)
AllToTrash(p) == /\ todo.kind = "delete" /\ moved = None /\ p \in Deepest(todo.left)
                 /\ LET here == {m \in Mails : at[m] = p}
                    IN IF ToTrashFirst(p)
                       THEN \/ at' = [m \in Mails |-> IF m \in here THEN todo.new ELSE at[m]] /\ moved' = p
                               /\ UNCHANGED todo
                            \/ \E S \in SUBSET here : at' = [m \in Mails |-> IF m \in S THEN todo.new ELSE at[m]]
                               /\ moved' = None /\ todo' = NoRequest
                       ELSE moved' = p /\ UNCHANGED <<at, todo>>
                 /\ UNCHANGED <<tree, trash, index, requests, history>>
(* DELETE takes with it what is in the folder. *)
Removed(S, why) == /\ at' = [m \in Mails |-> IF m \in S THEN Gone ELSE at[m]]
                   /\ lost' = [m \in Mails |-> IF m \in S THEN why[m] ELSE lost[m]]
DeleteAtProvider ==
    /\ todo.kind = "delete" /\ moved # None
    /\ ~\E q \in tree \ {moved} : Below(q, moved)
    /\ tree' = tree \ {moved} /\ trash' = IF trash = moved THEN None ELSE trash
    /\ dropped' = dropped \cup {moved}
    /\ Removed({m \in Mails : at[m] = moved},
               [m \in Mails |-> IF lost[m] = "late" THEN "late"
                                ELSE IF Below(todo.new, moved) THEN "trash below" ELSE "deleted"])
    /\ todo' = [todo EXCEPT !.left = @ \ {moved}] /\ moved' = None
    /\ UNCHANGED <<index, requests, halfway>>
ordner_austragen ==
    /\ todo.kind = "delete" /\ todo.left = {}
    /\ shown' = [m \in Mails |-> IF shown[m] # None /\ Below(shown[m], todo.folder) THEN None ELSE shown[m]]
    /\ todo' = NoRequest
    /\ UNCHANGED <<provider, locals, ops, rescued, moved, requests, history>>
delete_local_folder(p) ==
    /\ p \in locals /\ Begin(NoRequest)
    /\ locals' = locals \ {p}
    /\ shown' = [m \in Mails |-> IF shown[m] = p THEN None ELSE shown[m]]
    /\ UNCHANGED <<provider, ops, rescued, history>>

(* empty_folder: what is in the provider's trash goes for good, whatever   *)
(* the user sees in it.                                                    *)
empty_folder == /\ Begin([NoRequest EXCEPT !.kind = "empty"])
                /\ Removed({m \in Mails : trash # None /\ at[m] = trash},
                           [m \in Mails |-> IF ops[m] = None THEN "emptied" ELSE "waiting"])
                /\ UNCHANGED <<tree, trash, index, dropped, halfway>>
ordner_leeren == /\ todo.kind = "empty"
                 /\ shown' = [m \in Mails |-> IF shown[m] = Trash THEN None ELSE shown[m]]
                 /\ todo' = NoRequest
                 /\ UNCHANGED <<provider, locals, ops, rescued, moved, requests, history>>

(* folder_to_provider: made there, then its mails are put back there.      *)
folder_to_provider(p) == /\ p \in locals \ {Trash} /\ Begin([NoRequest EXCEPT !.kind = "to provider", !.folder = p])
                         /\ tree' = tree \cup WithParents(p)
                         /\ UNCHANGED <<trash, at, index, history>>
enqueue_retten == /\ todo.kind = "to provider"
                  /\ locals' = locals \ {todo.folder}
                  /\ ops' = [m \in Mails |-> IF shown[m] = todo.folder THEN todo.folder ELSE ops[m]]
                  /\ rescued' = rescued \cup {m \in Mails : shown[m] = todo.folder}
                  /\ todo' = NoRequest
                  /\ UNCHANGED <<provider, shown, moved, requests, history>>

Next == \/ \E m \in Mails : Replay(m) \/ Sync(m) \/ \E p \in Place : Arrive(m, p) \/ move_message(m, p)
        \/ \E p \in Place : \/ create_folder(p) \/ delete_folder(p) \/ delete_local_folder(p)
                            \/ folder_to_provider(p) \/ AllToTrash(p) \/ \E q \in Place : rename_folder(p, q)
        \/ RenameAtProvider \/ ordner_umbenennen \/ DeleteAtProvider \/ ordner_austragen
        \/ empty_folder \/ ordner_leeren \/ enqueue_retten \/ Fail
Spec == Init /\ [][Next]_vars

-----------------------------------------------------------------------------
(* Properties.                                                             *)

(* Deleting a folder deletes no mail: all it has and all below it are in   *)
(* the trash first - but for one that came in between, and where the trash *)
(* itself is below the folder.                                             *)
FoldersNotMails == \A m \in Mails : lost[m] # "deleted"

(* A waiting move names a folder the provider has, also after that folder  *)
(* or one above it is renamed - unless the folder was deleted, or was      *)
(* renamed at the provider without the waiting moves following: a lost     *)
(* answer, a stop of Relay or a failed write between the two (halfway).    *)
MovesFollow == \A m \in Mails : (ops[m] # None /\ todo.kind # "renamed")
                                => ops[m] \in tree \cup {Trash} \cup dropped \cup halfway

=============================================================================
