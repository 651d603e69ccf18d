----------------------------- MODULE Migration ------------------------------
(***************************************************************************)
(* Copying the mails of one account into local folders of another          *)
(* (api/migrate.rs): the background task for all folders or for one, of    *)
(* which two may run at once, and the request that copies a folder, in     *)
(* chunks or as a whole, or all folders. A mail is named by its place at   *)
(* the source's provider, folder and number, and so is its row; a copy is  *)
(* a row of the target and the file its path leads to.                     *)
(***************************************************************************)
EXTENDS Naturals, FiniteSets

CONSTANTS Folders, Numbers,
          None, Own, \* no mail, and a mail of the target account itself
          Limit,     \* batch_limit of a chunk
          MaxErrors, \* bound: calls and reads that fail
          MaxChanges, \* bound: mails the source gains or loses, resets, restarts
          MaxStarts  \* bound: tasks and requests begun, with these two

MigrationAssumption == /\ {MaxStarts, MaxErrors, MaxChanges} \subseteq Nat
                       /\ Limit \in Nat \ {0} /\ None \notin Folders \cup {Own}
                       /\ Own \notin Folders

VARIABLES server,  \* places with a mail at the source's provider
          rows,    \* Relay's rows of the source, with or without an archived file
          ever,   \* history: places that ever had a mail or a row
          target,  \* rows of the target
          files,   \* the target's archive
          reset,   \* resets under way, and whether rows may lack their files
          worker, status,
          starts, errors, changes
vars == <<server, rows, ever, target, files, reset, worker, status, starts, errors, changes>>

Tasks == {"task", "second"}
Workers == Tasks \cup {"request"}
Places == Folders \X Numbers
NoMail == <<None, 0>>
OwnMail == <<Own, 0>>
EmptyMail == <<None, 1>> \* one made of nothing
Mails == Places \cup {NoMail, OwnMail, EmptyMail}

\* The path is made of number, date and message id, not of the folder: of what
\* the row said the copy was made from, which is nothing without a row.
Paths == Numbers \X (Places \cup {NoMail})
NoCopy == [there |-> FALSE, head |-> NoMail, path |-> <<0, NoMail>>]
Kinds == {"all", "folder", "chunk", "whole"}
Idle == [step |-> "idle", kind |-> "all", folders |-> {}, folder |-> None, todo |-> {}, existing |-> {}, cached |-> {},
         copied |-> {}, failed |-> {}, number |-> 0, head |-> NoMail, bytes |-> NoMail]
NoStatus == [running |-> FALSE, done |-> FALSE, kind |-> "all", folder |-> None, listed |-> {}, failed |-> {},
             error |-> FALSE, shared |-> FALSE] \* shared: set while another task ran

TypeOK == /\ server \subseteq ever /\ ever \subseteq Places /\ rows \in [Places -> {"none", "plain", "raw"}]
          /\ target \in [Places -> [there : BOOLEAN, head : Mails, path : Paths \cup {<<0, NoMail>>}]]
          /\ files \in [Paths -> Mails] /\ reset \in [open : 0 .. MaxChanges, torn : BOOLEAN]
          /\ worker \in [Workers -> [step : {"idle", "starting", "folder", "mails", "read", "write", "insert"},
                                     kind : Kinds, folders : SUBSET Folders, folder : Folders \cup {None},
                                     todo : SUBSET Numbers, existing : SUBSET Numbers, cached : SUBSET Numbers,
                                     copied : SUBSET Numbers, failed : SUBSET Numbers, number : Numbers \cup {0},
                                     head : Mails, bytes : Mails]]
          /\ status \in [running : BOOLEAN, done : BOOLEAN, kind : Kinds, folder : Folders \cup {None},
                         listed : SUBSET Numbers, failed : SUBSET Numbers, error : BOOLEAN, shared : BOOLEAN]
          /\ starts \in 0 .. MaxStarts /\ errors \in 0 .. MaxErrors /\ changes \in 0 .. MaxChanges

OwnCopy == [there |-> TRUE, head |-> OwnMail, path |-> <<0, NoMail>>]
Init == /\ server \in SUBSET Places
        /\ rows \in [Places -> {"none", "plain", "raw"}]
        /\ ever = server \cup {p \in Places : rows[p] # "none"}
        /\ target \in [Places -> {NoCopy, OwnCopy}]
        /\ files = [p \in Paths |-> NoMail] /\ reset = [open |-> 0, torn |-> FALSE]
        /\ worker = [w \in Workers |-> Idle] /\ status = NoStatus
        /\ starts = 0 /\ errors = 0 /\ changes = 0

Room == starts + errors + changes < MaxStarts
Fails == Room /\ errors < MaxErrors /\ errors' = errors + 1
Changes == Room /\ changes < MaxChanges /\ changes' = changes + 1
Starts == Room /\ starts' = starts + 1
Set(w, record) == worker' = [worker EXCEPT ![w] = record]
Mailbox == <<server, rows, ever>>
Copies == <<target, files, reset>>

-----------------------------------------------------------------------------
\* Starting

\* A task is refused while one runs; the status is asked for under one lock and
\* set under another, with the target detached from the sync in between.
Asked(w, kind, folders, folder) ==
    /\ worker[w].step = "idle" /\ ~status.running /\ Starts
    /\ Set(w, [Idle EXCEPT !.step = "starting", !.kind = kind, !.folders = folders, !.folder = folder])
    /\ UNCHANGED <<Mailbox, Copies, status, errors, changes>>
start_migration(w) == Asked(w, "all", Folders, None)
start_folder_migration(w, f) == Asked(w, "folder", {f}, f)

Running(w) == worker[w].step \notin {"idle", "starting"}
Begin(w) == /\ worker[w].step = "starting"
            /\ status' = [NoStatus EXCEPT !.running = TRUE, !.kind = worker[w].kind, !.folder = worker[w].folder,
                                          !.shared = \E v \in Tasks \ {w} : Running(v)]
            /\ Set(w, [worker[w] EXCEPT !.step = "folder"])
            /\ UNCHANGED <<Mailbox, Copies, starts, errors, changes>>

\* A request asks nobody.
Requested(kind, folders) == /\ worker["request"].step = "idle" /\ Starts
                            /\ Set("request", [Idle EXCEPT !.step = "folder", !.kind = kind, !.folders = folders])
                            /\ UNCHANGED <<Mailbox, Copies, status, errors, changes>>
copy_folder_endpoint(f) == \E kind \in {"chunk", "whole"} : Requested(kind, {f})
copy_account == Requested("whole", Folders)

-----------------------------------------------------------------------------
\* One folder

Present(f) == {n \in Numbers : target[<<f, n>>].there}
PresentAnywhere(f) == {n \in Numbers : \E g \in Folders : target[<<g, n>>].there}
Existing(f) == Present(f)

finish_folder_task(listed, failed, error) ==
    status' = [status EXCEPT !.running = FALSE, !.done = TRUE, !.listed = listed, !.failed = failed, !.error = error]

\* The provider's numbers of the folder and those the target has already; the
\* request also lists the rows of the source's folder.
List(w) == \E f \in worker[w].folders :
    LET uids == {n \in Numbers : <<f, n>> \in server} IN
    /\ worker[w].step = "folder"
    /\ Set(w, [worker[w] EXCEPT !.step = "mails", !.folder = f, !.folders = @ \ {f}, !.todo = uids \ Existing(f),
                                !.existing = uids, !.copied = {}, !.failed = {},
                                !.cached = IF w = "request" THEN {n \in Numbers : rows[<<f, n>>] # "none"} ELSE {}])
    /\ UNCHANGED <<Mailbox, Copies, status, starts, errors, changes>>

\* No connection or no list: the task for one folder says so, the task for all
\* counts the folder as done, the request answers that nothing is left or, of
\* all folders, ends or goes on. The task for all may not get its folders.
NotListed(w) == \E f \in worker[w].folders :
    /\ worker[w].step = "folder" /\ Fails
    /\ \/ /\ worker[w].kind \in {"all", "whole"} /\ worker[w].folders # {f}
          /\ Set(w, [worker[w] EXCEPT !.folders = @ \ {f}]) /\ UNCHANGED status
       \/ /\ worker[w].kind = "all" => worker[w].folders \in {{f}, Folders}
          /\ Set(w, Idle)
          /\ w \in Tasks => finish_folder_task({}, {}, worker[w].kind = "folder")
          /\ w = "request" => UNCHANGED status
    /\ UNCHANGED <<Mailbox, Copies, starts, changes>>

\* A chunk ends at its limit; failed mails do not count towards it.
FolderEnds(w) ==
    /\ worker[w].step = "mails"
    /\ \/ worker[w].todo = {}
       \/ worker[w].kind = "chunk" /\ Cardinality(worker[w].copied) >= Limit
    /\ IF worker[w].folders # {}
       THEN /\ Set(w, [Idle EXCEPT !.step = "folder", !.kind = worker[w].kind, !.folders = worker[w].folders])
            /\ UNCHANGED status
       ELSE /\ Set(w, Idle)
            /\ w \in Tasks => finish_folder_task(worker[w].existing, worker[w].failed, FALSE)
            /\ w = "request" => UNCHANGED status
    /\ UNCHANGED <<Mailbox, Copies, starts, errors, changes>>

-----------------------------------------------------------------------------
\* copy_one_message

\* The row is asked for by account and number alone.
RowsOf(number) == {p \in Places : p[2] = number /\ rows[p] # "none"}
Heads(number) == IF RowsOf(number) = {} THEN {NoMail} ELSE RowsOf(number)

\* The next mail; the task looks here whether there is a row of that number.
Look(w) == \E n \in worker[w].todo :
    /\ worker[w].step = "mails"
    /\ worker[w].kind = "chunk" => Cardinality(worker[w].copied) < Limit
    /\ Set(w, [worker[w] EXCEPT !.step = "read", !.number = n,
                                !.cached = IF w \in Tasks THEN {m \in {n} : RowsOf(m) # {}} ELSE @])
    /\ UNCHANGED <<Mailbox, Copies, status, starts, errors, changes>>

Take(w, head, bytes) == Set(w, [worker[w] EXCEPT !.step = "write", !.head = head, !.bytes = bytes])
GoesOn(w, copied, failed) ==
    Set(w, [worker[w] EXCEPT !.step = "mails", !.todo = @ \ {worker[w].number}, !.number = 0, !.head = NoMail,
                             !.bytes = NoMail, !.copied = @ \cup copied, !.failed = @ \cup failed])
Unreported(w) == GoesOn(w, {}, {})
Skip(w) == GoesOn(w, {}, {worker[w].number})
Rebuilt(head) == IF head = NoMail THEN EmptyMail ELSE head

\* The archived file of the row; else the mail from the provider; else, of a
\* mail seen to be kept locally, a mail put together from its row, of nothing
\* when the row is gone by now; else it failed.
Read(w) == \E head \in Heads(worker[w].number) :
    LET place == <<worker[w].folder, worker[w].number>>
        archived == head # NoMail /\ rows[head] = "raw" IN
    /\ worker[w].step = "read"
    /\ \/ archived /\ Take(w, head, head) /\ UNCHANGED errors
       \/ archived /\ Fails /\ Skip(w)
       \/ ~archived /\ place \in server /\ Take(w, head, place) /\ UNCHANGED errors
       \/ /\ ~archived
          /\ IF place \in server THEN Fails ELSE UNCHANGED errors
          /\ IF worker[w].number \in worker[w].cached THEN Take(w, head, Rebuilt(head)) ELSE Skip(w)
    /\ UNCHANGED <<Mailbox, Copies, status, starts, changes>>

WriteFile(w) == /\ worker[w].step = "write"
                /\ files' = [files EXCEPT ![<<worker[w].number, worker[w].head>>] = worker[w].bytes]
                /\ Set(w, [worker[w] EXCEPT !.step = "insert"])
                /\ UNCHANGED <<Mailbox, target, reset, status, starts, errors, changes>>

\* The file is read back, then the row inserted unless there is one.
Insert(w) ==
    LET path == <<worker[w].number, worker[w].head>>
        place == <<worker[w].folder, worker[w].number>> IN
    /\ worker[w].step = "insert"
    /\ IF files[path] # worker[w].bytes THEN Skip(w) /\ UNCHANGED target
       ELSE /\ target' = IF target[place].there THEN target
                         ELSE [target EXCEPT ![place] = [there |-> TRUE, head |-> worker[w].head, path |-> path]]
            /\ GoesOn(w, {worker[w].number}, {})
    /\ UNCHANGED <<Mailbox, files, reset, status, starts, errors, changes>>

copy_one_message(w) == Look(w) \/ Read(w) \/ WriteFile(w) \/ Insert(w)

-----------------------------------------------------------------------------
\* Around it

\* The files of the target's rows, then the rows, then the folders and what rows
\* they have by then; nothing asks whether a task runs, so what the task listed
\* no longer counts.
RemoveFiles == /\ Changes
               /\ files' = [f \in Paths |-> IF \E p \in Places : target[p].there /\ target[p].path = f
                                            THEN NoMail ELSE files[f]]
               /\ reset' = [open |-> reset.open + 1, torn |-> TRUE]
               /\ UNCHANGED <<Mailbox, target, worker, status, starts, errors>>
WipeRows == /\ reset.open > 0
            /\ target' = [p \in Places |-> NoCopy]
            /\ reset' \in {[open |-> reset.open - n, torn |-> FALSE] : n \in 0 .. 1}
            /\ status' = [status EXCEPT !.listed = {}]
            /\ worker' = [w \in Workers |-> [worker[w] EXCEPT !.existing = {}]]
            /\ UNCHANGED <<Mailbox, files, starts, errors, changes>>
reset_target == RemoveFiles \/ WipeRows

\* The source: a mail comes or goes; its synchronisation archives a mail and
\* removes the row of one that is gone.
Arrives(p) == /\ p \notin ever /\ Changes /\ server' = server \cup {p} /\ ever' = ever \cup {p}
              /\ UNCHANGED <<rows, Copies, worker, status, starts, errors>>
Gone(p) == /\ p \in server /\ Changes /\ server' = server \ {p}
           /\ UNCHANGED <<rows, ever, Copies, worker, status, starts, errors>>
Archived(p) == /\ p \in server /\ rows[p] # "raw" /\ Changes /\ rows' = [rows EXCEPT ![p] = "raw"]
               /\ UNCHANGED <<server, ever, Copies, worker, status, starts, errors>>
Pruned(p) == /\ p \notin server /\ rows[p] # "none" /\ Changes /\ rows' = [rows EXCEPT ![p] = "none"]
             /\ UNCHANGED <<server, ever, Copies, worker, status, starts, errors>>

\* The status is kept in memory only.
Restart == /\ Changes /\ worker' = [w \in Workers |-> Idle] /\ status' = NoStatus
           /\ reset' = [reset EXCEPT !.open = 0]
           /\ UNCHANGED <<Mailbox, target, files, starts, errors>>

Next == \/ copy_account \/ reset_target \/ Restart
        \/ \E w \in Tasks : start_migration(w) \/ Begin(w) \/ \E f \in Folders : start_folder_migration(w, f)
        \/ \E f \in Folders : copy_folder_endpoint(f)
        \/ \E w \in Workers : List(w) \/ NotListed(w) \/ FolderEnds(w) \/ copy_one_message(w)
        \/ \E p \in Places : Arrives(p) \/ Gone(p) \/ Archived(p) \/ Pruned(p)

Spec == Init /\ [][Next]_vars

-----------------------------------------------------------------------------
\* No other folder had a mail of that number.
Sole(p) == \A q \in ever : q[2] = p[2] => q = p

(* A folder the task reports done without an error is done: every mail the *)
(* provider listed has a row in the target or was counted as failed, and   *)
(* the row's file holds that mail, whatever ran beside the task, was       *)
(* copied before a restart or changed at the source meanwhile. What the    *)
(* code does not give is named: a row may be the target's own mail of that *)
(* number; the file is that of another folder's mail of the number, or, of *)
(* a row pruned between two looks, an empty one; two tasks at once; and a  *)
(* reset of the target starts anew, or was cut off with the files gone.    *)
DoneIsComplete ==
    /\ status.done /\ status.kind = "folder" /\ ~status.error /\ ~status.shared
    /\ reset.open = 0 /\ ~reset.torn
    => \A n \in status.listed \ status.failed :
          LET p == <<status.folder, n>> IN
          /\ target[p].there
          /\ target[p].head # OwnMail /\ Sole(p) => files[target[p].path] \in {p, EmptyMail}

(* What api/migrate.rs:3 to 8 says, every message is copied, byte for byte *)
(* and verified: the file of a row copied for a mail holds that mail.      *)
CopiesHold == \A p \in Places : target[p].there /\ target[p].head # OwnMail /\ ~reset.torn
                                 => files[target[p].path] = p
=============================================================================
