------------------------------ MODULE MailSync ------------------------------
(***************************************************************************)
(* Relay's index and the provider's folders, kept alike by three parties:  *)
(* the API handlers, which move and delete rows of the index at once and   *)
(* queue what the provider must do (api/messages.rs, cache/provider_ops.rs,*)
(* cache/delete_queue.rs); the scheduler's loop, which fetches, compares   *)
(* and replays the queues (sync/scheduler.rs); and the user's other        *)
(* clients.  A row moved locally is provisional: it keeps the number of    *)
(* the folder it came from until the server's own row arrives.             *)
(*                                                                         *)
(* All mails have a Message-ID header, and the provider has MOVE; the      *)
(* module DeleteQueue looks at the others, at one mail in more detail.     *)
(***************************************************************************)
EXTENDS Naturals, FiniteSets

CONSTANTS Mails,
          None,          \* no mail, no file
          Accounts,      \* mode of the account ("mirror" or "archive"), the mails
                         \* that come, and a bound: how many requests of the user,
                         \* moves by other clients, failed commands, restarts and
                         \* files fetched by the backfill there may be in all
          MaxAttempts    \* attempts before the worker gives an op up (5 in the code)

ASSUME AccountsAssumption ==
    Accounts \subseteq [mode : {"mirror", "archive"}, mails : SUBSET Mails, events : Nat]
ASSUME BoundsAssumption == IsFiniteSet(Mails) /\ MaxAttempts \in Nat \ {0}
ASSUME NoneAssumption == None \notin Mails \cup {"INBOX", "Work", "Trash"}

VARIABLES account,  \* one of Accounts
          place,    \* the provider: where it has each mail
          next,     \* the provider: the next number in each folder
          rows,     \* the table messages
          cursor,   \* sync_state: the highest number fetched, per folder
          ops,      \* provider_ops, without the ones done
          dq,       \* delete_queue, without the ones deleted
          at,       \* the step of the loop ...
          here,     \* ... and the folder it is at
          batch,    \* the mails of that folder it fetched
          listed,   \* the numbers the comparison read
          waiting,  \* rows the comparison found without their mail
          todo,     \* ops and delete-queue rows it has listed
          word,     \* history: what the user last said of each mail
          crossed,  \* history: mails whose moves crossed, see Crossing
          events    \* what of the bound is spent

provider == <<account, place, next>>
queues == <<ops, dq>>
loop == <<at, here, batch, listed, waiting, todo>>
history == <<word, crossed>>
vars == <<provider, rows, cursor, queues, loop, history, events>>

Folders == {"INBOX", "Work", "Trash"}

(* The order in which the loop visits the folders. *)
After(f) == IF f = "INBOX" THEN "Work" ELSE "Trash"

mode == account.mode
MaxEvents == account.events
MaxUid == Cardinality(Mails) + MaxEvents
Place == [folder : Folders \cup {"new", "gone"}, uid : 0 .. MaxUid, del : BOOLEAN]
Row == [id : Nat \ {0}, folder : Folders, uid : Nat \ {0}, mail : Mails,
        synced : BOOLEAN, eml : Mails \cup {None}]
Op == [id : 1 .. MaxEvents, mail : Mails, from : Folders, to : Folders \cup {None},
       attempts : 0 .. MaxAttempts]
QueueRow == [id : 1 .. MaxEvents, row : Nat \ {0}, folder : Folders, uid : Nat \ {0}]

Init == /\ account \in Accounts
        /\ place = [m \in Mails |-> [folder |-> "new", uid |-> 0, del |-> FALSE]]
        /\ next = [f \in Folders |-> 1]
        /\ rows = {} /\ cursor = [f \in Folders |-> 0]
        /\ ops = {} /\ dq = {}
        /\ at = "fetch" /\ here = "INBOX" /\ batch = {} /\ listed = {}
        /\ waiting = {} /\ todo = {}
        /\ word = [m \in Mails |-> "none"] /\ crossed = {}
        /\ events = 0

-----------------------------------------------------------------------------
Event == events < MaxEvents /\ events' = events + 1

(* Who deletes a mail for good does not take that back. *)
Say(m, w) == word' = [word EXCEPT ![m] = IF @ = "purge" THEN @ ELSE w]

(* Relay and another client move a mail before either has seen the other's *)
(* move; or an op for it is done while an older one waits to be tried      *)
(* again.                                                                  *)
Crossing(m, so) == crossed' = IF so THEN crossed \cup {m} ELSE crossed

(* The provider and the other clients.                                     *)

(* A mail comes to a folder under a number never used there. *)
Put(m, f) == /\ place' = [place EXCEPT ![m].folder = f, ![m].uid = next[f]]
             /\ next' = [next EXCEPT ![f] = @ + 1]
             /\ UNCHANGED account

Arrive(m, f) == /\ m \in account.mails /\ place[m].folder = "new" /\ f # "Trash"
                /\ Put(m, f)
                /\ UNCHANGED <<rows, cursor, queues, loop, history, events>>

(* Another client moves, deletes or restores a mail. *)
OtherMove(m, f) ==
    /\ place[m].folder \in Folders \ {f} /\ ~place[m].del
    /\ Event
    /\ Put(m, f)
    /\ Say(m, IF f = "Trash" THEN "trash" ELSE "keep")
    /\ Crossing(m, \/ \E o \in ops : o.mail = m
                   \/ \E r \in rows : r.mail = m /\ ~r.synced)
    /\ UNCHANGED <<rows, cursor, queues, loop>>

Elsewhere == \E m \in Mails, f \in Folders : Arrive(m, f) \/ OtherMove(m, f)

-----------------------------------------------------------------------------
(* The API.                                                                *)

(* DELETE FROM messages: delete_queue follows its row, ON DELETE CASCADE.  *)
Without(R) == /\ rows' = rows \ R
              /\ dq' = {q \in dq : \A r \in R : q.row # r.id}

(* update_folder_from: a copy of the mail in the target wins over the row; *)
(* a number in use there is shifted; the row is provisional from then on.  *)
(* (Mutant: it counts as the server's.)                                    *)
Shift == 100000
FreeNumber(f, u) == CHOOSE v \in {u + k * Shift : k \in 0 .. Cardinality(rows)} :
                        /\ \A r \in rows : r.folder = f => r.uid # v
                        /\ \A w \in {u + k * Shift : k \in 0 .. Cardinality(rows)} :
                              (\A r \in rows : r.folder = f => r.uid # w) => v <= w
MovedAsSynced(r, f) == [r EXCEPT !.folder = f, !.uid = FreeNumber(f, r.uid)]
Moved(r, f) == [r EXCEPT !.folder = f, !.uid = FreeNumber(f, r.uid), !.synced = FALSE]
InTarget(r, f) == \E s \in rows : s.folder = f /\ s.mail = r.mail
update_folder_from(r, f) ==
    IF InTarget(r, f) THEN Without({r})
    ELSE rows' = (rows \ {r}) \cup {Moved(r, f)} /\ UNCHANGED dq

(* Where the provider has a mail once the ops for it are done. *)
Bound(m) == LET O == {o \in ops : o.mail = m}
            IN IF O = {} THEN place[m].folder
               ELSE (CHOOSE o \in O : \A p \in O : p.id <= o.id).to

(* enqueue_verschieben, enqueue_loeschen: by Message-ID. *)
Enqueue(m, f, to) ==
    /\ ops' = ops \cup {[id |-> events', mail |-> m, from |-> f, to |-> to, attempts |-> 0]}
    /\ Crossing(m, Bound(m) # f)

(* move_message, also out of Relay's trash. *)
Move(r, f) == /\ f # r.folder
              /\ Event
              /\ update_folder_from(r, f)
              /\ Enqueue(r.mail, r.folder, f)
              /\ Say(r.mail, IF f = "Trash" THEN "trash" ELSE "keep")
              /\ UNCHANGED <<provider, cursor, loop>>

(* delete_message_trash_mode; from the trash, for good                     *)
(* (delete_message_permanent_delete).                                      *)
DeleteMirror(r) ==
    /\ mode = "mirror"
    /\ Event
    /\ IF r.folder # "Trash"
       THEN update_folder_from(r, "Trash") /\ Enqueue(r.mail, r.folder, "Trash")
       ELSE Without({r}) /\ Enqueue(r.mail, "Trash", None)
    /\ Say(r.mail, IF r.folder = "Trash" THEN "purge" ELSE "trash")
    /\ UNCHANGED <<provider, cursor, loop>>

(* delete_message_archive_trash: the provider's copy goes by the number    *)
(* the row had; for a row that gave way to its copy in the trash the       *)
(* foreign key refuses the queue row.                                      *)
DeleteArchive(r) ==
    /\ mode = "archive"
    /\ Event
    /\ IF InTarget(r, "Trash") THEN Without({r})
       ELSE /\ rows' = (rows \ {r}) \cup {Moved(r, "Trash")}
            /\ dq' = dq \cup {[id |-> events', row |-> r.id, folder |-> r.folder, uid |-> r.uid]}
    /\ Say(r.mail, "trash")
    /\ UNCHANGED <<provider, cursor, ops, loop, crossed>>

(* loesch_erneut: what was given up starts again. *)
Retry == /\ \E o \in ops : o.attempts > 0
         /\ Event
         /\ ops' = {[o EXCEPT !.attempts = 0] : o \in ops}
         /\ UNCHANGED <<provider, rows, cursor, dq, loop, history>>

Api == Retry \/ \E r \in rows : \/ DeleteMirror(r) \/ DeleteArchive(r)
                                \/ \E f \in Folders : Move(r, f)

-----------------------------------------------------------------------------
(* The loop: FetchNew, folder by folder.                                   *)

GivenUp(o) == o.attempts >= MaxAttempts

GoOn == /\ batch' = {} /\ listed' = {} /\ waiting' = {} /\ UNCHANGED todo
        /\ IF here = "Trash" THEN at' = "delete" /\ here' = "INBOX"
           ELSE at' = "fetch" /\ here' = After(here)

(* What lies above the cursor. *)
Fetch == /\ at = "fetch"
         /\ LET B == {[mail |-> m, uid |-> place[m].uid] : m \in
                         {m \in Mails : place[m].folder = here /\ place[m].uid > cursor[here]}}
            IN /\ batch' = B
               /\ at' = IF B = {} THEN "list" ELSE "save"
         /\ UNCHANGED <<provider, rows, cursor, queues, here, listed, waiting, todo, history, events>>

(* save_message, for each mail: unless a restore of it waits (restore      *)
(* guard) or its deletion is on its way (re-fetch guard), the row with     *)
(* its number is made or overwritten, and its provisional row goes.        *)
(* (Mutant: any row in the trash holds the mail back.)                     *)
RestoreGuard(m) == here = "Trash" /\ \E o \in ops : o.mail = m /\ o.from = "Trash" /\ o.to # None
RefetchGuardStrict(m) == here # "Trash" /\ \E r \in rows : r.folder = "Trash" /\ r.mail = m
RefetchGuard(m) ==
    here # "Trash" /\ \E r \in rows : r.folder = "Trash" /\ r.mail = m /\ ~r.synced

(* A batch is one transaction, its mails in the order of their numbers: so *)
(* a row with the number of one mail that is the provisional row of        *)
(* another is overwritten, or has gone before, as their numbers are.       *)
GivesWay(r, x) == r.folder = here /\ r.mail = x.mail /\ ~r.synced /\ r.uid # x.uid
Saved == {x \in batch : ~RestoreGuard(x.mail) /\ ~RefetchGuard(x.mail)}

NewId == CHOOSE id \in [Mails -> 1 .. Cardinality(rows) + Cardinality(Mails)] :
            /\ \A m, n \in Mails : id[m] = id[n] => m = n
            /\ \A r \in rows, m \in Mails : id[m] # r.id

OldRow(x) == {r \in rows : /\ r.folder = here /\ r.uid = x.uid
                          /\ \A y \in Saved : y.uid < x.uid => ~GivesWay(r, y)}
SavedRow(x) == IF OldRow(x) = {}
               THEN [id |-> NewId[x.mail], folder |-> here, uid |-> x.uid,
                     mail |-> x.mail, synced |-> TRUE, eml |-> None]
               ELSE [(CHOOSE r \in OldRow(x) : TRUE) EXCEPT !.mail = x.mail, !.synced = TRUE]

save_message == {r \in rows : \A x \in Saved : /\ ~GivesWay(r, x)
                                               /\ r.folder = here => r.uid # x.uid}
                \cup {SavedRow(x) : x \in Saved}

(* The cursor after it.  (Mutant: the highest number in the index.)        *)
HighestInIndex == LET U == {r.uid : r \in {r \in rows : r.folder = here}} \cup {x.uid : x \in batch}
                  IN CHOOSE u \in U : \A v \in U : v <= u
HighestFetched == LET U == {x.uid : x \in batch} IN CHOOSE u \in U : \A v \in U : v <= u

Save == /\ at = "save"
        /\ rows' = save_message
        /\ dq' = {q \in dq : \E r \in rows' : r.id = q.row}
        /\ cursor' = [cursor EXCEPT ![here] = HighestFetched]
        /\ at' = "list"
        /\ UNCHANGED <<provider, ops, here, batch, listed, waiting, todo, history, events>>

(* ordner_abgleichen: the folder's numbers are read (not of the trash in   *)
(* archive mode, and of "Work" without news only every ten minutes) ...    *)
NotCompared == \/ here = "Trash" /\ mode = "archive"
               \/ here = "Work" /\ batch = {}

Skip == /\ at = "list" /\ NotCompared
        /\ GoOn
        /\ UNCHANGED <<provider, rows, cursor, queues, history, events>>

List == /\ at = "list" /\ ~(here = "Trash" /\ mode = "archive")
        /\ listed' = {place[m].uid : m \in {m \in Mails : place[m].folder = here}}
        /\ at' = "ask"
        /\ UNCHANGED <<provider, rows, cursor, queues, here, batch, waiting, todo, history, events>>

(* ... rows that have waited two minutes for the server's, with no op      *)
(* to be tried for their mail, are looked up by Message-ID                 *)
(* (wartende_zeilen; mutant: an op given up counts as well) ...            *)
WaitingForAnyOp == {r \in rows : /\ r.folder = here /\ ~r.synced
                                 /\ \A o \in ops : o.mail # r.mail}
wartende_zeilen == {r \in rows : /\ r.folder = here /\ ~r.synced
                                 /\ \A o \in ops : o.mail = r.mail => GivenUp(o)}

Ask(old) == /\ at = "ask"
            /\ waiting' = {r.id : r \in {r \in old : place[r.mail].folder # here}}
            /\ at' = "prune"
            /\ UNCHANGED <<provider, rows, cursor, queues, here, batch, listed, todo, history, events>>

(* ... those not found go, and the server's rows whose number is no longer *)
(* listed (delete_messages_not_in).                                        *)
delete_messages_not_in == {r \in rows : r.folder = here /\ r.synced /\ r.uid \notin listed}

Prune == /\ at = "prune"
         /\ Without({r \in rows : r.id \in waiting} \cup delete_messages_not_in)
         /\ IF here = "INBOX" /\ batch # {}
            THEN at' = "body" /\ UNCHANGED <<here, batch, listed, waiting, todo>>
            ELSE GoOn
         /\ UNCHANGED <<provider, cursor, ops, history, events>>

(* The raw form of new inbox mail is archived, for the row that has the    *)
(* number now.                                                             *)
Body == /\ at = "body"
        /\ rows' = {IF /\ r.folder = "INBOX"
                       /\ \E x \in batch : /\ x.uid = r.uid /\ place[x.mail].uid = r.uid
                                           /\ place[x.mail].folder = "INBOX"
                    THEN [r EXCEPT !.eml = (CHOOSE x \in batch : x.uid = r.uid).mail]
                    ELSE r : r \in rows}
        /\ GoOn
        /\ UNCHANGED <<provider, cursor, queues, history, events>>

(* The provider does not answer: the folder is left for this time. *)
FolderFails == /\ at \in {"fetch", "list"}
               /\ Event
               /\ GoOn
               /\ UNCHANGED <<provider, rows, cursor, queues, history>>

Sync == Fetch \/ Save \/ Skip \/ List \/ (\E old \in SUBSET wartende_zeilen : Ask(old))
        \/ Prune \/ Body \/ FolderFails

-----------------------------------------------------------------------------
(* BackfillEmails: the raw form of a row without one, noted at every row   *)
(* of the account with that number.                                        *)
BackfillEmails(r) ==
    /\ at = "delete" /\ r.eml = None /\ (mode = "archive" => r.folder # "Trash")
    /\ Event
    /\ \E m \in Mails : /\ place[m].folder = r.folder /\ place[m].uid = r.uid
                        /\ rows' = {IF s.uid = r.uid THEN [s EXCEPT !.eml = m] ELSE s : s \in rows}
    /\ UNCHANGED <<provider, cursor, queues, loop, history>>

(* run_delete_queue, in one step for each row (the module DeleteQueue has  *)
(* them singly): with a file noted at the row whatever has the number goes *)
(* for good, else into the trash.                                          *)
RemoveQueued(q) ==
    /\ at = "delete"
    /\ dq' = dq \ {q}
    /\ LET there == {m \in Mails : place[m].folder = q.folder /\ place[m].uid = q.uid}
           verified == \E r \in rows : r.id = q.row /\ r.eml # None
       IN IF there = {} THEN UNCHANGED provider
          ELSE \E m \in there : IF verified
                                THEN place' = [place EXCEPT ![m].del = TRUE] /\ UNCHANGED <<account, next>>
                                ELSE Put(m, "Trash")
    /\ UNCHANGED <<rows, cursor, ops, loop, history, events>>

(* run_provider_ops takes the ops not given up, oldest first (mutant:      *)
(* newest first).                                                          *)
DeleteDone == /\ at = "delete" /\ dq = {}
              /\ at' = "ops"
              /\ todo' = {o.id : o \in {o \in ops : ~GivenUp(o)}}
              /\ UNCHANGED <<provider, rows, cursor, queues, here, batch, listed, waiting, history, events>>

(* move_mid, delete_mid: where the folder has the mail.                    *)
Effect(o) == IF place[o.mail].folder # o.from THEN UNCHANGED provider
             ELSE IF o.to = None
                  THEN place' = [place EXCEPT ![o.mail].del = TRUE] /\ UNCHANGED <<account, next>>
             ELSE Put(o.mail, o.to)

NewestFirst(o) == \A p \in ops : p.id \in todo => o.id >= p.id
Oldest(o) == \A p \in ops : p.id \in todo => o.id <= p.id

RunOp(o) ==
    /\ at = "ops" /\ o.id \in todo /\ Oldest(o)
    /\ todo' = todo \ {o.id}
    /\ \/ /\ Effect(o)
          /\ ops' = ops \ {o}
          /\ Crossing(o.mail, \E p \in ops : p.mail = o.mail /\ p.id < o.id /\ p.id \notin todo)
          /\ UNCHANGED events
       \/ /\ Event
          /\ Effect(o) \/ UNCHANGED provider
          /\ ops' = (ops \ {o}) \cup {[o EXCEPT !.attempts = @ + 1]}
          /\ UNCHANGED crossed
    /\ UNCHANGED <<rows, cursor, dq, at, here, batch, listed, waiting, word>>

(* The ops are through; run_periodic_expunge empties the folders it knows  *)
(* of, and the next round begins.                                          *)
OpsDone == /\ at = "ops" /\ todo = {}
           /\ place' = [m \in Mails |-> IF place[m].del THEN [place[m] EXCEPT !.folder = "gone"]
                                        ELSE place[m]]
           /\ at' = "fetch"
           /\ UNCHANGED <<account, next, rows, cursor, queues, here, batch, listed, waiting, todo, history, events>>

Rest == \/ \E r \in rows : BackfillEmails(r)
        \/ \E q \in dq : RemoveQueued(q)
        \/ \E o \in ops : RunOp(o)
        \/ DeleteDone \/ OpsDone

(* A restart. *)
Crash == /\ at # "fetch" \/ here # "INBOX"
         /\ Event
         /\ at' = "fetch" /\ here' = "INBOX" /\ batch' = {} /\ listed' = {}
         /\ waiting' = {} /\ todo' = {}
         /\ UNCHANGED <<provider, rows, cursor, queues, history>>

Loop == Sync \/ Rest

Next == Elsewhere \/ Api \/ Loop \/ Crash

Spec == Init /\ [][Next]_vars

(* The loop runs on; every folder is compared again and again, and a row   *)
(* that waits has waited long enough at some time.                         *)
FairSpec == /\ Spec /\ WF_vars(Loop)
            /\ SF_vars(here = "Work" /\ List)
            /\ \A f \in Folders : SF_vars(here = f /\ Ask(wartende_zeilen))

-----------------------------------------------------------------------------
TypeOK == /\ account \in Accounts
          /\ place \in [Mails -> Place]
          /\ next \in [Folders -> 1 .. MaxUid + 1]
          /\ rows \subseteq Row /\ cursor \in [Folders -> 0 .. MaxUid]
          /\ ops \subseteq Op /\ dq \subseteq QueueRow
          /\ at \in {"fetch", "save", "list", "ask", "prune", "body", "delete", "ops"}
          /\ here \in Folders /\ listed \subseteq 1 .. MaxUid
          /\ batch \subseteq [mail : Mails, uid : 1 .. MaxUid]
          /\ waiting \subseteq Nat \ {0} /\ todo \subseteq 1 .. MaxEvents
          /\ word \in [Mails -> {"none", "keep", "trash", "purge"}] /\ crossed \subseteq Mails

(***************************************************************************)
(* The number of a row the server confirmed is that mail's or nobody's: a  *)
(* command sent by it never hits another mail, however rows were moved,    *)
(* fetched, overwritten and pruned in between.                             *)
(***************************************************************************)
ConfirmedNumbers == \A r \in rows, m \in Mails :
    r.synced /\ place[m].folder = r.folder /\ place[m].uid = r.uid => m = r.mail

(***************************************************************************)
(* The provider keeps a mail as its user last said: none is taken away for *)
(* good that he did not delete for good, and none lies in the trash that   *)
(* he took out of it or never put there, once no op waits for it - however *)
(* ops fail halfway, are tried again or follow each other.                 *)
(***************************************************************************)
Kept == mode = "mirror" => \A m \in Mails :
    /\ place[m].folder = "gone" \/ place[m].del => word[m] = "purge"
    /\ place[m].folder = "Trash" /\ word[m] \in {"none", "keep"} =>
           m \in crossed \/ \E o \in ops : o.mail = m

(***************************************************************************)
(* In archive mode too a mail nobody ever deleted stays where it is kept:  *)
(* no deletion of another one takes it away ("a number sent to the         *)
(* provider in that window would miss the mail or hit another one").       *)
(***************************************************************************)
KeptInArchive == mode = "archive" => \A m \in Mails :
    word[m] = "none" => place[m].folder \in {"new", "INBOX", "Work"} /\ ~place[m].del

(***************************************************************************)
(* A row's archived file is that of its own mail.                          *)
(***************************************************************************)
OwnFile == \A r \in rows : r.eml \in {None, r.mail}

(***************************************************************************)
(* In the end Relay shows every mail where the provider has it - but for   *)
(* mails deleted in archive mode, whose place is Relay's trash, mails      *)
(* whose op was given up, and mails whose moves crossed: the cursor may    *)
(* have passed these for good.                                             *)
(***************************************************************************)
Shown(m) == place[m].folder \in Folders =>
                \/ \E r \in rows : r.mail = m /\ r.folder = place[m].folder
                \/ mode = "archive" /\ word[m] = "trash"

HeldUp(m) == m \in crossed \/ \E o \in ops : o.mail = m /\ GivenUp(o)

EverythingShown == \A m \in Mails : <>[](HeldUp(m) \/ Shown(m))

(***************************************************************************)
(* And in the end Relay shows nothing that the provider does not have.     *)
(***************************************************************************)
NoGhosts == <>[](\A r \in rows : \/ place[r.mail].folder = r.folder
                                 \/ mode = "archive" /\ r.folder = "Trash")
=============================================================================
