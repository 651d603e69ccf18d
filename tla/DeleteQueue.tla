----------------------------- MODULE DeleteQueue -----------------------------
(***************************************************************************)
(* The deletion pipeline of an account in archive mode: the API handlers   *)
(* that move a deleted mail into Relay's own trash and queue the removal   *)
(* of the provider's copy (api/messages.rs, api/delete_queue.rs), and the  *)
(* stages of the scheduler's loop that act on such a mail                  *)
(* (sync/scheduler.rs): fetch and comparison with the provider, delete     *)
(* queue, restore ops, expunge, trash retention.  The stages run one after *)
(* the other; the handlers run between any two sections under the          *)
(* database lock.                                                          *)
(***************************************************************************)
EXTENDS Naturals, FiniteSets

CONSTANTS Mails,        \* the mails of one account, one index row each
          Setups,       \* pairs: the kind of provider the account is at, and
                        \* the mails without a Message-ID header
          MaxAttempts,  \* attempts before the worker gives up (5 in the code)
          MaxRequests,  \* bound: delete requests the user makes
          MaxRestores,  \* bound: restores and retries the user makes
          MaxCrashes    \* bound: restarts of the server

ASSUME SetupsAssumption == Setups \subseteq {"gmail", "trash", "bare"} \X SUBSET Mails
ASSUME BoundsAssumption == /\ MaxAttempts \in Nat \ {0}
                           /\ MaxRequests \in Nat
                           /\ MaxRestores \in Nat
                           /\ MaxCrashes \in Nat

VARIABLES provider,   \* "gmail", "trash" (has a trash folder) or "bare"
          headless,   \* the mails without a Message-ID header
          row,        \* folder of the index row, "gone" without a row
          eml,        \* the archived file: "none" noted, "ok", "bad"
          alien,      \* rows that carry a number of the provider's trash
          copies,     \* the provider's copies of the mail, see Copies
          queue,      \* the table delete_queue
          api,        \* delete requests between two database sections
          restoring,  \* mails whose restore op waits in provider_ops
          expungeDue, \* INBOX is listed in expunge_offen
          at,         \* the stage and step of the scheduler's loop
          todo,       \* rows the delete-queue worker listed, not yet taken
          cur,        \* the row it works on (a set of at most one)
          ok,         \* the verdict of verify_archive_guarantee for it
          expired,    \* mails the retention stage listed, not yet removed
          leaving,    \* the mail whose file it removed last
          asked,      \* history: mails the user asked to delete
          blind,      \* history: mails deleted without copy and without trash
          swept,      \* history: mails whose file the retention removed
          requests, restores, crashes  \* what of the bounds is spent

relay == <<row, eml, alien, queue, api, restoring, expungeDue>>
loop == <<at, todo, cur, ok, expired, leaving>>
history == <<asked, blind, swept, requests, restores, crashes>>
setup == <<provider, headless>>
vars == <<setup, copies, relay, loop, history>>

(***************************************************************************)
(* "INBOX": under the number Relay knows; "flagged": there, but marked     *)
(* \Deleted; "back": moved back out of the trash, under a new number the   *)
(* fetch has not reached; "passed": the fetch went past that number        *)
(* without making a row; "Trash": in the provider's trash.                 *)
(***************************************************************************)
Copies == {"INBOX", "flagged", "back", "passed", "Trash"}
Folders == {"INBOX", "Lokal", "Trash"}
QueueRow == [id : 1 .. MaxRequests, mail : Mails, folder : Folders, known : BOOLEAN,
             state : {"pending", "verified", "deleted", "failed"},
             attempts : 0 .. MaxAttempts]
Request == [id : 1 .. MaxRequests, mail : Mails, folder : Folders, known : BOOLEAN,
            step : {"move", "enqueue"}]
Stages == {"sync", "delete", "contact", "done", "error", "ops", "retention", "drop"}

(* Folders kept only in Relay: in archive mode its trash is one of them. *)
is_local_only_folder(f) == f \in {"Lokal", "Trash"}

(* What the provider has in its INBOX under the number Relay knows. *)
Here(c) == c \cap {"INBOX", "flagged"}

(* DELETE FROM messages ... : delete_queue references the row, ON DELETE   *)
(* CASCADE.  (Mutant: a connection without PRAGMA foreign_keys.)           *)
CascadeOff(q, m) == q
Cascade(q, m) == {r \in q : r.mail # m}

Init == /\ \E s \in Setups : provider = s[1] /\ headless = s[2]
        /\ row \in [Mails -> {"INBOX", "Lokal"}]
        /\ eml \in [Mails -> {"none", "ok", "bad"}]
        /\ \A m \in Mails : row[m] = "Lokal" => eml[m] = "ok"
        /\ copies = [m \in Mails |-> IF row[m] = "INBOX" THEN {"INBOX"} ELSE {}]
        /\ alien = {} /\ queue = {} /\ api = {} /\ restoring = {} /\ expungeDue = FALSE
        /\ at = "sync" /\ todo = {} /\ cur = {} /\ ok = FALSE
        /\ expired = {} /\ leaving = {}
        /\ asked = {} /\ blind = {} /\ swept = {}
        /\ requests = 0 /\ restores = 0 /\ crashes = 0

-----------------------------------------------------------------------------
(* The API.                                                                *)

(* delete_message_archive_trash: the row's folder and id are read ...      *)
DeleteLookup(m) ==
    /\ row[m] # "gone" /\ requests < MaxRequests
    /\ requests' = requests + 1
    /\ api' = api \cup {[id |-> requests', mail |-> m, folder |-> row[m],
                         known |-> m \notin alien, step |-> "move"]}
    /\ asked' = asked \cup {m}
    /\ UNCHANGED <<setup, copies, row, eml, alien, queue, restoring, expungeDue,
                   loop, blind, swept, restores, crashes>>

(* ... the row moves into Relay's trash: update_folder_from.  A mail that  *)
(* lies there already is its own "duplicate in the target" and its row     *)
(* goes, with its queue rows; without a Message-ID it only changes number. *)
DeleteMove(r) ==
    /\ r.step = "move"
    /\ api' = (api \ {r}) \cup {[r EXCEPT !.step = "enqueue"]}
    /\ LET m == r.mail
           drop == r.folder = "Trash" /\ row[m] = "Trash" /\ m \notin headless
       IN /\ row' = [row EXCEPT ![m] = IF drop THEN "gone"
                                       ELSE IF @ = r.folder THEN "Trash" ELSE @]
          /\ queue' = IF drop THEN Cascade(queue, m) ELSE queue
    /\ UNCHANGED <<setup, copies, eml, alien, restoring, expungeDue, loop, history>>

(* ... and the provider deletion is queued; without the row the foreign    *)
(* key refuses the insert.                                                 *)
DeleteEnqueue(r) ==
    /\ r.step = "enqueue"
    /\ api' = api \ {r}
    /\ queue' = IF row[r.mail] = "gone" THEN queue
                ELSE queue \cup {[id |-> r.id, mail |-> r.mail, folder |-> r.folder,
                                  known |-> r.known, state |-> "pending", attempts |-> 0]}
    /\ UNCHANGED <<setup, copies, row, eml, alien, restoring, expungeDue, loop, history>>

(* move_message out of Relay's trash: the row moves at once, the provider  *)
(* follows by Message-ID, without one not at all.                          *)
Restore(m) ==
    /\ row[m] = "Trash" /\ restores < MaxRestores
    /\ restores' = restores + 1
    /\ row' = [row EXCEPT ![m] = "INBOX"]
    /\ restoring' = restoring \cup ({m} \ headless)
    /\ UNCHANGED <<setup, copies, eml, alien, queue, api, expungeDue, loop,
                   asked, blind, swept, requests, crashes>>

(* POST .../retry: whatever state the row is in. *)
retry_delete_queue(q) ==
    /\ restores < MaxRestores
    /\ restores' = restores + 1
    /\ queue' = (queue \ {q}) \cup {[q EXCEPT !.state = "pending", !.attempts = 0]}
    /\ UNCHANGED <<setup, copies, row, eml, alien, api, restoring, expungeDue, loop,
                   asked, blind, swept, requests, crashes>>

(* POST .../remove: the user gives the provider deletion up. *)
remove_delete_queue(q) ==
    /\ queue' = queue \ {q}
    /\ UNCHANGED <<setup, copies, row, eml, alien, api, restoring, expungeDue, loop, history>>

Api == \/ \E m \in Mails : DeleteLookup(m) \/ Restore(m)
       \/ \E r \in api : DeleteMove(r) \/ DeleteEnqueue(r)
       \/ \E q \in queue : retry_delete_queue(q) \/ remove_delete_queue(q)

-----------------------------------------------------------------------------
(* The scheduler's loop: the fetch of the account (FetchNew).              *)

(* The raw form of an inbox mail is stored. *)
ArchiveMail(m) ==
    /\ at = "sync" /\ row[m] = "INBOX" /\ "INBOX" \in copies[m] /\ eml[m] = "none"
    /\ eml' = [eml EXCEPT ![m] = "ok"]
    /\ UNCHANGED <<setup, copies, row, alien, queue, api, restoring, expungeDue, loop, history>>

(* A mail restored on the provider arrives under its new number: the       *)
(* server's row replaces the provisional one, and what hung on that goes.  *)
FetchBack(m) ==
    /\ at = "sync" /\ "back" \in copies[m] /\ row[m] # "Trash"
    /\ copies' = [copies EXCEPT ![m] = (@ \ {"back"}) \cup {"INBOX"}]
    /\ row' = [row EXCEPT ![m] = "INBOX"]
    /\ eml' = [eml EXCEPT ![m] = "none"]
    /\ alien' = alien \ {m}
    /\ queue' = Cascade(queue, m)
    /\ api' = {r \in api : r.mail # m}
    /\ asked' = asked \ {m}
    /\ UNCHANGED <<setup, restoring, expungeDue, loop, blind, swept, requests, restores, crashes>>

(* Re-fetch guard: a mail in Relay's trash is not brought back, and the    *)
(* cursor passes it.                                                       *)
RefetchGuard(m) ==
    /\ at = "sync" /\ "back" \in copies[m] /\ row[m] = "Trash"
    /\ copies' = [copies EXCEPT ![m] = (@ \ {"back"}) \cup {"passed"}]
    /\ UNCHANGED <<setup, relay, loop, history>>

(* The provider's trash is fetched into Relay's: its row takes the place   *)
(* of the moved one, unless a restore is on its way (restore guard).       *)
FetchTrash(m) ==
    /\ at = "sync" /\ "Trash" \in copies[m] /\ row[m] = "Trash"
    /\ m \notin alien /\ m \notin headless /\ m \notin restoring
    /\ alien' = alien \cup {m}
    /\ eml' = [eml EXCEPT ![m] = "none"]
    /\ queue' = Cascade(queue, m)
    /\ UNCHANGED <<setup, copies, row, api, restoring, expungeDue, loop, history>>

(* ordner_abgleichen: a moved row whose mail the provider's folder does    *)
(* not have, with no op waiting for it, is removed.                        *)
Abgleich(m) ==
    /\ at = "sync" /\ row[m] = "INBOX" /\ m \notin headless /\ m \notin restoring
    /\ copies[m] \subseteq {"Trash"}
    /\ row' = [row EXCEPT ![m] = "gone"]
    /\ queue' = Cascade(queue, m)
    /\ UNCHANGED <<setup, copies, eml, alien, api, restoring, expungeDue, loop, history>>

SyncDone == /\ at = "sync"
            /\ at' = "delete"
            /\ todo' = {q \in queue : q.state \in {"pending", "failed"}}
            /\ UNCHANGED <<setup, copies, relay, cur, ok, expired, leaving, history>>

Sync == SyncDone \/ \E m \in Mails : \/ ArchiveMail(m) \/ FetchBack(m) \/ RefetchGuard(m)
                                     \/ FetchTrash(m) \/ Abgleich(m)

-----------------------------------------------------------------------------
(* run_delete_queue.  The rows listed are worked on as they were listed;   *)
(* their order (newest first, to the second) is left open.                 *)

(* UPDATE delete_queue ... WHERE id: nothing where the row is gone. *)
Marked(id, s, tries) ==
    {IF q.id = id THEN [q EXCEPT !.state = s, !.attempts = @ + tries] ELSE q : q \in queue}

(* The row is there, and its file has the noted digest.  (Mutant: a row    *)
(* that never noted a file passes.)                                        *)
VerifyNothing(m) == row[m] # "gone" /\ eml[m] # "bad"
verify_archive_guarantee(m) == row[m] # "gone" /\ eml[m] = "ok"

(* (Mutants: one attempt too many; one too few.)                           *)
GivenUpLate(q) == q.attempts > MaxAttempts
GivenUpEarly(q) == q.attempts >= MaxAttempts - 1
GivenUp(q) == q.attempts >= MaxAttempts

Take(q) ==
    /\ at = "delete"
    /\ todo' = todo \ {q}
    /\ \/ /\ is_local_only_folder(q.folder)
          /\ queue' = Marked(q.id, "deleted", 0)
          /\ UNCHANGED <<at, cur, ok>>
       \/ /\ ~is_local_only_folder(q.folder) /\ GivenUp(q)
          /\ UNCHANGED <<queue, at, cur, ok>>
       \/ /\ ~is_local_only_folder(q.folder) /\ ~GivenUp(q)
          /\ ok' = verify_archive_guarantee(q.mail)
          /\ queue' = Marked(q.id, "verified", 0)
          /\ cur' = {q}
          /\ at' = "contact"
    /\ UNCHANGED <<setup, copies, row, eml, alien, api, restoring, expungeDue, expired, leaving, history>>

(* No client for the account: on to the next row. *)
NoClient == /\ at = "contact"
            /\ at' = "delete" /\ cur' = {} /\ ok' = FALSE
            /\ UNCHANGED <<setup, copies, relay, todo, expired, leaving, history>>

(* What a removal may leave: nothing was there under the number, or ...    *)
Flag(c) == IF Here(c) = {} THEN c ELSE (c \ Here(c)) \cup {"flagged"}
(* ... MOVE takes it away, or COPY and STORE \Deleted do.                  *)
(* (Mutant: COPY alone counts as the move.)                                *)
MovedByCopy(c) == IF Here(c) = {} THEN {c} ELSE {c \cup {"Trash"}}
Moved(c) == IF Here(c) = {} THEN {c}
            ELSE {(c \ Here(c)) \cup {"Trash"}, Flag(c) \cup {"Trash"}}
(* COPY done, then the connection drops. *)
CopiedOnly(c) == IF Here(c) = {} THEN c ELSE c \cup {"Trash"}

(* entfernen_wie, find_provider_trash_folder: how the mail goes, where the *)
(* folder list could be read ("listed") and where it could not.            *)
HowRemoved(listed) ==
    IF ok THEN IF ~listed THEN "fail" ELSE IF provider = "gmail" THEN "move" ELSE "mark"
    ELSE IF listed /\ provider # "bare" THEN "move" ELSE "mark"

(* The removal on the provider.  It may fail before it has done anything,  *)
(* halfway, or after it was done (the answer lost).                        *)
Remove(q, listed) ==
    /\ at = "contact"
    /\ LET c == IF q.known THEN copies[q.mail] ELSE {}
           how == HowRemoved(listed)
           left == CASE how = "move" -> Moved(c)
                     [] how = "mark" -> {Flag(c)}
                     [] how = "fail" -> {}
           halfway == {c} \cup left \cup (IF how = "move" THEN {CopiedOnly(c)} ELSE {})
       IN \E d \in halfway :
             /\ copies' = IF q.known THEN [copies EXCEPT ![q.mail] = d] ELSE copies
             /\ at' \in (IF d \in left THEN {"done", "error"} ELSE {"error"})
             /\ blind' = IF how = "mark" /\ ~ok /\ d # c THEN blind \cup {q.mail} ELSE blind
    /\ UNCHANGED <<setup, relay, todo, cur, ok, expired, leaving,
                   asked, swept, requests, restores, crashes>>

(* mark_deleted and the folder remembered for EXPUNGE (under one lock; the *)
(* module SyncCycle has them one by one), or mark_failed.                  *)
MarkResult(q) ==
    /\ \/ /\ at = "done"
          /\ queue' = Marked(q.id, "deleted", 0)
          /\ expungeDue' = TRUE
       \/ /\ at = "error"
          /\ queue' = Marked(q.id, "failed", 1)
          /\ UNCHANGED expungeDue
    /\ at' = "delete" /\ cur' = {} /\ ok' = FALSE
    /\ UNCHANGED <<setup, copies, row, eml, alien, api, restoring, todo, expired, leaving, history>>

(* The reconnect fails. *)
ReconnectFails == /\ at = "contact"
                  /\ at' = "error"
                  /\ UNCHANGED <<setup, copies, relay, todo, cur, ok, expired, leaving, history>>

DeleteDone == /\ at = "delete" /\ todo = {}
              /\ at' = "ops"
              /\ UNCHANGED <<setup, copies, relay, todo, cur, ok, expired, leaving, history>>

DeleteStage == \/ \E q \in todo : Take(q)
               \/ \E q \in cur : MarkResult(q) \/ \E listed \in BOOLEAN : Remove(q, listed)
               \/ NoClient \/ ReconnectFails \/ DeleteDone

-----------------------------------------------------------------------------
(* run_provider_ops, as far as it restores mail: by Message-ID out of the  *)
(* provider's trash; the op ends without effect where nothing is found or  *)
(* after its last attempt.  One that failed with the mail copied back and  *)
(* not taken out of the trash is tried again, unless it was the last.      *)
RestoreOp(m) ==
    /\ at = "ops" /\ m \in restoring
    /\ \/ restoring' = restoring \ {m} /\ UNCHANGED copies
       \/ /\ "Trash" \in copies[m]
          /\ \/ /\ copies' = [copies EXCEPT ![m] = (@ \ {"Trash"}) \cup {"back"}]
                /\ restoring' = restoring \ {m}
             \/ /\ copies' = [copies EXCEPT ![m] = @ \cup {"back"}]
                /\ restoring' \in {restoring, restoring \ {m}}
    /\ UNCHANGED <<setup, row, eml, alien, queue, api, expungeDue, loop, history>>

(* run_periodic_expunge where it is due and reaches the provider. *)
Expunge == /\ at = "ops" /\ expungeDue
           /\ copies' = [m \in Mails |-> copies[m] \ {"flagged"}]
           /\ expungeDue' = FALSE
           /\ UNCHANGED <<setup, row, eml, alien, queue, api, restoring, loop, history>>

(* run_trash_retention lists the mails whose time in Relay's trash is over *)
(* ...  (Mutant: of any folder.)                                           *)
OpsDoneAnyFolder ==
    /\ at = "ops"
    /\ at' = "retention"
    /\ expired' \in SUBSET {m \in Mails : row[m] # "gone"}
    /\ UNCHANGED <<setup, copies, relay, todo, cur, ok, leaving, history>>

OpsDone == /\ at = "ops"
           /\ at' = "retention"
           /\ expired' \in SUBSET {m \in Mails : row[m] = "Trash"}
           /\ UNCHANGED <<setup, copies, relay, todo, cur, ok, leaving, history>>

(* ... removes the archived file of one ...                                *)
RemoveFile(m) ==
    /\ at = "retention" /\ m \in expired
    /\ at' = "drop" /\ expired' = expired \ {m} /\ leaving' = {m}
    /\ eml' = [eml EXCEPT ![m] = IF @ = "none" THEN @ ELSE "bad"]
    /\ swept' = swept \cup {m}
    /\ UNCHANGED <<setup, copies, row, alien, queue, api, restoring, expungeDue, todo, cur, ok,
                   asked, blind, requests, restores, crashes>>

(* ... and its row, wherever that is by now.                               *)
RemoveRow(m) ==
    /\ at = "drop" /\ m \in leaving
    /\ at' = "retention" /\ leaving' = {}
    /\ row' = [row EXCEPT ![m] = "gone"]
    /\ queue' = Cascade(queue, m)
    /\ UNCHANGED <<setup, copies, eml, alien, api, restoring, expungeDue, todo, cur, ok,
                   expired, history>>

RetentionDone == /\ at = "retention" /\ expired = {}
                 /\ at' = "sync"
                 /\ UNCHANGED <<setup, copies, relay, todo, cur, ok, expired, leaving, history>>

Rest == \/ \E m \in Mails : RestoreOp(m) \/ RemoveFile(m) \/ RemoveRow(m)
        \/ Expunge \/ OpsDone \/ RetentionDone

-----------------------------------------------------------------------------
(* A restart: what the handlers and the loop had in hand is gone (with     *)
(* nothing in hand it changes nothing).                                    *)
Crash == /\ crashes < MaxCrashes
         /\ at # "sync" \/ api # {}
         /\ crashes' = crashes + 1
         /\ api' = {}
         /\ at' = "sync" /\ todo' = {} /\ cur' = {} /\ ok' = FALSE
         /\ expired' = {} /\ leaving' = {}
         /\ UNCHANGED <<setup, copies, row, eml, alien, queue, restoring, expungeDue,
                        asked, blind, swept, requests, restores>>

Loop == Sync \/ DeleteStage \/ Rest

Next == Api \/ Loop \/ Crash

Spec == Init /\ [][Next]_vars

(* The loop runs on as long as the server does; handlers need not run.     *)
FairSpec == Spec /\ WF_vars(Loop)

-----------------------------------------------------------------------------
TypeOK == /\ setup \in Setups
          /\ row \in [Mails -> Folders \cup {"gone"}]
          /\ eml \in [Mails -> {"none", "ok", "bad"}]
          /\ alien \subseteq Mails
          /\ copies \in [Mails -> SUBSET Copies]
          /\ queue \subseteq QueueRow /\ todo \subseteq QueueRow /\ cur \subseteq QueueRow
          /\ api \subseteq Request
          /\ restoring \subseteq Mails /\ expungeDue \in BOOLEAN
          /\ at \in Stages /\ ok \in BOOLEAN
          /\ expired \subseteq Mails /\ leaving \subseteq Mails
          /\ asked \subseteq Mails /\ blind \subseteq Mails /\ swept \subseteq Mails
          /\ requests \in 0 .. MaxRequests /\ restores \in 0 .. MaxRestores
          /\ crashes \in 0 .. MaxCrashes

(***************************************************************************)
(* A mail Relay still shows has a copy somewhere: at the provider or as a  *)
(* checked file.  Only two things take the last copy: the hard delete      *)
(* without a guarantee and without a trash in sight (scheduler.rs:723-732) *)
(* and the retention's own removal of the file.                            *)
(***************************************************************************)
KeepsACopy == \A m \in Mails :
    row[m] # "gone" /\ copies[m] = {} => eml[m] = "ok" \/ m \in blind \cup swept

(***************************************************************************)
(* A queue row reported as deleted tells the truth: the provider's folder  *)
(* no longer has the mail under the number it was queued with, whatever    *)
(* retries, restarts, doubled requests and lost answers came between.      *)
(***************************************************************************)
DeletedMeansGone == \A q \in queue :
    q.state = "deleted" /\ q.folder = "INBOX" /\ q.known => "INBOX" \notin copies[q.mail]

(***************************************************************************)
(* A mail the user never asked to delete (or got back from the provider    *)
(* since) is left alone: it stays in its folder in Relay, and the provider *)
(* still has it where it has it - whatever the stages do to its            *)
(* neighbours and however their steps mix with a restart.                  *)
(***************************************************************************)
Untouched == \A m \in Mails \ asked :
    \/ row[m] = "INBOX" /\ "INBOX" \in copies[m]
    \/ row[m] = "Lokal" /\ eml[m] = "ok"

(***************************************************************************)
(* The concept: "Lokale Kopie wird nie automatisch geloescht", and only    *)
(* what lies in Relay's trash goes after its time.  So a mail taken out of *)
(* the trash stays (but for a sweep that had listed it before).            *)
(***************************************************************************)
RestoredMailStays ==
    [][\A m \in Mails \ leaving : row[m] = "INBOX" => row'[m] # "gone"]_vars

(***************************************************************************)
(* A queued deletion ends: done, given up after the last attempt (then it  *)
(* is counted and shown), or its row removed - however often it fails and  *)
(* the server is restarted (boundedly).  Or it was left "verified", where  *)
(* the worker met no client or a restart: no list has it any more, and     *)
(* only the user's retry brings it back.                                   *)
(***************************************************************************)
Ended(id) == \A q \in queue : q.id = id =>
    \/ q.state \in {"deleted", "verified"}
    \/ q.state = "failed" /\ q.attempts >= MaxAttempts

EveryDeletionEnds == \A id \in 1 .. MaxRequests : <>[]Ended(id)

-----------------------------------------------------------------------------
(* The promise to the user, and where the code stands to it.               *)
Where == [m \in Mails |-> IF "INBOX" \in copies[m] THEN "held"
                          ELSE IF copies[m] \cap {"Trash", "back", "passed"} # {} THEN "trash"
                          ELSE "none"]
Checked == {m \in Mails : eml[m] = "ok"}

Promise == INSTANCE ArchivePromise WITH provider <- Where, archive <- Checked

KeepsThePromise == Promise!Spec
KeepsThePromiseButForTheFallback == Promise!FallbackSpec
=============================================================================
