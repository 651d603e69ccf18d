-------------------------- MODULE DeleteQueueProofs --------------------------
(***************************************************************************)
(* Theorems about the deletion pipeline, for any number of mails, requests *)
(* and restarts.                                                           *)
(***************************************************************************)
EXTENDS DeleteQueue, TLAPS

InHand == todo \cup cur

(* What belongs to a stage of the loop is empty outside of it. *)
Stage == /\ at \notin {"contact", "done", "error"} => cur = {}
         /\ at \notin {"delete", "contact", "done", "error"} => todo = {}
         /\ at \notin {"retention", "drop"} => expired = {}
         /\ at # "drop" => leaving = {}

(* A request and the row it becomes carry one fresh number, and so does    *)
(* what the worker holds of the row.                                       *)
Ids == /\ \A q \in queue \cup InHand \cup api : q.id <= requests
       /\ \A r \in api, q \in queue \cup InHand : r.id # q.id
       /\ \A r1, r2 \in api : r1.id = r2.id => r1 = r2
       /\ \A q1, q2 \in queue : q1.id = q2.id => q1 = q2
       /\ \A q1, q2 \in InHand : q1.id = q2.id => q1 = q2
       /\ \A q1, q2 \in cur : q1 = q2
       /\ todo \cap cur = {}

(* The worker's snapshot of a row and the row differ in its state only,    *)
(* and only the user's retry has set its attempts back since.              *)
Same == /\ \A q \in queue, r \in InHand :
              q.id = r.id => /\ q.mail = r.mail /\ q.folder = r.folder /\ q.known = r.known
                             /\ q.attempts <= r.attempts
        /\ \A r \in cur : r.folder = "INBOX" /\ r.attempts < MaxAttempts

(* Whatever the pipeline holds of a mail, the user asked for. *)
OnlyAsked == /\ \A q \in queue \cup InHand \cup api : q.mail \in asked
             /\ \A m \in Mails : row[m] = "Trash" => m \in asked
             /\ expired \cup leaving \subseteq asked

(* The verdict still holds when the worker acts on it: nothing that takes  *)
(* a file away runs in between.                                            *)
Verdict == at = "contact" /\ ok => \A q \in cur : eml[q.mail] = "ok"

(* KeepsACopy, already when the last copy is marked \Deleted. *)
LastCopy == \A m \in Mails :
    row[m] # "gone" /\ copies[m] \subseteq {"flagged"} => eml[m] = "ok" \/ m \in blind \cup swept

DoneMeansGone == at = "done" =>
    \A q \in cur : q.known => "INBOX" \notin copies[q.mail]

IInv == /\ TypeOK /\ Stage /\ Ids /\ Same /\ OnlyAsked /\ Untouched
        /\ Verdict /\ LastCopy /\ DoneMeansGone /\ DeletedMeansGone

USE SetupsAssumption, BoundsAssumption
USE DEF setup, relay, loop, history, InHand

-----------------------------------------------------------------------------
(* What a mark on the queue leaves of a row, and that it stays a row.      *)
LEMMA MarkedRow ==
    ASSUME TypeOK, NEW id, NEW s, NEW tries, NEW r \in Marked(id, s, tries)
    PROVE  \E q \in queue : /\ r.id = q.id /\ r.mail = q.mail
                            /\ r.folder = q.folder /\ r.known = q.known
                            /\ q.id # id => r = q
                            /\ q.id = id => r.state = s /\ r.attempts = q.attempts + tries
  <1>1. PICK q \in queue : r = IF q.id = id THEN [q EXCEPT !.state = s, !.attempts = @ + tries]
                                           ELSE q
    BY DEF Marked
  <1>2. q \in QueueRow
    BY DEF TypeOK
  <1> QED
    BY <1>1, <1>2 DEF QueueRow

LEMMA MarkedType ==
    ASSUME TypeOK, NEW id, NEW s \in {"verified", "deleted", "failed"}, NEW tries \in {0, 1},
           \A q \in queue : q.id = id => q.attempts + tries <= MaxAttempts
    PROVE  Marked(id, s, tries) \subseteq QueueRow
  <1> SUFFICES ASSUME NEW q \in queue
               PROVE  (IF q.id = id THEN [q EXCEPT !.state = s, !.attempts = @ + tries]
                       ELSE q) \in QueueRow
    BY DEF Marked
  <1>1. q \in QueueRow
    BY DEF TypeOK
  <1>2. CASE q.id = id
    <2>1. q.attempts + tries \in 0 .. MaxAttempts
      BY <1>1, <1>2 DEF QueueRow
    <2> QED
      BY <1>1, <1>2, <2>1 DEF QueueRow
  <1> QED
    BY <1>1, <1>2

(* The numbers and the snapshots survive a mark.                           *)
LEMMA MarkedIds ==
    ASSUME TypeOK, Ids, Same, NEW id, NEW s, NEW tries, queue' = Marked(id, s, tries)
    PROVE  /\ \A q \in queue' : \E p \in queue : q.id = p.id /\ q.mail = p.mail
           /\ \A q1, q2 \in queue' : q1.id = q2.id => q1 = q2
  <1>1. \A q \in queue' : \E p \in queue : q.id = p.id /\ q.mail = p.mail
    BY MarkedRow
  <1>2. ASSUME NEW q1 \in queue', NEW q2 \in queue', q1.id = q2.id PROVE q1 = q2
    <2> DEFINE M(q) == IF q.id = id THEN [q EXCEPT !.state = s, !.attempts = @ + tries] ELSE q
    <2>1. PICK p1 \in queue, p2 \in queue : q1 = M(p1) /\ q2 = M(p2)
      BY DEF Marked
    <2>2. p1 \in QueueRow /\ p2 \in QueueRow
      BY DEF TypeOK
    <2>3. p1.id = p2.id
      BY <1>2, <2>1, <2>2 DEF QueueRow
    <2>4. p1 = p2
      BY <2>3 DEF Ids
    <2> QED
      BY <2>1, <2>4
  <1> QED
    BY <1>1, <1>2

-----------------------------------------------------------------------------
THEOREM Initially == Init => IInv
  <1> SUFFICES ASSUME Init PROVE IInv
    OBVIOUS
  <1>1. TypeOK
    <2>1. setup \in Setups
      <3>1. PICK s \in Setups : provider = s[1] /\ headless = s[2]
        BY DEF Init
      <3>2. s = <<s[1], s[2]>>
        OBVIOUS
      <3> QED
        BY <3>1, <3>2
    <2>2. copies \in [Mails -> SUBSET Copies]
      BY DEF Init, Copies
    <2>3. row \in [Mails -> Folders \cup {"gone"}]
      BY DEF Init, Folders
    <2>4. eml \in [Mails -> {"none", "ok", "bad"}] /\ at \in Stages /\ ok \in BOOLEAN
      BY DEF Init, Stages
    <2>5. /\ alien = {} /\ queue = {} /\ api = {} /\ restoring = {} /\ expungeDue = FALSE
          /\ todo = {} /\ cur = {} /\ expired = {} /\ leaving = {}
          /\ asked = {} /\ blind = {} /\ swept = {}
      BY DEF Init
    <2>6. /\ requests \in 0 .. MaxRequests /\ restores \in 0 .. MaxRestores
          /\ crashes \in 0 .. MaxCrashes
      BY DEF Init
    <2> QED
      BY <2>1, <2>2, <2>3, <2>4, <2>5, <2>6 DEF TypeOK
  <1>2. Stage /\ Ids /\ Same /\ OnlyAsked /\ Verdict /\ DoneMeansGone /\ DeletedMeansGone
    BY DEF Init, Stage, Ids, Same, OnlyAsked, Verdict, DoneMeansGone, DeletedMeansGone
  <1>3. Untouched /\ LastCopy
    BY DEF Init, Untouched, LastCopy
  <1> QED
    BY <1>1, <1>2, <1>3 DEF IInv

THEOREM Inductive == IInv /\ [Next]_vars => IInv'
  <1> SUFFICES ASSUME IInv, [Next]_vars PROVE IInv'
    OBVIOUS
  <1> USE DEF IInv
  <1>1. ASSUME NEW m \in Mails, DeleteLookup(m) PROVE IInv'
    <2>1. TypeOK'
      <3>1. requests' \in 1 .. MaxRequests
        BY <1>1 DEF TypeOK, DeleteLookup
      <3>2. [id |-> requests', mail |-> m, folder |-> row[m],
             known |-> m \notin alien, step |-> "move"] \in Request
        BY <1>1, <3>1 DEF TypeOK, DeleteLookup, Request
      <3>3. api' \subseteq Request /\ requests' \in 0 .. MaxRequests /\ asked' \subseteq Mails
        BY <1>1, <3>1, <3>2 DEF TypeOK, DeleteLookup
      <3> QED
        BY <1>1, <3>3 DEF TypeOK, DeleteLookup
    <2>2. (Stage /\ Ids /\ Same)'
      BY <1>1 DEF TypeOK, Stage, Ids, Same, DeleteLookup, QueueRow, Request
    <2>3. (OnlyAsked /\ Untouched)'
      BY <1>1 DEF TypeOK, Stage, OnlyAsked, Untouched, DeleteLookup, QueueRow, Request, Folders
    <2>4. (Verdict /\ LastCopy)'
      BY <1>1 DEF TypeOK, Stage, Verdict, LastCopy, DeleteLookup, QueueRow, Copies
    <2>5. (DoneMeansGone /\ DeletedMeansGone)'
      BY <1>1 DEF TypeOK, Ids, Same, DoneMeansGone, DeletedMeansGone, DeleteLookup, QueueRow
    <2> QED
      BY <2>1, <2>2, <2>3, <2>4, <2>5
  <1>2. ASSUME NEW r \in api, DeleteMove(r) PROVE IInv'
    <2>1. TypeOK'
      BY <1>2 DEF TypeOK, DeleteMove, Cascade, Folders, Copies, Stages, QueueRow, Request
    <2>2. (Stage /\ Ids /\ Same)'
      BY <1>2 DEF TypeOK, Stage, Ids, Same, DeleteMove, Cascade, QueueRow, Request
    <2>3. (OnlyAsked /\ Untouched)'
      BY <1>2 DEF TypeOK, Stage, OnlyAsked, Untouched, DeleteMove, Cascade, QueueRow, Request, Folders
    <2>4. (Verdict /\ LastCopy)'
      <3>1. \A m \in Mails : row'[m] # "gone" => row[m] # "gone"
        BY <1>2 DEF TypeOK, DeleteMove, Request, Folders
      <3> QED
        BY <1>2, <3>1 DEF Verdict, LastCopy, DeleteMove
    <2>5. (DoneMeansGone /\ DeletedMeansGone)'
      BY <1>2 DEF TypeOK, Ids, Same, DoneMeansGone, DeletedMeansGone, DeleteMove, Cascade, QueueRow
    <2> QED
      BY <2>1, <2>2, <2>3, <2>4, <2>5
  <1>3. ASSUME NEW r \in api, DeleteEnqueue(r) PROVE IInv'
    <2>1. TypeOK'
      BY <1>3 DEF TypeOK, DeleteEnqueue, Folders, Copies, Stages, QueueRow, Request
    <2>2. (Stage /\ Ids /\ Same)'
      BY <1>3 DEF TypeOK, Stage, Ids, Same, DeleteEnqueue, QueueRow, Request
    <2>3. (OnlyAsked /\ Untouched)'
      BY <1>3 DEF TypeOK, Stage, OnlyAsked, Untouched, DeleteEnqueue, QueueRow, Request, Folders
    <2>4. (Verdict /\ LastCopy)'
      BY <1>3 DEF TypeOK, Stage, Verdict, LastCopy, DeleteEnqueue, QueueRow, Copies
    <2>5. (DoneMeansGone /\ DeletedMeansGone)'
      BY <1>3 DEF TypeOK, Ids, Same, DoneMeansGone, DeletedMeansGone, DeleteEnqueue, QueueRow
    <2> QED
      BY <2>1, <2>2, <2>3, <2>4, <2>5
  <1>4. ASSUME NEW m \in Mails, Restore(m) PROVE IInv'
    <2>1. TypeOK'
      BY <1>4 DEF TypeOK, Restore, Folders, Copies, Stages, QueueRow, Request
    <2>2. (Stage /\ Ids /\ Same)'
      BY <1>4 DEF TypeOK, Stage, Ids, Same, Restore, QueueRow, Request
    <2>3. (OnlyAsked /\ Untouched)'
      BY <1>4 DEF TypeOK, Stage, OnlyAsked, Untouched, Restore, QueueRow, Request, Folders
    <2>4. (Verdict /\ LastCopy)'
      BY <1>4 DEF TypeOK, Stage, Verdict, LastCopy, Restore, QueueRow, Copies
    <2>5. (DoneMeansGone /\ DeletedMeansGone)'
      BY <1>4 DEF TypeOK, Ids, Same, DoneMeansGone, DeletedMeansGone, Restore, QueueRow
    <2> QED
      BY <2>1, <2>2, <2>3, <2>4, <2>5
  <1>5. ASSUME NEW q \in queue, retry_delete_queue(q) PROVE IInv'
    <2>1. TypeOK'
      <3>1. q \in QueueRow
        BY <1>5 DEF TypeOK
      <3>2. [q EXCEPT !.state = "pending", !.attempts = 0] \in QueueRow
        <4>1. 0 \in 0 .. MaxAttempts
          OBVIOUS
        <4> QED
          BY <3>1, <4>1 DEF QueueRow
      <3>3. queue' \subseteq QueueRow /\ restores' \in 0 .. MaxRestores
        BY <1>5, <3>2 DEF TypeOK, retry_delete_queue
      <3> QED
        BY <1>5, <3>3 DEF TypeOK, retry_delete_queue
    <2>2. (Stage /\ Ids /\ Same)'
      <3> DEFINE new == [q EXCEPT !.state = "pending", !.attempts = 0]
      <3>1. /\ new.id = q.id /\ new.mail = q.mail /\ new.folder = q.folder
            /\ new.known = q.known /\ new.attempts = 0
        BY <1>5 DEF TypeOK, QueueRow
      <3>2. \A r \in InHand : r.attempts \in Nat
        BY DEF TypeOK, QueueRow
      <3>3. queue' = (queue \ {q}) \cup {new}
        BY <1>5 DEF retry_delete_queue
      <3> HIDE DEF new
      <3>4. Ids'
        BY <1>5, <3>1, <3>3 DEF Ids, retry_delete_queue
      <3>5. Same'
        BY <1>5, <3>1, <3>2, <3>3 DEF Same, retry_delete_queue
      <3> QED
        BY <1>5, <3>4, <3>5 DEF Stage, retry_delete_queue
    <2>3. (OnlyAsked /\ Untouched)'
      <3>1. [q EXCEPT !.state = "pending", !.attempts = 0].mail = q.mail
        BY <1>5 DEF TypeOK, QueueRow
      <3> QED
        BY <1>5, <3>1 DEF OnlyAsked, Untouched, retry_delete_queue
    <2>4. (Verdict /\ LastCopy)'
      BY <1>5 DEF TypeOK, Stage, Verdict, LastCopy, retry_delete_queue, QueueRow, Copies
    <2>5. (DoneMeansGone /\ DeletedMeansGone)'
      BY <1>5 DEF TypeOK, Ids, Same, DoneMeansGone, DeletedMeansGone, retry_delete_queue, QueueRow
    <2> QED
      BY <2>1, <2>2, <2>3, <2>4, <2>5
  <1>6. ASSUME NEW q \in queue, remove_delete_queue(q) PROVE IInv'
    <2>1. TypeOK'
      BY <1>6 DEF TypeOK, remove_delete_queue, Folders, Copies, Stages, QueueRow, Request
    <2>2. (Stage /\ Ids /\ Same)'
      BY <1>6 DEF TypeOK, Stage, Ids, Same, remove_delete_queue, QueueRow, Request
    <2>3. (OnlyAsked /\ Untouched)'
      BY <1>6 DEF TypeOK, Stage, OnlyAsked, Untouched, remove_delete_queue, QueueRow, Request, Folders
    <2>4. (Verdict /\ LastCopy)'
      BY <1>6 DEF TypeOK, Stage, Verdict, LastCopy, remove_delete_queue, QueueRow, Copies
    <2>5. (DoneMeansGone /\ DeletedMeansGone)'
      BY <1>6 DEF TypeOK, Ids, Same, DoneMeansGone, DeletedMeansGone, remove_delete_queue, QueueRow
    <2> QED
      BY <2>1, <2>2, <2>3, <2>4, <2>5
  <1>7. ASSUME NEW m \in Mails, ArchiveMail(m) PROVE IInv'
    <2>1. TypeOK'
      BY <1>7 DEF TypeOK, ArchiveMail, Folders, Copies, Stages, QueueRow, Request
    <2>2. (Stage /\ Ids /\ Same)'
      BY <1>7 DEF TypeOK, Stage, Ids, Same, ArchiveMail, QueueRow, Request
    <2>3. (OnlyAsked /\ Untouched)'
      BY <1>7 DEF TypeOK, Stage, OnlyAsked, Untouched, ArchiveMail, QueueRow, Request, Folders
    <2>4. (Verdict /\ LastCopy)'
      BY <1>7 DEF TypeOK, Stage, Verdict, LastCopy, ArchiveMail, QueueRow, Copies
    <2>5. (DoneMeansGone /\ DeletedMeansGone)'
      BY <1>7 DEF TypeOK, Ids, Same, DoneMeansGone, DeletedMeansGone, ArchiveMail, QueueRow
    <2> QED
      BY <2>1, <2>2, <2>3, <2>4, <2>5
  <1>8. ASSUME NEW m \in Mails, FetchBack(m) PROVE IInv'
    <2>1. TypeOK'
      BY <1>8 DEF TypeOK, FetchBack, Cascade, Folders, Copies, Stages, QueueRow, Request
    <2>2. (Stage /\ Ids /\ Same)'
      BY <1>8 DEF TypeOK, Stage, Ids, Same, FetchBack, Cascade, QueueRow, Request
    <2>3. (OnlyAsked /\ Untouched)'
      BY <1>8 DEF TypeOK, Stage, OnlyAsked, Untouched, FetchBack, Cascade, QueueRow, Request, Folders
    <2>4. (Verdict /\ LastCopy)'
      BY <1>8 DEF TypeOK, Stage, Verdict, LastCopy, FetchBack, Cascade, QueueRow, Copies
    <2>5. (DoneMeansGone /\ DeletedMeansGone)'
      BY <1>8 DEF TypeOK, Ids, Same, DoneMeansGone, DeletedMeansGone, FetchBack, Cascade, QueueRow
    <2> QED
      BY <2>1, <2>2, <2>3, <2>4, <2>5
  <1>9. ASSUME NEW m \in Mails, RefetchGuard(m) PROVE IInv'
    <2>1. TypeOK'
      BY <1>9 DEF TypeOK, RefetchGuard, Folders, Copies, Stages, QueueRow, Request
    <2>2. (Stage /\ Ids /\ Same)'
      BY <1>9 DEF TypeOK, Stage, Ids, Same, RefetchGuard, QueueRow, Request
    <2>3. (OnlyAsked /\ Untouched)'
      BY <1>9 DEF TypeOK, Stage, OnlyAsked, Untouched, RefetchGuard, QueueRow, Request, Folders
    <2>4. (Verdict /\ LastCopy)'
      BY <1>9 DEF TypeOK, Stage, Verdict, LastCopy, RefetchGuard, QueueRow, Copies
    <2>5. (DoneMeansGone /\ DeletedMeansGone)'
      BY <1>9 DEF TypeOK, Ids, Same, DoneMeansGone, DeletedMeansGone, RefetchGuard, QueueRow
    <2> QED
      BY <2>1, <2>2, <2>3, <2>4, <2>5
  <1>10. ASSUME NEW m \in Mails, FetchTrash(m) PROVE IInv'
    <2>1. TypeOK'
      BY <1>10 DEF TypeOK, FetchTrash, Cascade, Folders, Copies, Stages, QueueRow, Request
    <2>2. (Stage /\ Ids /\ Same)'
      BY <1>10 DEF TypeOK, Stage, Ids, Same, FetchTrash, Cascade, QueueRow, Request
    <2>3. (OnlyAsked /\ Untouched)'
      BY <1>10 DEF TypeOK, Stage, OnlyAsked, Untouched, FetchTrash, Cascade, QueueRow, Request, Folders
    <2>4. (Verdict /\ LastCopy)'
      BY <1>10 DEF TypeOK, Stage, Verdict, LastCopy, FetchTrash, Cascade, QueueRow, Copies
    <2>5. (DoneMeansGone /\ DeletedMeansGone)'
      BY <1>10 DEF TypeOK, Ids, Same, DoneMeansGone, DeletedMeansGone, FetchTrash, Cascade, QueueRow
    <2> QED
      BY <2>1, <2>2, <2>3, <2>4, <2>5
  <1>11. ASSUME NEW m \in Mails, Abgleich(m) PROVE IInv'
    <2>1. TypeOK'
      BY <1>11 DEF TypeOK, Abgleich, Cascade, Folders, Copies, Stages, QueueRow, Request
    <2>2. (Stage /\ Ids /\ Same)'
      BY <1>11 DEF TypeOK, Stage, Ids, Same, Abgleich, Cascade, QueueRow, Request
    <2>3. (OnlyAsked /\ Untouched)'
      BY <1>11 DEF TypeOK, Stage, OnlyAsked, Untouched, Abgleich, Cascade, QueueRow, Request, Folders
    <2>4. (Verdict /\ LastCopy)'
      BY <1>11 DEF TypeOK, Stage, Verdict, LastCopy, Abgleich, Cascade, QueueRow, Copies
    <2>5. (DoneMeansGone /\ DeletedMeansGone)'
      BY <1>11 DEF TypeOK, Ids, Same, DoneMeansGone, DeletedMeansGone, Abgleich, Cascade, QueueRow
    <2> QED
      BY <2>1, <2>2, <2>3, <2>4, <2>5
  <1>12. ASSUME SyncDone PROVE IInv'
    <2>1. TypeOK'
      BY <1>12 DEF TypeOK, SyncDone, Folders, Copies, Stages, QueueRow, Request
    <2>2. (Stage /\ Ids /\ Same)'
      <3>1. cur' = {} /\ todo' \subseteq queue /\ queue' = queue /\ api' = api
        BY <1>12 DEF Stage, SyncDone
      <3>2. Ids'
        BY <1>12, <3>1 DEF Ids, SyncDone
      <3>3. Same'
        <4>1. \A q \in queue : q.attempts <= q.attempts
          BY DEF TypeOK, QueueRow
        <4>2. \A q \in queue', r \in InHand' : q.id = r.id => q = r
          BY <3>1 DEF Ids
        <4> QED
          BY <3>1, <4>1, <4>2 DEF Same
      <3> QED
        BY <1>12, <3>2, <3>3 DEF Stage, SyncDone
    <2>3. (OnlyAsked /\ Untouched)'
      BY <1>12 DEF TypeOK, Stage, OnlyAsked, Untouched, SyncDone, QueueRow, Request, Folders
    <2>4. (Verdict /\ LastCopy)'
      BY <1>12 DEF TypeOK, Stage, Verdict, LastCopy, SyncDone, QueueRow, Copies
    <2>5. (DoneMeansGone /\ DeletedMeansGone)'
      BY <1>12 DEF TypeOK, Ids, Same, DoneMeansGone, DeletedMeansGone, SyncDone, QueueRow
    <2> QED
      BY <2>1, <2>2, <2>3, <2>4, <2>5
  <1>13. ASSUME NEW q \in todo, Take(q) PROVE IInv'
    <2>1. PICK st \in {"verified", "deleted"} : queue' \in {queue, Marked(q.id, st, 0)}
      BY <1>13 DEF Take
    <2>2. \A r \in queue' : \E p \in queue :
              /\ r.id = p.id /\ r.mail = p.mail /\ r.folder = p.folder
              /\ r.known = p.known /\ r.attempts = p.attempts
      <3>1. \A p \in queue : p.attempts + 0 = p.attempts
        BY DEF TypeOK, QueueRow
      <3> QED
        BY <2>1, <3>1, MarkedRow
    <2>3. TypeOK'
      <3>1. \A p \in queue : p.attempts + 0 <= MaxAttempts
        BY DEF TypeOK, QueueRow
      <3>2. queue' \subseteq QueueRow
        BY <2>1, <3>1, MarkedType DEF TypeOK
      <3> QED
        BY <1>13, <3>2 DEF TypeOK, Take, Stages, verify_archive_guarantee
    <2>4. Stage'
      BY <1>13 DEF Stage, Take
    <2>5. Ids'
      <3>1. \A q1, q2 \in queue' : q1.id = q2.id => q1 = q2
        <4>1. CASE queue' = queue
          BY <4>1 DEF Ids
        <4>2. CASE queue' = Marked(q.id, st, 0)
          BY <4>2, MarkedIds
        <4> QED
          BY <2>1, <4>1, <4>2
      <3>2. InHand' \subseteq InHand /\ api' = api /\ requests' = requests
        BY <1>13 DEF Take
      <3>3. (\A q1, q2 \in cur : q1 = q2)' /\ (todo \cap cur = {})'
        BY <1>13 DEF Ids, Take, Stage
      <3> QED
        BY <2>2, <3>1, <3>2, <3>3 DEF Ids
    <2>6. Same'
      <3>1. InHand' \subseteq InHand
        BY <1>13 DEF Take
      <3>2. \A r \in cur' : r.folder = "INBOX" /\ r.attempts < MaxAttempts
        BY <1>13 DEF TypeOK, Same, Take, GivenUp, QueueRow, Folders, is_local_only_folder
      <3> QED
        BY <2>2, <3>1, <3>2 DEF Same
    <2>7. (OnlyAsked /\ Untouched)'
      BY <1>13, <2>2 DEF OnlyAsked, Untouched, Take
    <2>8. (Verdict /\ LastCopy)'
      BY <1>13 DEF Verdict, LastCopy, Take, verify_archive_guarantee
    <2>9. DoneMeansGone'
      BY <1>13 DEF DoneMeansGone, Take
    <2>10. DeletedMeansGone'
      <3>1. ASSUME NEW r \in queue', r.state = "deleted", r.folder = "INBOX" PROVE r \in queue
        <4>1. CASE queue' = queue
          BY <3>1, <4>1
        <4>2. CASE is_local_only_folder(q.folder) /\ queue' = Marked(q.id, "deleted", 0)
          BY <3>1, <4>2, MarkedRow DEF Same, is_local_only_folder
        <4>3. CASE queue' = Marked(q.id, "verified", 0)
          BY <3>1, <4>3, MarkedRow
        <4> QED
          BY <1>13, <4>1, <4>2, <4>3 DEF Take
      <3> QED
        BY <1>13, <3>1 DEF DeletedMeansGone, Take
    <2> QED
      BY <2>3, <2>4, <2>5, <2>6, <2>7, <2>8, <2>9, <2>10
  <1>14. ASSUME NoClient PROVE IInv'
    <2>1. TypeOK'
      BY <1>14 DEF TypeOK, NoClient, Folders, Copies, Stages, QueueRow, Request
    <2>2. (Stage /\ Ids /\ Same)'
      BY <1>14 DEF TypeOK, Stage, Ids, Same, NoClient, QueueRow, Request
    <2>3. (OnlyAsked /\ Untouched)'
      BY <1>14 DEF TypeOK, Stage, OnlyAsked, Untouched, NoClient, QueueRow, Request, Folders
    <2>4. (Verdict /\ LastCopy)'
      BY <1>14 DEF TypeOK, Stage, Verdict, LastCopy, NoClient, QueueRow, Copies
    <2>5. (DoneMeansGone /\ DeletedMeansGone)'
      BY <1>14 DEF TypeOK, Ids, Same, DoneMeansGone, DeletedMeansGone, NoClient, QueueRow
    <2> QED
      BY <2>1, <2>2, <2>3, <2>4, <2>5
  <1>15. ASSUME NEW q \in cur, NEW listed \in BOOLEAN, Remove(q, listed) PROVE IInv'
    <2>1. TypeOK'
      BY <1>15 DEF TypeOK, Remove, HowRemoved, Flag, Moved, CopiedOnly, Here, Folders, Copies, Stages, QueueRow, Request
    <2>2. (Stage /\ Ids /\ Same)'
      BY <1>15 DEF TypeOK, Stage, Ids, Same, Remove, HowRemoved, Flag, Moved, CopiedOnly, Here, QueueRow, Request
    <2>3. (OnlyAsked /\ Untouched)'
      BY <1>15 DEF TypeOK, Stage, OnlyAsked, Untouched, Remove, HowRemoved, Flag, Moved, CopiedOnly, Here, QueueRow, Request, Folders
    <2>4. (Verdict /\ LastCopy)'
      BY <1>15 DEF TypeOK, Stage, Verdict, LastCopy, Remove, HowRemoved, Flag, Moved, CopiedOnly, Here, QueueRow, Copies
    <2>5. (DoneMeansGone /\ DeletedMeansGone)'
      <3> DEFINE c == IF q.known THEN copies[q.mail] ELSE {}
      <3>1. PICK d : /\ copies' = IF q.known THEN [copies EXCEPT ![q.mail] = d] ELSE copies
                     /\ d \in {c, Flag(c), CopiedOnly(c)} \cup Moved(c)
                     /\ at' = "done" => d \in {Flag(c)} \cup Moved(c)
        BY <1>15 DEF Remove, HowRemoved
      <3>2. "INBOX" \notin Flag(c) /\ \A e \in Moved(c) : "INBOX" \notin e
        BY DEF Flag, Moved, Here
      <3>3. "INBOX" \notin c => "INBOX" \notin CopiedOnly(c)
        BY DEF CopiedOnly, Here
      <3>4. q.mail \in Mails
        BY DEF TypeOK, QueueRow
      <3>5. \A r \in queue : r.mail \in Mails
        BY DEF TypeOK, QueueRow
      <3>6. \A m \in Mails : "INBOX" \in copies'[m] => "INBOX" \in copies[m]
        BY <3>1, <3>2, <3>3, <3>4 DEF TypeOK
      <3>7. DeletedMeansGone'
        BY <1>15, <3>5, <3>6 DEF DeletedMeansGone, Remove
      <3>8. DoneMeansGone'
        <4>1. cur' = cur /\ \A r \in cur : r = q
          BY <1>15 DEF Ids, Remove
        <4>2. q.known => copies'[q.mail] = d
          BY <3>1, <3>4 DEF TypeOK
        <4>3. at' = "done" => "INBOX" \notin d
          BY <3>1, <3>2
        <4> QED
          BY <4>1, <4>2, <4>3 DEF DoneMeansGone
      <3> QED
        BY <3>7, <3>8
    <2> QED
      BY <2>1, <2>2, <2>3, <2>4, <2>5
  <1>16. ASSUME NEW q \in cur, MarkResult(q) PROVE IInv'
    <2>1. PICK st \in {"deleted", "failed"}, tries \in {0, 1} : queue' = Marked(q.id, st, tries)
      BY <1>16 DEF MarkResult
    <2>2. \A r \in queue' : \E p \in queue :
              /\ r.id = p.id /\ r.mail = p.mail /\ r.folder = p.folder /\ r.known = p.known
              /\ r.id # q.id => r = p
      BY <2>1, MarkedRow
    <2>3. TypeOK'
      <3>1. \A p \in queue : p.id = q.id => p.attempts + tries <= MaxAttempts
        BY <1>16 DEF TypeOK, Same, QueueRow
      <3>2. queue' \subseteq QueueRow
        BY <2>1, <3>1, MarkedType
      <3> QED
        BY <1>16, <3>2 DEF TypeOK, MarkResult, Stages
    <2>4. Stage'
      BY <1>16 DEF Stage, MarkResult
    <2>5. Ids'
      <3>1. \A q1, q2 \in queue' : q1.id = q2.id => q1 = q2
        BY <2>1, MarkedIds
      <3>2. InHand' = todo /\ cur' = {} /\ todo' = todo /\ api' = api /\ requests' = requests
        BY <1>16 DEF MarkResult
      <3> QED
        BY <2>2, <3>1, <3>2 DEF Ids
    <2>6. Same'
      <3>1. cur' = {} /\ todo' = todo
        BY <1>16 DEF MarkResult
      <3>2. ASSUME NEW r \in todo PROVE r.id # q.id
        <4>1. r # q
          BY <1>16 DEF Ids
        <4> QED
          BY <1>16, <4>1 DEF Ids
      <3> QED
        BY <2>2, <3>1, <3>2 DEF Same
    <2>7. (OnlyAsked /\ Untouched)'
      BY <1>16, <2>2 DEF OnlyAsked, Untouched, MarkResult
    <2>8. (Verdict /\ LastCopy /\ DoneMeansGone)'
      BY <1>16 DEF Verdict, LastCopy, DoneMeansGone, MarkResult
    <2>9. DeletedMeansGone'
      <3>1. copies' = copies
        BY <1>16 DEF MarkResult
      <3>2. CASE at = "done"
        BY <1>16, <2>2, <3>1, <3>2 DEF DeletedMeansGone, DoneMeansGone, Same
      <3>3. CASE at = "error"
        BY <1>16, <3>1, <3>3, MarkedRow DEF DeletedMeansGone, MarkResult
      <3> QED
        BY <1>16, <3>2, <3>3 DEF MarkResult
    <2> QED
      BY <2>3, <2>4, <2>5, <2>6, <2>7, <2>8, <2>9
  <1>17. ASSUME ReconnectFails PROVE IInv'
    <2>1. TypeOK'
      BY <1>17 DEF TypeOK, ReconnectFails, Folders, Copies, Stages, QueueRow, Request
    <2>2. (Stage /\ Ids /\ Same)'
      BY <1>17 DEF TypeOK, Stage, Ids, Same, ReconnectFails, QueueRow, Request
    <2>3. (OnlyAsked /\ Untouched)'
      BY <1>17 DEF TypeOK, Stage, OnlyAsked, Untouched, ReconnectFails, QueueRow, Request, Folders
    <2>4. (Verdict /\ LastCopy)'
      BY <1>17 DEF TypeOK, Stage, Verdict, LastCopy, ReconnectFails, QueueRow, Copies
    <2>5. (DoneMeansGone /\ DeletedMeansGone)'
      BY <1>17 DEF TypeOK, Ids, Same, DoneMeansGone, DeletedMeansGone, ReconnectFails, QueueRow
    <2> QED
      BY <2>1, <2>2, <2>3, <2>4, <2>5
  <1>18. ASSUME DeleteDone PROVE IInv'
    <2>1. TypeOK'
      BY <1>18 DEF TypeOK, DeleteDone, Folders, Copies, Stages, QueueRow, Request
    <2>2. (Stage /\ Ids /\ Same)'
      BY <1>18 DEF TypeOK, Stage, Ids, Same, DeleteDone, QueueRow, Request
    <2>3. (OnlyAsked /\ Untouched)'
      BY <1>18 DEF TypeOK, Stage, OnlyAsked, Untouched, DeleteDone, QueueRow, Request, Folders
    <2>4. (Verdict /\ LastCopy)'
      BY <1>18 DEF TypeOK, Stage, Verdict, LastCopy, DeleteDone, QueueRow, Copies
    <2>5. (DoneMeansGone /\ DeletedMeansGone)'
      BY <1>18 DEF TypeOK, Ids, Same, DoneMeansGone, DeletedMeansGone, DeleteDone, QueueRow
    <2> QED
      BY <2>1, <2>2, <2>3, <2>4, <2>5
  <1>19. ASSUME NEW m \in Mails, RestoreOp(m) PROVE IInv'
    <2>1. TypeOK'
      BY <1>19 DEF TypeOK, RestoreOp, Folders, Copies, Stages, QueueRow, Request
    <2>2. (Stage /\ Ids /\ Same)'
      BY <1>19 DEF TypeOK, Stage, Ids, Same, RestoreOp, QueueRow, Request
    <2>3. (OnlyAsked /\ Untouched)'
      BY <1>19 DEF TypeOK, Stage, OnlyAsked, Untouched, RestoreOp, QueueRow, Request, Folders
    <2>4. (Verdict /\ LastCopy)'
      BY <1>19 DEF TypeOK, Stage, Verdict, LastCopy, RestoreOp, QueueRow, Copies
    <2>5. (DoneMeansGone /\ DeletedMeansGone)'
      BY <1>19 DEF TypeOK, Ids, Same, DoneMeansGone, DeletedMeansGone, RestoreOp, QueueRow
    <2> QED
      BY <2>1, <2>2, <2>3, <2>4, <2>5
  <1>20. ASSUME Expunge PROVE IInv'
    <2>1. TypeOK'
      BY <1>20 DEF TypeOK, Expunge, Folders, Copies, Stages, QueueRow, Request
    <2>2. (Stage /\ Ids /\ Same)'
      BY <1>20 DEF TypeOK, Stage, Ids, Same, Expunge, QueueRow, Request
    <2>3. (OnlyAsked /\ Untouched)'
      BY <1>20 DEF TypeOK, Stage, OnlyAsked, Untouched, Expunge, QueueRow, Request, Folders
    <2>4. (Verdict /\ LastCopy)'
      BY <1>20 DEF TypeOK, Stage, Verdict, LastCopy, Expunge, QueueRow, Copies
    <2>5. (DoneMeansGone /\ DeletedMeansGone)'
      BY <1>20 DEF TypeOK, Ids, Same, DoneMeansGone, DeletedMeansGone, Expunge, QueueRow
    <2> QED
      BY <2>1, <2>2, <2>3, <2>4, <2>5
  <1>21. ASSUME OpsDone PROVE IInv'
    <2>1. TypeOK'
      BY <1>21 DEF TypeOK, OpsDone, Folders, Copies, Stages, QueueRow, Request
    <2>2. (Stage /\ Ids /\ Same)'
      BY <1>21 DEF TypeOK, Stage, Ids, Same, OpsDone, QueueRow, Request
    <2>3. (OnlyAsked /\ Untouched)'
      BY <1>21 DEF TypeOK, Stage, OnlyAsked, Untouched, OpsDone, QueueRow, Request, Folders
    <2>4. (Verdict /\ LastCopy)'
      BY <1>21 DEF TypeOK, Stage, Verdict, LastCopy, OpsDone, QueueRow, Copies
    <2>5. (DoneMeansGone /\ DeletedMeansGone)'
      BY <1>21 DEF TypeOK, Ids, Same, DoneMeansGone, DeletedMeansGone, OpsDone, QueueRow
    <2> QED
      BY <2>1, <2>2, <2>3, <2>4, <2>5
  <1>22. ASSUME NEW m \in Mails, RemoveFile(m) PROVE IInv'
    <2>1. TypeOK'
      BY <1>22 DEF TypeOK, RemoveFile, Folders, Copies, Stages, QueueRow, Request
    <2>2. (Stage /\ Ids /\ Same)'
      BY <1>22 DEF TypeOK, Stage, Ids, Same, RemoveFile, QueueRow, Request
    <2>3. (OnlyAsked /\ Untouched)'
      BY <1>22 DEF TypeOK, Stage, OnlyAsked, Untouched, RemoveFile, QueueRow, Request, Folders
    <2>4. (Verdict /\ LastCopy)'
      BY <1>22 DEF TypeOK, Stage, Verdict, LastCopy, RemoveFile, QueueRow, Copies
    <2>5. (DoneMeansGone /\ DeletedMeansGone)'
      BY <1>22 DEF TypeOK, Ids, Same, DoneMeansGone, DeletedMeansGone, RemoveFile, QueueRow
    <2> QED
      BY <2>1, <2>2, <2>3, <2>4, <2>5
  <1>23. ASSUME NEW m \in Mails, RemoveRow(m) PROVE IInv'
    <2>1. TypeOK'
      BY <1>23 DEF TypeOK, RemoveRow, Cascade, Folders, Copies, Stages, QueueRow, Request
    <2>2. (Stage /\ Ids /\ Same)'
      BY <1>23 DEF TypeOK, Stage, Ids, Same, RemoveRow, Cascade, QueueRow, Request
    <2>3. (OnlyAsked /\ Untouched)'
      BY <1>23 DEF TypeOK, Stage, OnlyAsked, Untouched, RemoveRow, Cascade, QueueRow, Request, Folders
    <2>4. (Verdict /\ LastCopy)'
      BY <1>23 DEF TypeOK, Stage, Verdict, LastCopy, RemoveRow, Cascade, QueueRow, Copies
    <2>5. (DoneMeansGone /\ DeletedMeansGone)'
      BY <1>23 DEF TypeOK, Ids, Same, DoneMeansGone, DeletedMeansGone, RemoveRow, Cascade, QueueRow
    <2> QED
      BY <2>1, <2>2, <2>3, <2>4, <2>5
  <1>24. ASSUME RetentionDone PROVE IInv'
    <2>1. TypeOK'
      BY <1>24 DEF TypeOK, RetentionDone, Folders, Copies, Stages, QueueRow, Request
    <2>2. (Stage /\ Ids /\ Same)'
      BY <1>24 DEF TypeOK, Stage, Ids, Same, RetentionDone, QueueRow, Request
    <2>3. (OnlyAsked /\ Untouched)'
      BY <1>24 DEF TypeOK, Stage, OnlyAsked, Untouched, RetentionDone, QueueRow, Request, Folders
    <2>4. (Verdict /\ LastCopy)'
      BY <1>24 DEF TypeOK, Stage, Verdict, LastCopy, RetentionDone, QueueRow, Copies
    <2>5. (DoneMeansGone /\ DeletedMeansGone)'
      BY <1>24 DEF TypeOK, Ids, Same, DoneMeansGone, DeletedMeansGone, RetentionDone, QueueRow
    <2> QED
      BY <2>1, <2>2, <2>3, <2>4, <2>5
  <1>25. ASSUME Crash PROVE IInv'
    <2>1. TypeOK'
      <3>1. crashes' \in 0 .. MaxCrashes
        BY <1>25 DEF TypeOK, Crash
      <3> QED
        BY <1>25, <3>1 DEF TypeOK, Crash, Stages
    <2>2. (Stage /\ Ids /\ Same)'
      BY <1>25 DEF TypeOK, Stage, Ids, Same, Crash, QueueRow, Request
    <2>3. (OnlyAsked /\ Untouched)'
      BY <1>25 DEF TypeOK, Stage, OnlyAsked, Untouched, Crash, QueueRow, Request, Folders
    <2>4. (Verdict /\ LastCopy)'
      BY <1>25 DEF TypeOK, Stage, Verdict, LastCopy, Crash, QueueRow, Copies
    <2>5. (DoneMeansGone /\ DeletedMeansGone)'
      BY <1>25 DEF TypeOK, Ids, Same, DoneMeansGone, DeletedMeansGone, Crash, QueueRow
    <2> QED
      BY <2>1, <2>2, <2>3, <2>4, <2>5
  <1>26. CASE UNCHANGED vars
    BY <1>26 DEF vars, TypeOK, Stage, Ids, Same, OnlyAsked, Untouched, Verdict, LastCopy, DoneMeansGone, DeletedMeansGone
  <1> QED
    BY <1>1, <1>2, <1>3, <1>4, <1>5, <1>6, <1>7, <1>8, <1>9, <1>10, <1>11, <1>12, <1>13, <1>14, <1>15, <1>16, <1>17, <1>18, <1>19, <1>20, <1>21, <1>22, <1>23, <1>24, <1>25, <1>26
    DEF Next, Api, Loop, Sync, DeleteStage, Rest

-----------------------------------------------------------------------------
THEOREM Invariant == Spec => []IInv
  <1> QED
    BY Initially, Inductive, PTL DEF Spec

(* The variables keep their types (TypeOK). *)
THEOREM TypeCorrect == Spec => []TypeOK
  <1>1. IInv => TypeOK
    BY DEF IInv
  <1> QED
    BY <1>1, Invariant, PTL

(* KeepsACopy: the last copy of a mail Relay shows goes only by the        *)
(* fallback without guarantee and trash, or by the retention.              *)
THEOREM CopyKept == Spec => []KeepsACopy
  <1>1. IInv => KeepsACopy
    BY DEF IInv, LastCopy, KeepsACopy
  <1> QED
    BY <1>1, Invariant, PTL

(* DeletedMeansGone: a row reported as deleted tells the truth. *)
THEOREM DeletedTruth == Spec => []DeletedMeansGone
  <1>1. IInv => DeletedMeansGone
    BY DEF IInv
  <1> QED
    BY <1>1, Invariant, PTL

(* Untouched: nothing happens to a mail nobody asked to delete. *)
THEOREM UntouchedMail == Spec => []Untouched
  <1>1. IInv => Untouched
    BY DEF IInv
  <1> QED
    BY <1>1, Invariant, PTL

-----------------------------------------------------------------------------
(* The pipeline implements the promise, up to the blind deletions.         *)
Still == asked' = asked /\ Where' = Where /\ Checked' = Checked /\ blind' = blind

LEMMA Quiet ==
    ASSUME UNCHANGED <<copies, eml, asked, blind>>
    PROVE  Still
  <1> QED
    BY DEF Still, Where, Checked

(* One removal changes what the provider has of its own mail only: as it   *)
(* was, into the trash, or, marked in place, to nothing; then against a    *)
(* checked copy, or blind.                                                 *)
LEMMA RemoveMoves ==
    ASSUME IInv, NEW q \in cur, NEW listed \in BOOLEAN, Remove(q, listed)
    PROVE  /\ \A m \in Mails \ {q.mail} : Where'[m] = Where[m]
           /\ \/ Where'[q.mail] \in {Where[q.mail], "trash"} /\ blind' = blind
              \/ /\ Where[q.mail] = "held" /\ Where'[q.mail] = "none"
                 /\ q.mail \in Checked /\ blind' = blind
              \/ /\ Where[q.mail] = "held" /\ Where'[q.mail] \in {"none", "trash"}
                 /\ blind' = blind \cup {q.mail}
  <1> DEFINE c == copies[q.mail]
             marked == HowRemoved(listed) = "mark" /\ ~ok
  <1>1. q.mail \in Mails /\ copies \in [Mails -> SUBSET Copies]
    BY DEF IInv, TypeOK, QueueRow
  <1>2. CASE ~q.known
    <2>1. copies' = copies /\ blind' = blind
      <3>1. Flag({}) = {} /\ Moved({}) = {{}} /\ CopiedOnly({}) = {}
        BY DEF Flag, Moved, CopiedOnly, Here
      <3> QED
        BY <1>2, <3>1 DEF Remove, HowRemoved
    <2> QED
      BY <1>1, <2>1 DEF Where
  <1>3. CASE q.known
    <2>1. PICK d : /\ copies' = [copies EXCEPT ![q.mail] = d]
                   /\ blind' = IF marked /\ d # c THEN blind \cup {q.mail} ELSE blind
                   /\ \/ d = c
                      \/ HowRemoved(listed) = "mark" /\ d = Flag(c)
                      \/ ~marked /\ d \in Moved(c) \cup {CopiedOnly(c)}
      BY <1>3 DEF Remove, HowRemoved
    <2>2. /\ copies'[q.mail] = d
          /\ \A m \in Mails \ {q.mail} : copies'[m] = copies[m]
      BY <1>1, <2>1
    <2>3. \A m \in Mails \ {q.mail} : Where'[m] = Where[m]
      BY <2>2 DEF Where
    <2>4. CASE d = c
      BY <1>1, <2>1, <2>2, <2>3, <2>4 DEF Where
    <2>5. CASE d = Flag(c) /\ d # c /\ HowRemoved(listed) = "mark"
      <3>1. ok => q.mail \in Checked
        BY <1>1 DEF IInv, Verdict, Checked, Remove
      <3>2. "INBOX" \in c \/ d = c
        BY <1>1, <2>5 DEF Flag, Here
      <3>3. Where[q.mail] = "held" /\ Where'[q.mail] \in {"none", "trash"}
        BY <1>1, <2>2, <2>5, <3>2 DEF Where, Flag, Here
      <3> QED
        BY <2>1, <2>3, <2>5, <3>1, <3>3
    <2>6. CASE d \in Moved(c) \cup {CopiedOnly(c)} /\ ~marked
      <3>1. d = c \/ "Trash" \in d
        BY <2>6 DEF Moved, CopiedOnly
      <3>2. "INBOX" \in d => "INBOX" \in c
        BY <2>6 DEF Moved, CopiedOnly, Flag, Here
      <3>3. Where'[q.mail] \in {Where[q.mail], "trash"}
        BY <1>1, <2>2, <3>1, <3>2 DEF Where
      <3> QED
        BY <2>1, <2>3, <2>6, <3>3
    <2> QED
      BY <2>1, <2>4, <2>5, <2>6
  <1> QED
    BY <1>2, <1>3

(* A step of the pipeline is a step of the promise, or none. *)
THEOREM StepKeepsThePromise ==
    IInv /\ [Next]_vars => [Promise!FallbackNext]_<<asked, Where, Checked, blind>>
  <1> SUFFICES ASSUME IInv, [Next]_vars
               PROVE  Still \/ Promise!FallbackNext
    BY DEF Still
  <1> USE DEF Promise!FallbackNext, Promise!Step
  <1>1. ASSUME NEW m \in Mails, DeleteLookup(m) PROVE Promise!Ask(m)
    BY <1>1 DEF DeleteLookup, Promise!Ask, Where, Checked
  <1>2. ASSUME NEW m \in Mails, ArchiveMail(m) PROVE Promise!Archive(m)
    BY <1>2 DEF IInv, TypeOK, ArchiveMail, Promise!Archive, Where, Checked
  <1>3. ASSUME NEW m \in Mails, FetchBack(m) PROVE Promise!Return(m)
    BY <1>3 DEF IInv, TypeOK, FetchBack, Promise!Return, Where, Checked
  <1>4. ASSUME NEW m \in Mails, RefetchGuard(m) PROVE Still
    BY <1>4 DEF IInv, TypeOK, RefetchGuard, Still, Where, Checked
  <1>5. ASSUME NEW m \in Mails, FetchTrash(m) PROVE Promise!Expire(m)
    BY <1>5 DEF IInv, TypeOK, OnlyAsked, FetchTrash, Promise!Expire, Where, Checked
  <1>6. ASSUME NEW q \in cur, NEW listed \in BOOLEAN, Remove(q, listed)
        PROVE  Still \/ Promise!FallbackNext
    <2>1. q.mail \in Mails /\ q.mail \in asked
      BY DEF IInv, TypeOK, QueueRow, OnlyAsked
    <2>2. asked' = asked /\ Checked' = Checked
      BY <1>6 DEF Remove, Checked
    <2>3. \A v : /\ \A m \in Mails \ {q.mail} : Where'[m] = Where[m]
                 /\ Where'[q.mail] = v
                 => Where' = [Where EXCEPT ![q.mail] = v]
      BY <2>1 DEF Where
    <2>4. CASE Where'[q.mail] = Where[q.mail] /\ blind' = blind
      BY <1>6, <2>1, <2>2, <2>4, RemoveMoves DEF Still, Where
    <2>5. CASE Where'[q.mail] = "trash" /\ blind' = blind
      <3>1. Promise!SoftDelete(q.mail)
        BY <1>6, <2>1, <2>2, <2>3, <2>5, RemoveMoves DEF Promise!SoftDelete
      <3> QED
        BY <2>1, <3>1
    <2>6. CASE /\ Where[q.mail] = "held" /\ Where'[q.mail] = "none"
               /\ q.mail \in Checked /\ blind' = blind
      <3>1. Promise!HardDelete(q.mail)
        BY <1>6, <2>1, <2>2, <2>3, <2>6, RemoveMoves DEF Promise!HardDelete
      <3> QED
        BY <2>1, <3>1
    <2>7. CASE /\ Where[q.mail] = "held" /\ Where'[q.mail] \in {"none", "trash"}
               /\ blind' = blind \cup {q.mail}
      <3>1. Promise!BlindDelete(q.mail)
        BY <1>6, <2>1, <2>2, <2>3, <2>7, RemoveMoves DEF Promise!BlindDelete
      <3> QED
        BY <2>1, <3>1
    <2> QED
      BY <1>6, <2>4, <2>5, <2>6, <2>7, RemoveMoves
  <1>7. ASSUME NEW m \in Mails, RestoreOp(m) PROVE Still
    BY <1>7 DEF IInv, TypeOK, RestoreOp, Still, Where, Checked
  <1>8. ASSUME Expunge PROVE Still
    BY <1>8 DEF IInv, TypeOK, Expunge, Still, Where, Checked
  <1>9. ASSUME NEW m \in Mails, RemoveFile(m) PROVE Promise!Expire(m)
    BY <1>9 DEF IInv, TypeOK, OnlyAsked, RemoveFile, Promise!Expire, Where, Checked
  <1>10. CASE \/ \E r \in api : DeleteMove(r) \/ DeleteEnqueue(r)
              \/ \E m \in Mails : Restore(m)
              \/ \E q \in queue : retry_delete_queue(q) \/ remove_delete_queue(q)
    BY <1>10, Quiet
       DEF DeleteMove, DeleteEnqueue, Restore, retry_delete_queue, remove_delete_queue
  <1>11. CASE \/ \E m \in Mails : Abgleich(m) \/ RemoveRow(m)
              \/ SyncDone \/ NoClient \/ ReconnectFails \/ DeleteDone
              \/ \E q \in todo : Take(q)
              \/ \E q \in cur : MarkResult(q)
              \/ OpsDone \/ RetentionDone \/ Crash \/ UNCHANGED vars
    BY <1>11, Quiet
       DEF Abgleich, RemoveRow, SyncDone, NoClient, ReconnectFails, DeleteDone, Take,
           MarkResult, OpsDone, RetentionDone, Crash, vars
  <1> QED
    BY <1>1, <1>2, <1>3, <1>4, <1>5, <1>6, <1>7, <1>8, <1>9, <1>10, <1>11
       DEF Next, Api, Loop, Sync, DeleteStage, Rest

(* KeepsThePromiseButForTheFallback: whatever happens to a mail in the     *)
(* pipeline is a step the archive concept allows, or the hard delete of a  *)
(* mail whose archive cannot be verified at a provider without a trash in  *)
(* sight.                                                                  *)
THEOREM PromiseKept == Spec => KeepsThePromiseButForTheFallback
  <1>1. Init => Promise!Init
    BY DEF Init, Promise!Init, Promise!PromiseTypeOK, Promise!Places, Where, Checked
  <1> QED
    BY <1>1, StepKeepsThePromise, Invariant, PTL
       DEF Spec, KeepsThePromiseButForTheFallback, Promise!FallbackSpec
=============================================================================
