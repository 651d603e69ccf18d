--------------------------- MODULE MailSyncProofs ---------------------------
(***************************************************************************)
(* Theorems about index and provider, for any number of mails, accounts,   *)
(* attempts, requests, moves by other clients, failures and restarts.      *)
(***************************************************************************)
EXTENDS MailSync, FiniteSetTheorems, WellFoundedInduction, TLAPS

(* What the proofs need of the types.  A row's number is known only when   *)
(* the server confirmed it.                                                *)
RowsOf(i, u, e) == [id : {i}, folder : Folders, uid : {u}, mail : Mails, synced : BOOLEAN, eml : {e}]
Known(r) == r \in RowsOf(r.id, r.uid, r.eml)
Records == /\ account \in Accounts /\ events \in Nat
           /\ place \in [Mails -> [folder : Folders \cup {"new", "gone"}, uid : Nat, del : BOOLEAN]]
           /\ next \in [Folders -> Nat]
           /\ \A r \in rows : Known(r)
           /\ ops \subseteq [id : Nat, mail : Mails, from : Folders, to : Folders \cup {None},
                             attempts : Nat]
           /\ here \in Folders /\ batch \subseteq [mail : Mails, uid : Nat]
           /\ word \in [Mails -> {"none", "keep", "trash", "purge"}]

(* A folder gives each number once: what has a number has one below the    *)
(* next, and whoever is known by it has it alone.                          *)
Alone(f, u, m) == /\ u \in Nat /\ u < next[f]
                  /\ \A n \in Mails : place[n].folder = f /\ place[n].uid = u => n = m
Numbers == /\ \A m \in Mails : place[m].folder \in Folders => Alone(place[m].folder, place[m].uid, m)
           /\ \A x \in batch : Alone(here, x.uid, x.mail)
           /\ \A r \in rows : r.synced => Alone(r.folder, r.uid, r.mail)

-----------------------------------------------------------------------------
(* The types hold at the start. *)
LEMMA RecordsAtFirst == ASSUME AccountsAssumption PROVE Init => Records
  BY DEF Init, Records, Folders

(* The round goes from folder to folder. *)
LEMMA FoldersInOrder == \A f \in Folders : After(f) \in Folders
  BY DEF Folders, After

(* A mail put into a folder keeps the provider's types. *)
LEMMA PutTypes ==
    ASSUME Records, NEW m \in Mails, NEW f \in Folders, Put(m, f)
    PROVE  /\ account' \in Accounts /\ next' \in [Folders -> Nat]
           /\ place' \in [Mails -> [folder : Folders \cup {"new", "gone"}, uid : Nat, del : BOOLEAN]]
  <1> DEFINE P == [folder : Folders \cup {"new", "gone"}, uid : Nat, del : BOOLEAN]
  <1>1. account' \in Accounts /\ next' \in [Folders -> Nat]
    BY DEF Records, Put
  <1>2. next[f] \in Nat /\ place \in [Mails -> P]
    BY DEF Records
  <1>3. [place[m] EXCEPT !.folder = f, !.uid = next[f]] \in P
    BY <1>2
  <1>4. place' = [place EXCEPT ![m] = [place[m] EXCEPT !.folder = f, !.uid = next[f]]]
    BY <1>2 DEF Put
  <1> HIDE DEF P
  <1>5. place' \in [Mails -> P]
    BY <1>2, <1>3, <1>4
  <1> QED
    BY <1>1, <1>5 DEF P

(* A row stays one when columns of it are updated. *)
LEMMA RowsOfKnown ==
    ASSUME NEW i, NEW u, NEW e, NEW r \in RowsOf(i, u, e)
    PROVE  Known(r) /\ r.id = i /\ r.uid = u /\ r.eml = e
  BY DEF Known, RowsOf

(* A row whose raw form is noted is the same row otherwise. *)
LEMMA Archived ==
    ASSUME NEW r, Known(r), NEW e
    PROVE  LET q == [r EXCEPT !.eml = e]
           IN /\ Known(q) /\ q.folder = r.folder /\ q.uid = r.uid
              /\ q.mail = r.mail /\ q.synced = r.synced
  <1>1. /\ [r EXCEPT !.eml = e] \in RowsOf(r.id, r.uid, e) /\ [r EXCEPT !.eml = e].folder = r.folder
        /\ [r EXCEPT !.eml = e].mail = r.mail /\ [r EXCEPT !.eml = e].synced = r.synced
    BY DEF Known, RowsOf
  <1> QED
    BY <1>1, RowsOfKnown

(* A row moved is a row, and provisional (update_folder_from). *)
LEMMA MoveTypes ==
    ASSUME Records, NEW r \in rows, NEW f \in Folders
    PROVE  /\ Known(Moved(r, f)) /\ ~Moved(r, f).synced
           /\ update_folder_from(r, f) => \A s \in rows' : Known(s)
  <1>1. Known(r)
    BY DEF Records
  <1>2. Known(Moved(r, f)) /\ ~Moved(r, f).synced
    <2>1. PICK u : Moved(r, f) = [r EXCEPT !.folder = f, !.uid = u, !.synced = FALSE]
      BY DEF Moved
    <2>2. Moved(r, f) \in RowsOf(r.id, u, r.eml) /\ ~Moved(r, f).synced
      BY <1>1, <2>1 DEF Known, RowsOf
    <2> QED
      BY <2>2, RowsOfKnown
  <1> QED
    BY <1>2 DEF Records, update_folder_from, Without

(* An op queued is an op (enqueue_verschieben, enqueue_loeschen). *)
LEMMA EnqueueTypes ==
    ASSUME Records, Event, NEW m \in Mails, NEW f \in Folders, NEW to \in Folders \cup {None},
           Enqueue(m, f, to)
    PROVE  /\ ops' \subseteq [id : Nat, mail : Mails, from : Folders, to : Folders \cup {None},
                              attempts : Nat]
           /\ events' \in Nat
  <1>1. events' \in Nat
    BY DEF Records, Event
  <1> QED
    BY <1>1 DEF Records, Enqueue

(* What the user says stays one of the words. *)
LEMMA SayTypes ==
    ASSUME Records, NEW m \in Mails, NEW w \in {"keep", "trash", "purge"}, Say(m, w)
    PROVE  word' \in [Mails -> {"none", "keep", "trash", "purge"}]
  BY DEF Records, Say

(* A batch saved leaves rows, those of its mails under its numbers. *)
LEMMA SavedTypes ==
    ASSUME Records
    PROVE  /\ \A x \in Saved : /\ Known(SavedRow(x)) /\ SavedRow(x).folder = here
                               /\ SavedRow(x).uid = x.uid /\ SavedRow(x).mail = x.mail
           /\ \A r \in save_message : Known(r)
  <1>1. ASSUME NEW x \in Saved
        PROVE  /\ Known(SavedRow(x)) /\ SavedRow(x).folder = here
               /\ SavedRow(x).uid = x.uid /\ SavedRow(x).mail = x.mail
    <2>1. x.mail \in Mails /\ here \in Folders
      BY DEF Records, Saved
    <2>2. CASE OldRow(x) = {}
      BY <2>1, <2>2 DEF SavedRow, Known, RowsOf
    <2>3. CASE OldRow(x) # {}
      <3>1. PICK r \in OldRow(x) : SavedRow(x) = [r EXCEPT !.mail = x.mail, !.synced = TRUE]
        BY <2>3 DEF SavedRow
      <3>2. Known(r) /\ r.folder = here /\ r.uid = x.uid
        BY DEF Records, OldRow
      <3> QED
        <4>1. /\ SavedRow(x) \in RowsOf(r.id, r.uid, r.eml)
              /\ SavedRow(x).folder = r.folder /\ SavedRow(x).mail = x.mail
          BY <2>1, <3>1, <3>2 DEF Known, RowsOf
        <4> QED
          BY <3>2, <4>1, RowsOfKnown
    <2> QED
      BY <2>2, <2>3
  <1> QED
    BY <1>1 DEF Records, save_message

(* An op run keeps the provider's types (move_mid, delete_mid). *)
LEMMA EffectTypes ==
    ASSUME Records, NEW o \in ops, Effect(o) \/ UNCHANGED provider
    PROVE  /\ account' \in Accounts /\ next' \in [Folders -> Nat]
           /\ place' \in [Mails -> [folder : Folders \cup {"new", "gone"}, uid : Nat, del : BOOLEAN]]
  <1>1. o.mail \in Mails /\ o.to \in Folders \cup {None}
    BY DEF Records
  <1>2. CASE UNCHANGED provider
    BY <1>2 DEF provider, Records
  <1>3. CASE o.to = None /\ place' = [place EXCEPT ![o.mail].del = TRUE] /\ UNCHANGED <<account, next>>
    BY <1>1, <1>3 DEF Records
  <1>4. CASE o.to # None /\ Put(o.mail, o.to)
    BY <1>1, <1>4, PutTypes
  <1> QED
    BY <1>2, <1>3, <1>4 DEF Effect

(* The types hold for good. *)
LEMMA Types == ASSUME AccountsAssumption, Records, [Next]_vars PROVE Records'
  <1> DEFINE Places == [folder : Folders \cup {"new", "gone"}, uid : Nat, del : BOOLEAN]
             Ops == [id : Nat, mail : Mails, from : Folders, to : Folders \cup {None}, attempts : Nat]
             Batches == SUBSET [mail : Mails, uid : Nat]
             Words == [Mails -> {"none", "keep", "trash", "purge"}]
  <1>r. /\ account \in Accounts /\ events \in Nat /\ place \in [Mails -> Places]
        /\ next \in [Folders -> Nat] /\ \A r \in rows : Known(r)
        /\ ops \subseteq Ops /\ here \in Folders /\ batch \in Batches /\ word \in Words
    BY DEF Records
  <1>q. /\ account' \in Accounts /\ events' \in Nat /\ place' \in [Mails -> Places]
        /\ next' \in [Folders -> Nat] /\ \A r \in rows' : Known(r)
        /\ ops' \subseteq Ops /\ here' \in Folders /\ batch' \in Batches /\ word' \in Words
        => Records'
    BY DEF Records
  <1> HIDE DEF Places, Ops, Batches, Words
  <1> USE DEF provider, queues, loop, history
  <1>e. Event => events' \in Nat
    BY <1>r DEF Event
  <1>g. GoOn => here' \in Folders /\ batch' \in Batches
    <2>1. {} \in Batches /\ "INBOX" \in Folders
      BY DEF Batches, Folders
    <2> QED
      BY <1>r, <2>1, FoldersInOrder DEF GoOn
  <1>p. ASSUME NEW m \in Mails, NEW f \in Folders, Put(m, f)
        PROVE  account' \in Accounts /\ next' \in [Folders -> Nat] /\ place' \in [Mails -> Places]
    BY <1>p, PutTypes DEF Places
  <1>s. ASSUME NEW m \in Mails, NEW w \in {"keep", "trash", "purge"}, Say(m, w) PROVE word' \in Words
    BY <1>s, SayTypes DEF Words
  <1>n. ASSUME NEW m \in Mails, NEW f \in Folders, NEW to \in Folders \cup {None}, Event, Enqueue(m, f, to)
        PROVE  ops' \subseteq Ops
    BY <1>n, EnqueueTypes DEF Ops
  <1>t. "Trash" \in Folders
    BY DEF Folders
  <1>1. ASSUME NEW m \in Mails, NEW f \in Folders, Arrive(m, f) \/ OtherMove(m, f)
        PROVE  Records'
    <2>1. CASE Arrive(m, f)
      BY <1>q, <1>r, <1>p, <2>1 DEF Arrive
    <2>2. CASE OtherMove(m, f)
      BY <1>q, <1>r, <1>p, <1>e, <1>s, <2>2 DEF OtherMove
    <2> QED
      BY <1>1, <2>1, <2>2
  <1>2. CASE Retry
    <2>1. ASSUME NEW o \in ops PROVE [o EXCEPT !.attempts = 0] \in Ops
      BY <1>r DEF Ops
    <2> QED
      BY <1>q, <1>r, <1>e, <1>2, <2>1 DEF Retry
  <1>3. ASSUME NEW r \in rows, NEW f \in Folders, Move(r, f) PROVE Records'
    <2>1. r.mail \in Mails /\ r.folder \in Folders
      BY <1>r DEF Known, RowsOf
    <2>2. (\A s \in rows' : Known(s)) /\ ops' \subseteq Ops /\ word' \in Words
      BY <1>3, <2>1, <1>n, <1>s, MoveTypes DEF Move
    <2> QED
      BY <1>q, <1>r, <1>e, <1>3, <2>2 DEF Move
  <1>4. ASSUME NEW r \in rows, DeleteMirror(r) PROVE Records'
    <2>1. r.mail \in Mails /\ r.folder \in Folders
      BY <1>r DEF Known, RowsOf
    <2>2. (\A s \in rows' : Known(s)) /\ ops' \subseteq Ops /\ word' \in Words
      BY <1>4, <1>r, <2>1, <1>n, <1>s, <1>t, MoveTypes DEF DeleteMirror, Without
    <2> QED
      BY <1>q, <1>r, <1>e, <1>4, <2>2 DEF DeleteMirror
  <1>5. ASSUME NEW r \in rows, DeleteArchive(r) PROVE Records'
    <2>1. r.mail \in Mails
      BY <1>r DEF Known, RowsOf
    <2>2. (\A s \in rows' : Known(s)) /\ word' \in Words
      BY <1>5, <1>r, <2>1, <1>s, <1>t, MoveTypes DEF DeleteArchive, Without
    <2> QED
      BY <1>q, <1>r, <1>e, <1>5, <2>2 DEF DeleteArchive
  <1>6. CASE Sync
    <2>1. CASE Fetch
      <3>1. batch' \in Batches
        BY <1>r, <2>1 DEF Fetch, Batches, Places
      <3> QED
        BY <1>q, <1>r, <2>1, <3>1 DEF Fetch
    <2>2. CASE Save
      BY <1>q, <1>r, <2>2, SavedTypes DEF Save
    <2>3. CASE Skip \/ FolderFails
      BY <1>q, <1>r, <1>e, <1>g, <2>3 DEF Skip, FolderFails
    <2>4. CASE List \/ \E old \in SUBSET wartende_zeilen : Ask(old)
      BY <1>q, <1>r, <2>4 DEF List, Ask
    <2>5. CASE Prune
      BY <1>q, <1>r, <1>g, <2>5 DEF Prune, Without
    <2>6. CASE Body
      <3>1. ASSUME NEW r \in rows, NEW e PROVE Known([r EXCEPT !.eml = e])
        BY Archived, <1>r
      <3> QED
        <4>1. ASSUME NEW s \in rows' PROVE Known(s)
          <5>1. PICK r \in rows : s = r \/ \E e : s = [r EXCEPT !.eml = e]
            BY <2>6 DEF Body
          <5> QED
            BY <1>r, <3>1, <5>1
        <4> QED
          BY <1>q, <1>r, <1>g, <2>6, <4>1 DEF Body
    <2> QED
      BY <1>6, <2>1, <2>2, <2>3, <2>4, <2>5, <2>6 DEF Sync
  <1>7. ASSUME NEW r \in rows, BackfillEmails(r) PROVE Records'
    <2>1. ASSUME NEW s \in rows, NEW e PROVE Known([s EXCEPT !.eml = e])
      BY Archived, <1>r
    <2> QED
      BY <1>q, <1>r, <1>e, <1>7, <2>1 DEF BackfillEmails
  <1>8. ASSUME NEW q \in dq, RemoveQueued(q) PROVE Records'
    <2>1. account' \in Accounts /\ next' \in [Folders -> Nat] /\ place' \in [Mails -> Places]
      <3>1. CASE UNCHANGED provider
        BY <1>r, <3>1
      <3>2. ASSUME NEW m \in Mails, place' = [place EXCEPT ![m].del = TRUE], UNCHANGED <<account, next>>
            PROVE  account' \in Accounts /\ next' \in [Folders -> Nat] /\ place' \in [Mails -> Places]
        BY <1>r, <3>2 DEF Places
      <3> QED
        BY <1>8, <1>p, <1>t, <3>1, <3>2 DEF RemoveQueued
    <2> QED
      BY <1>q, <1>r, <1>8, <2>1 DEF RemoveQueued
  <1>9. ASSUME NEW o \in ops, RunOp(o) PROVE Records'
    <2>1. account' \in Accounts /\ next' \in [Folders -> Nat] /\ place' \in [Mails -> Places]
      BY <1>9, EffectTypes DEF RunOp, Places
    <2>2. [o EXCEPT !.attempts = @ + 1] \in Ops
      BY <1>r DEF Ops
    <2> QED
      BY <1>q, <1>r, <1>e, <1>9, <2>1, <2>2 DEF RunOp
  <1>10. CASE DeleteDone
    BY <1>q, <1>r, <1>10 DEF DeleteDone
  <1>11. CASE OpsDone
    <2>1. ASSUME NEW m \in Mails PROVE [place[m] EXCEPT !.folder = "gone"] \in Places
      BY <1>r DEF Places
    <2>2. place' \in [Mails -> Places]
      BY <1>r, <1>11, <2>1 DEF OpsDone
    <2> QED
      BY <1>q, <1>r, <1>11, <2>2 DEF OpsDone
  <1>12. CASE Crash
    <2>1. {} \in Batches /\ "INBOX" \in Folders
      BY DEF Batches, Folders
    <2> QED
      BY <1>q, <1>r, <1>e, <1>12, <2>1 DEF Crash
  <1>13. CASE UNCHANGED vars
    BY <1>q, <1>r, <1>13 DEF vars
  <1> QED
    BY <1>1, <1>2, <1>3, <1>4, <1>5, <1>6, <1>7, <1>8, <1>9, <1>10, <1>11, <1>12, <1>13
       DEF Next, Elsewhere, Api, Loop, Rest

-----------------------------------------------------------------------------
(* Numbers only grow, and the next one is nobody's yet. *)
LEMMA PutNumbers ==
    ASSUME Records, Numbers, NEW m \in Mails, NEW f \in Folders, Put(m, f),
           UNCHANGED <<rows, batch, here>>
    PROVE  Numbers'
  <1>1. ASSUME NEW n \in Mails PROVE place'[n] = IF n = m THEN [place[m] EXCEPT !.folder = f, !.uid = next[f]] ELSE place[n]
    BY DEF Records, Put
  <1>2. place'[m].folder = f /\ place'[m].uid = next[f]
    BY <1>1 DEF Records
  <1>3. \A g \in Folders : next'[g] = IF g = f THEN next[f] + 1 ELSE next[g]
    BY DEF Records, Put
  <1>4. next[f] \in Nat
    BY DEF Records
  <1>5. ASSUME NEW g \in Folders, NEW u, NEW n \in Mails, Alone(g, u, n) PROVE Alone(g, u, n)'
    <2>1. u < next'[g] /\ u \in Nat
      BY <1>3, <1>5, <1>4 DEF Alone, Records
    <2>2. ASSUME NEW k \in Mails, place'[k].folder = g, place'[k].uid = u PROVE k = n
      BY <1>1, <1>2, <1>4, <1>5, <2>2 DEF Alone
    <2> QED
      BY <2>1, <2>2 DEF Alone
  <1>6. Alone(f, place[m].uid, m)'
    <2>1. ASSUME NEW k \in Mails, k # m, place[k].folder = f PROVE place[k].uid # next[f]
      BY <1>4, <2>1 DEF Numbers, Alone
    <2> QED
      BY <1>1, <1>2, <1>3, <1>4, <2>1 DEF Alone
  <1>7. ASSUME NEW n \in Mails, place'[n].folder \in Folders
        PROVE  Alone(place[n].folder, place[n].uid, n)'
    <2>1. CASE n = m
      BY <1>2, <1>6, <2>1
    <2>2. CASE n # m
      <3>1. place'[n] = place[n]
        BY <1>1, <2>2
      <3>2. Alone(place[n].folder, place[n].uid, n)
        BY <1>7, <3>1 DEF Numbers
      <3> QED
        BY <1>5, <1>7, <3>1, <3>2
    <2> QED
      BY <2>1, <2>2
  <1>8. ASSUME NEW x \in batch PROVE Alone(here, x.uid, x.mail)'
    BY <1>5 DEF Numbers, Records
  <1>9. ASSUME NEW r \in rows, r.synced PROVE Alone(r.folder, r.uid, r.mail)'
    BY <1>5, <1>9 DEF Numbers, Records, Known, RowsOf
  <1> QED
    BY <1>7, <1>8, <1>9 DEF Numbers

(* Mails that are marked or go change no number. *)
LEMMA GoneNumbers ==
    ASSUME Records, Numbers, UNCHANGED <<rows, batch, here, next>>,
           \A m \in Mails : place'[m].uid = place[m].uid /\ place'[m].folder \in {place[m].folder, "gone"}
    PROVE  Numbers'
  <1>1. "gone" \notin Folders
    BY DEF Folders
  <1>2. ASSUME NEW f \in Folders, NEW u, NEW n, Alone(f, u, n) PROVE Alone(f, u, n)'
    BY <1>1, <1>2 DEF Alone
  <1> QED
    BY <1>1, <1>2 DEF Numbers, Records, Known, RowsOf

(* Rows become the server's only by a batch. *)
LEMMA RowNumbers ==
    ASSUME Records, Numbers, UNCHANGED provider, batch' = {} \/ UNCHANGED <<batch, here>>,
           \A r \in rows' : r.synced =>
              \/ \E s \in rows : s.synced /\ s.folder = r.folder /\ s.uid = r.uid /\ s.mail = r.mail
              \/ \E x \in batch : r.folder = here /\ r.uid = x.uid /\ r.mail = x.mail
    PROVE  Numbers'
  <1>1. \A f, u, n : Alone(f, u, n)' <=> Alone(f, u, n)
    BY DEF Alone, provider
  <1> QED
    BY <1>1 DEF Numbers, provider

(* An op run changes no number but the mail's it moves, for a new one. *)
LEMMA EffectNumbers ==
    ASSUME Records, Numbers, NEW o \in ops, Effect(o) \/ UNCHANGED provider,
           UNCHANGED <<rows, batch, here>>
    PROVE  Numbers'
  <1>1. o.mail \in Mails /\ o.to \in Folders \cup {None}
    BY DEF Records
  <1>2. CASE UNCHANGED provider
    BY <1>2, GoneNumbers DEF provider
  <1>3. CASE o.to = None /\ place' = [place EXCEPT ![o.mail].del = TRUE] /\ UNCHANGED <<account, next>>
    <2>1. \A m \in Mails : place'[m].uid = place[m].uid /\ place'[m].folder = place[m].folder
      BY <1>3 DEF Records
    <2> QED
      BY <1>3, <2>1, GoneNumbers
  <1>4. CASE o.to # None /\ Put(o.mail, o.to)
    BY <1>1, <1>4, PutNumbers
  <1> QED
    BY <1>2, <1>3, <1>4 DEF Effect

(* No step gives a number twice or confirms a number not given. *)
LEMMA NumbersStay == ASSUME Records, Numbers, [Next]_vars PROVE Numbers'
  <1> USE DEF queues, loop, history
  <1>u. ASSUME UNCHANGED provider, batch' = {} \/ UNCHANGED <<batch, here>>,
               \A r \in rows' : r.synced => r \in rows
        PROVE  Numbers'
    BY <1>u, RowNumbers
  <1>m. ASSUME NEW r \in rows, NEW f \in Folders, update_folder_from(r, f)
        PROVE  \A s \in rows' : s.synced => s \in rows
    BY <1>m, MoveTypes DEF update_folder_from, Without
  <1>t. "Trash" \in Folders
    BY DEF Folders
  <1>1. ASSUME NEW m \in Mails, NEW f \in Folders, Arrive(m, f) \/ OtherMove(m, f) PROVE Numbers'
    BY <1>1, PutNumbers DEF Arrive, OtherMove
  <1>2. CASE Retry
    BY <1>2, <1>u DEF Retry
  <1>3. ASSUME NEW r \in rows, NEW f \in Folders, Move(r, f) PROVE Numbers'
    BY <1>3, <1>u, <1>m DEF Move
  <1>4. ASSUME NEW r \in rows, DeleteMirror(r) PROVE Numbers'
    BY <1>4, <1>u, <1>m, <1>t DEF DeleteMirror, Without
  <1>5. ASSUME NEW r \in rows, DeleteArchive(r) PROVE Numbers'
    BY <1>5, <1>u, <1>t, MoveTypes DEF DeleteArchive, Without
  <1>6. CASE Sync
    <2>1. CASE Fetch
      <3>1. ASSUME NEW x \in batch' PROVE Alone(here, x.uid, x.mail)'
        <4>1. PICK m \in Mails : place[m].folder = here /\ x.uid = place[m].uid /\ x.mail = m
          BY <2>1 DEF Fetch
        <4> QED
          BY <2>1, <4>1 DEF Fetch, Numbers, Records, Alone, provider
      <3>2. \A f, u, m : Alone(f, u, m)' <=> Alone(f, u, m)
        BY <2>1 DEF Fetch, Alone, provider
      <3> QED
        BY <2>1, <3>1, <3>2 DEF Fetch, Numbers, provider
    <2>2. CASE Save
      <3>1. ASSUME NEW r \in rows', r \notin rows
            PROVE  \E x \in batch : r.folder = here /\ r.uid = x.uid /\ r.mail = x.mail
        <4>1. PICK x \in Saved : r = SavedRow(x)
          BY <2>2, <3>1 DEF Save, save_message
        <4> QED
          BY <4>1, SavedTypes DEF Saved
      <3> QED
        BY <2>2, <3>1, RowNumbers DEF Save
    <2>3. CASE Skip \/ FolderFails
      BY <2>3, <1>u DEF Skip, FolderFails, GoOn
    <2>4. CASE List \/ \E old \in SUBSET wartende_zeilen : Ask(old)
      BY <2>4, <1>u DEF List, Ask
    <2>5. CASE Prune
      BY <2>5, <1>u DEF Prune, Without, GoOn
    <2>6. CASE Body
      <3>1. ASSUME NEW s \in rows', s.synced
            PROVE  \E r \in rows : r.synced /\ r.folder = s.folder /\ r.uid = s.uid /\ r.mail = s.mail
        <4>1. PICK r \in rows : s = r \/ \E e : s = [r EXCEPT !.eml = e]
          BY <2>6 DEF Body
        <4>2. Known(r)
          BY DEF Records
        <4> QED
          <5>1. CASE s = r
            BY <3>1, <5>1
          <5>2. ASSUME NEW e, s = [r EXCEPT !.eml = e]
                PROVE  s.folder = r.folder /\ s.uid = r.uid /\ s.mail = r.mail /\ s.synced = r.synced
            BY <4>2, <5>2, Archived
          <5> QED
            BY <3>1, <4>1, <5>1, <5>2
      <3> QED
        BY <2>6, <3>1, RowNumbers DEF Body, GoOn
    <2> QED
      BY <1>6, <2>1, <2>2, <2>3, <2>4, <2>5, <2>6 DEF Sync
  <1>7. ASSUME NEW q \in rows, BackfillEmails(q) PROVE Numbers'
    <2>1. ASSUME NEW s \in rows', s.synced
          PROVE  \E r \in rows : r.synced /\ r.folder = s.folder /\ r.uid = s.uid /\ r.mail = s.mail
      <3>1. PICK r \in rows : s = r \/ \E e : s = [r EXCEPT !.eml = e]
        BY <1>7 DEF BackfillEmails
      <3>2. Known(r)
        BY DEF Records
      <3> QED
        <4>1. CASE s = r
          BY <2>1, <4>1
        <4>2. ASSUME NEW e, s = [r EXCEPT !.eml = e]
              PROVE  s.folder = r.folder /\ s.uid = r.uid /\ s.mail = r.mail /\ s.synced = r.synced
          BY <3>2, <4>2, Archived
        <4> QED
          BY <2>1, <3>1, <4>1, <4>2
    <2> QED
      BY <1>7, <2>1, RowNumbers DEF BackfillEmails
  <1>8. ASSUME NEW q \in dq, RemoveQueued(q) PROVE Numbers'
    <2>1. CASE UNCHANGED provider
      BY <1>8, <2>1, GoneNumbers DEF RemoveQueued, provider
    <2>2. ASSUME NEW m \in Mails, place' = [place EXCEPT ![m].del = TRUE], UNCHANGED <<account, next>>
          PROVE  Numbers'
      <3>1. \A n \in Mails : place'[n].uid = place[n].uid /\ place'[n].folder = place[n].folder
        BY <2>2 DEF Records
      <3> QED
        BY <1>8, <2>2, <3>1, GoneNumbers DEF RemoveQueued
    <2>3. ASSUME NEW m \in Mails, Put(m, "Trash") PROVE Numbers'
      BY <1>8, <1>t, <2>3, PutNumbers DEF RemoveQueued
    <2> QED
      BY <1>8, <2>1, <2>2, <2>3 DEF RemoveQueued
  <1>9. ASSUME NEW o \in ops, RunOp(o) PROVE Numbers'
    BY <1>9, EffectNumbers DEF RunOp
  <1>10. CASE DeleteDone
    BY <1>10, <1>u DEF DeleteDone
  <1>11. CASE OpsDone
    <2>1. \A m \in Mails : place'[m].uid = place[m].uid /\ place'[m].folder \in {place[m].folder, "gone"}
      BY <1>11 DEF OpsDone, Records
    <2> QED
      BY <1>11, <2>1, GoneNumbers DEF OpsDone
  <1>12. CASE Crash
    BY <1>12, <1>u DEF Crash
  <1>13. CASE UNCHANGED vars
    BY <1>13, <1>u DEF vars
  <1> QED
    BY <1>1, <1>2, <1>3, <1>4, <1>5, <1>6, <1>7, <1>8, <1>9, <1>10, <1>11, <1>12, <1>13
       DEF Next, Elsewhere, Api, Loop, Rest

(* Confirmed numbers (ConfirmedNumbers): the number of a row the server    *)
(* confirmed is that mail's or nobody's, however rows are moved, fetched,  *)
(* overwritten and pruned (api/messages.rs, cache/messages.rs).            *)
THEOREM NumbersConfirmed == ASSUME AccountsAssumption PROVE Spec => []ConfirmedNumbers
  <1>1. Init => Records /\ Numbers
    BY RecordsAtFirst DEF Init, Numbers, Folders
  <1>2. Records /\ Numbers /\ [Next]_vars => (Records /\ Numbers)'
    BY Types, NumbersStay
  <1>3. Records /\ Numbers => ConfirmedNumbers
    BY DEF Records, Numbers, ConfirmedNumbers, Alone
  <1> QED
    BY <1>1, <1>2, <1>3, PTL DEF Spec

-----------------------------------------------------------------------------
(* In mirror mode: the ops for a mail form a path from where the provider  *)
(* has it, or from somewhere on the path it has gone ahead to (an op whose *)
(* answer was lost), to where its user last put it.                        *)
OpsOf(m) == {o \in ops : o.mail = m}
First(m, o) == o \in OpsOf(m) /\ \A p \in OpsOf(m) : o.id <= p.id
Newest(m, o) == o \in OpsOf(m) /\ \A p \in OpsOf(m) : p.id <= o.id
Follows(m, o, p) == o.id < p.id /\ \A q \in OpsOf(m) : q.id <= o.id \/ p.id <= q.id
OnPath(m) == /\ OpsOf(m) # {} => place[m].folder \in Folders
             /\ \A o \in OpsOf(m) : First(m, o) =>
                   place[m].folder = o.from \/ \E q \in OpsOf(m) : place[m].folder = q.to
Connected(m) == \A o, p \in OpsOf(m) : Follows(m, o, p) => p.from = o.to
Reaches(m) == /\ OpsOf(m) # {} => \E o \in OpsOf(m) : Newest(m, o)
              /\ word[m] \in {"none", "keep"} =>
                    /\ OpsOf(m) = {} => place[m].folder # "Trash"
                    /\ \A o \in OpsOf(m) : Newest(m, o) => o.to # "Trash"
InOrder(m) == OnPath(m) /\ Connected(m) /\ Reaches(m)

Mirrored == /\ dq = {}
            /\ \A o \in ops : o.id <= events /\ (o.to = None => word[o.mail] = "purge")
            /\ \A o, p \in ops : o.id = p.id => o = p
            /\ \A m \in Mails : place[m].folder = "gone" \/ place[m].del => word[m] = "purge"
            /\ \A m \in Mails : m \notin crossed /\ word[m] # "purge" => InOrder(m)

(* What changes nothing of a mail's path, or moves the mail along it. *)
LEMMA SamePath ==
    ASSUME Records, NEW m \in Mails, InOrder(m),
           \A o \in OpsOf(m) : \E p \in OpsOf(m)' : p.id = o.id /\ p.from = o.from /\ p.to = o.to,
           \A p \in OpsOf(m)' : \E o \in OpsOf(m) : p.id = o.id /\ p.from = o.from /\ p.to = o.to,
           \/ place'[m].folder = place[m].folder
           \/ place'[m].folder \in Folders /\ \E o \in OpsOf(m) : place'[m].folder = o.to,
           word'[m] = word[m]
    PROVE  InOrder(m)'
  <1>1. \A p \in OpsOf(m)' : \E o \in OpsOf(m) : /\ p.id = o.id /\ p.from = o.from /\ p.to = o.to
                                                 /\ First(m, p)' => First(m, o)
                                                 /\ Newest(m, p)' => Newest(m, o)
    BY DEF First, Newest
  <1>2. OnPath(m)'
    <2>1. OpsOf(m)' # {} => place'[m].folder \in Folders
      BY DEF InOrder, OnPath
    <2>2. ASSUME NEW p \in OpsOf(m)', First(m, p)'
          PROVE  place'[m].folder = p.from \/ \E q \in OpsOf(m)' : place'[m].folder = q.to
      BY <1>1, <2>2 DEF InOrder, OnPath
    <2> QED
      BY <2>1, <2>2 DEF OnPath
  <1>3. Connected(m)'
    BY DEF InOrder, Connected, Follows
  <1>4. Reaches(m)'
    <2>1. OpsOf(m)' = {} <=> OpsOf(m) = {}
      OBVIOUS
    <2>2. ASSUME OpsOf(m)' # {} PROVE (\E p \in OpsOf(m) : Newest(m, p))'
      BY <2>1, <2>2 DEF InOrder, Reaches, Newest
    <2>3. ASSUME word'[m] \in {"none", "keep"}, OpsOf(m)' = {} PROVE place'[m].folder # "Trash"
      BY <2>1, <2>3 DEF InOrder, Reaches
    <2>4. ASSUME word'[m] \in {"none", "keep"}, NEW p \in OpsOf(m)', Newest(m, p)' PROVE p.to # "Trash"
      <3>1. PICK o \in OpsOf(m) : p.to = o.to /\ Newest(m, o)
        BY <1>1, <2>4
      <3> QED
        BY <2>4, <3>1 DEF InOrder, Reaches
    <2> QED
      BY <2>2, <2>3, <2>4 DEF Reaches
  <1> QED
    BY <1>2, <1>3, <1>4 DEF InOrder

(* A request adds an op at the end. *)
LEMMA LongerPath ==
    ASSUME Records, Mirrored, Event, NEW m \in Mails, NEW f \in Folders, NEW to \in Folders \cup {None},
           Enqueue(m, f, to), UNCHANGED provider, m \notin crossed',
           word[m] # "purge", word'[m] \in {"none", "keep"} => to # "Trash"
    PROVE  InOrder(m)'
  <1>n. PICK n : n = [id |-> events', mail |-> m, from |-> f, to |-> to, attempts |-> 0]
    OBVIOUS
  <1>1. /\ ops' = ops \cup {n} /\ Bound(m) = f /\ m \notin crossed /\ InOrder(m)
        /\ OpsOf(m)' = OpsOf(m) \cup {n} /\ place' = place
    BY <1>n DEF Enqueue, Crossing, Mirrored, provider, OpsOf
  <1>2. \A o \in OpsOf(m) : o.id \in Nat /\ o.id < n.id
    BY <1>n DEF Records, Mirrored, Event, OpsOf
  <1>3. n.id \in Nat /\ n.from = f /\ n.to = to
    BY <1>n DEF Records, Event
  <1>4. CASE OpsOf(m) = {}
    <2>1. place[m].folder = f
      BY <1>1, <1>4 DEF Bound, OpsOf
    <2> QED
      BY <1>1, <1>n, <1>3, <1>4, <2>1 DEF InOrder, OnPath, Connected, Follows, Reaches, First, Newest
  <1>5. CASE OpsOf(m) # {}
    <2>1. PICK last \in OpsOf(m) : Newest(m, last)
      BY <1>1, <1>5 DEF InOrder, Reaches
    <2>2. \A o \in OpsOf(m) : Newest(m, o) => o = last
      BY <1>2, <2>1 DEF Newest, Mirrored, OpsOf
    <2>3. last.to = f
      <3>1. Bound(m) = (CHOOSE o \in OpsOf(m) : \A p \in OpsOf(m) : p.id <= o.id).to
        BY <1>5 DEF Bound, OpsOf
      <3>2. (CHOOSE o \in OpsOf(m) : \A p \in OpsOf(m) : p.id <= o.id) = last
        BY <2>1, <2>2 DEF Newest
      <3> QED
        BY <1>1, <3>1, <3>2
    <2>4. OnPath(m)'
      <3>1. ASSUME NEW o \in OpsOf(m)', First(m, o)' PROVE First(m, o)
        BY <1>1, <1>2, <1>3, <2>1, <3>1 DEF First
      <3> QED
        BY <1>1, <3>1 DEF InOrder, OnPath, First
    <2>5. Connected(m)'
      <3>1. ASSUME NEW o \in OpsOf(m)', NEW p \in OpsOf(m)', Follows(m, o, p)' PROVE p.from = o.to
        <4>1. o \in OpsOf(m)
          BY <1>1, <1>2, <1>3, <3>1 DEF Follows
        <4>2. CASE p = n
          <5>1. last.id <= o.id
            BY <1>1, <1>2, <1>3, <2>1, <3>1, <4>1, <4>2 DEF Follows
          <5>2. o = last
            BY <1>2, <2>1, <4>1, <5>1 DEF Newest, Mirrored, OpsOf
          <5> QED
            BY <1>3, <2>3, <4>2, <5>2
        <4>3. CASE p \in OpsOf(m)
          BY <1>1, <3>1, <4>1, <4>3 DEF InOrder, Connected, Follows
        <4> QED
          BY <1>1, <4>2, <4>3
      <3> QED
        BY <3>1 DEF Connected
    <2>6. Reaches(m)'
      <3>1. Newest(m, n)'
        BY <1>1, <1>2, <1>3 DEF Newest
      <3>2. \A o \in OpsOf(m)' : Newest(m, o)' => o = n
        BY <1>1, <1>2, <1>3 DEF Newest
      <3> QED
        BY <1>1, <1>3, <3>1, <3>2 DEF Reaches
    <2> QED
      BY <2>4, <2>5, <2>6 DEF InOrder
  <1> QED
    BY <1>4, <1>5

(* The oldest op for a mail has run: what is left starts where it led. *)
LEMMA ShorterPath ==
    ASSUME Records, Mirrored, NEW o \in ops, First(o.mail, o), Effect(o), ops' = ops \ {o},
           InOrder(o.mail), word[o.mail] # "purge", word' = word
    PROVE  InOrder(o.mail)'
  <1> DEFINE m == o.mail
  <1>1. m \in Mails /\ o.to \in Folders /\ o.to # None /\ o \in OpsOf(m)
    BY DEF Records, Mirrored, OpsOf
  <1>2. OpsOf(m)' = OpsOf(m) \ {o}
    BY DEF OpsOf
  <1>3. \A p \in OpsOf(m) : p.id \in Nat /\ o.id <= p.id /\ (p.id = o.id => p = o)
    BY DEF Records, Mirrored, First, OpsOf
  <1>4. place'[m].folder = IF place[m].folder = o.from THEN o.to ELSE place[m].folder
    <2>1. CASE place[m].folder # o.from
      BY <2>1 DEF Effect, provider
    <2>2. CASE place[m].folder = o.from
      <3>1. Put(m, o.to)
        BY <1>1, <2>2 DEF Effect
      <3> QED
        BY <1>1, <2>2, <3>1 DEF Put, Records
    <2> QED
      BY <2>1, <2>2
  <1>5. place[m].folder = o.from \/ \E q \in OpsOf(m) : place[m].folder = q.to
    BY <1>1 DEF InOrder, OnPath
  <1> HIDE DEF m
  <1>6. OnPath(m)'
    <2>f. place'[m].folder \in Folders
      BY <1>1, <1>4 DEF InOrder, OnPath, m
    <2> SUFFICES ASSUME NEW n \in OpsOf(m)', First(m, n)'
                 PROVE  place'[m].folder = n.from \/ \E q \in OpsOf(m)' : place'[m].folder = q.to
      BY <2>f DEF OnPath
    <2>1. Follows(m, o, n)
      BY <1>1, <1>2, <1>3 DEF First, Follows
    <2>2. n.from = o.to
      BY <1>1, <1>2, <2>1 DEF InOrder, Connected, m
    <2> QED
      BY <1>2, <1>4, <1>5, <2>2
  <1>7. Connected(m)'
    <2>1. ASSUME NEW a \in OpsOf(m)', NEW b \in OpsOf(m)', Follows(m, a, b)' PROVE Follows(m, a, b)
      BY <1>2, <1>3, <2>1 DEF Follows
    <2> QED
      BY <1>2, <2>1 DEF InOrder, Connected, m
  <1>8. Reaches(m)'
    <2>1. ASSUME NEW p \in OpsOf(m)', Newest(m, p)' PROVE Newest(m, p)
      BY <1>2, <1>3, <2>1 DEF Newest
    <2>2. ASSUME OpsOf(m)' # {} PROVE (\E p \in OpsOf(m) : Newest(m, p))'
      <3>1. PICK last \in OpsOf(m) : Newest(m, last)
        BY <1>1 DEF InOrder, Reaches, m
      <3>2. last # o
        BY <1>2, <1>3, <2>2, <3>1 DEF Newest
      <3> QED
        BY <1>2, <3>1, <3>2 DEF Newest
    <2>3. ASSUME word[m] \in {"none", "keep"}, OpsOf(m)' = {} PROVE place'[m].folder # "Trash"
      <3>1. OpsOf(m) = {o} /\ Newest(m, o)
        BY <1>1, <1>2, <1>3, <2>3 DEF Newest
      <3>2. o.to # "Trash"
        BY <2>3, <3>1 DEF InOrder, Reaches, m
      <3> QED
        BY <1>4, <1>5, <3>1, <3>2
    <2>4. ASSUME word[m] \in {"none", "keep"}, NEW p \in OpsOf(m)', Newest(m, p)' PROVE p.to # "Trash"
      BY <1>2, <2>1, <2>4 DEF InOrder, Reaches, m
    <2> QED
      BY <2>2, <2>3, <2>4 DEF Reaches
  <1> QED
    BY <1>6, <1>7, <1>8 DEF InOrder, m

(* Steps that neither queue nor run an op. *)
LEMMA NoOpsMove ==
    ASSUME Records, Mirrored, ops' = ops, dq' = {}, events' >= events, events' \in Nat,
           word' = word, crossed' = crossed,
           \A m \in Mails : place'[m].folder = place[m].folder /\ place'[m].del = place[m].del
    PROVE  Mirrored'
  <1>1. ASSUME NEW m \in Mails, m \notin crossed, word[m] # "purge" PROVE InOrder(m)'
    <2>1. InOrder(m) /\ OpsOf(m)' = OpsOf(m)
      BY <1>1 DEF Mirrored, OpsOf
    <2> QED
      BY <2>1, SamePath
  <1>2. \A o \in ops : o.id <= events'
    BY DEF Mirrored, Records
  <1> QED
    BY <1>1, <1>2 DEF Mirrored

(* A request of the user: its op goes to the end of the mail's path. *)
LEMMA Requested ==
    ASSUME Records, Mirrored, Event, NEW m \in Mails, NEW f \in Folders, NEW to \in Folders \cup {None},
           NEW w \in {"keep", "trash", "purge"}, Enqueue(m, f, to), Say(m, w),
           to = None => w = "purge", w = "keep" => to # "Trash",
           UNCHANGED provider, dq' = {}
    PROVE  Mirrored'
  <1>1. /\ events' = events + 1 /\ events \in Nat /\ place' = place
        /\ \A n \in Mails : word'[n] = IF n # m \/ word[n] = "purge" THEN word[n] ELSE w
    BY DEF Event, Records, Say, provider
  <1>2. PICK n : ops' = ops \cup {n} /\ n.id = events' /\ n.mail = m /\ n.from = f /\ n.to = to
    <2>1. PICK n : n = [id |-> events', mail |-> m, from |-> f, to |-> to, attempts |-> 0]
      OBVIOUS
    <2>2. n.id = events' /\ n.mail = m /\ n.from = f /\ n.to = to
      BY <2>1
    <2> QED
      BY <2>1, <2>2 DEF Enqueue
  <1>3. ASSUME NEW o \in ops' PROVE o.id <= events' /\ (o.to = None => word'[o.mail] = "purge")
    BY <1>1, <1>2, <1>3 DEF Mirrored, Records
  <1>4. ASSUME NEW o \in ops', NEW p \in ops', o.id = p.id PROVE o = p
    BY <1>1, <1>2, <1>4 DEF Mirrored, Records
  <1>5. ASSUME NEW k \in Mails, place'[k].folder = "gone" \/ place'[k].del PROVE word'[k] = "purge"
    BY <1>1, <1>5 DEF Mirrored
  <1>6. ASSUME NEW k \in Mails, k \notin crossed', word'[k] # "purge" PROVE InOrder(k)'
    <2>1. CASE k = m
      BY <1>1, <1>6, <2>1, LongerPath
    <2>2. CASE k # m
      <3>1. InOrder(k) /\ word'[k] = word[k]
        BY <1>1, <1>6, <2>2 DEF Mirrored, Enqueue, Crossing
      <3>2. OpsOf(k)' = OpsOf(k)
        BY <1>2, <2>2 DEF OpsOf
      <3> QED
        BY <1>1, <3>1, <3>2, SamePath
    <2> QED
      BY <2>1, <2>2
  <1> QED
    BY <1>3, <1>4, <1>5, <1>6 DEF Mirrored

(* What a change of its attempts leaves of an op. *)
SameOp(p, o) == p.id = o.id /\ p.mail = o.mail /\ p.from = o.from /\ p.to = o.to

(* An op's attempts are all that a failure or a retry changes of it. *)
LEMMA AttemptsOnly ==
    ASSUME Records, NEW o \in ops, NEW n
    PROVE  SameOp([o EXCEPT !.attempts = n], o)
  <1>1. o \in [id : Nat, mail : Mails, from : Folders, to : Folders \cup {None}, attempts : Nat]
    BY DEF Records
  <1> QED
    BY <1>1 DEF SameOp

(* An op that fails leaves the path, and may have moved the mail along it. *)
LEMMA Failed ==
    ASSUME Records, Mirrored, NEW o \in ops, Effect(o) \/ UNCHANGED provider, Event,
           NEW p, SameOp(p, o), ops' = (ops \ {o}) \cup {p},
           dq' = {}, word' = word, crossed' = crossed
    PROVE  Mirrored'
  <1>1. /\ ops' = (ops \ {o}) \cup {p}
        /\ p.id = o.id /\ p.mail = o.mail /\ p.from = o.from /\ p.to = o.to
    BY DEF SameOp
  <1>2. o.mail \in Mails /\ events \in Nat /\ events' = events + 1
    BY DEF Records, Event
  <1>3. \/ UNCHANGED place
        \/ o.to = None /\ place' = [place EXCEPT ![o.mail].del = TRUE]
        \/ o.to \in Folders /\ Put(o.mail, o.to)
    BY DEF Effect, provider, Records
  <1>4. ASSUME NEW k \in Mails, place'[k].folder = "gone" \/ place'[k].del PROVE word'[k] = "purge"
    <2>1. CASE UNCHANGED place
      BY <1>4, <2>1 DEF Mirrored
    <2>2. CASE o.to = None /\ place' = [place EXCEPT ![o.mail].del = TRUE]
      BY <1>2, <1>4, <2>2 DEF Mirrored, Records
    <2>3. CASE o.to \in Folders /\ Put(o.mail, o.to)
      <3>1. place'[k].del = place[k].del /\ place'[k].folder \in {place[k].folder, o.to} /\ o.to # "gone"
        BY <1>2, <2>3 DEF Put, Records, Folders
      <3> QED
        BY <1>4, <3>1 DEF Mirrored
    <2> QED
      BY <1>3, <2>1, <2>2, <2>3
  <1>5. ASSUME NEW k \in Mails, k \notin crossed, word[k] # "purge" PROVE InOrder(k)'
    <2>1. InOrder(k)
      BY <1>5 DEF Mirrored
    <2>2. /\ \A q \in OpsOf(k) : \E r \in OpsOf(k)' : r.id = q.id /\ r.from = q.from /\ r.to = q.to
          /\ \A r \in OpsOf(k)' : \E q \in OpsOf(k) : r.id = q.id /\ r.from = q.from /\ r.to = q.to
      BY <1>1 DEF OpsOf
    <2>3. \/ place'[k].folder = place[k].folder
          \/ place'[k].folder \in Folders /\ \E q \in OpsOf(k) : place'[k].folder = q.to
      <3>1. CASE o.to \in Folders /\ Put(o.mail, o.to)
        BY <1>2, <3>1 DEF Put, Records, OpsOf
      <3>2. CASE o.to = None /\ place' = [place EXCEPT ![o.mail].del = TRUE]
        BY <1>2, <3>2 DEF Records
      <3> QED
        BY <1>3, <3>1, <3>2
    <2> QED
      BY <2>1, <2>2, <2>3, SamePath
  <1>6. ASSUME NEW q \in ops' PROVE q.id <= events' /\ (q.to = None => word'[q.mail] = "purge")
    BY <1>1, <1>2, <1>6 DEF Mirrored, Records
  <1>7. ASSUME NEW q \in ops', NEW r \in ops', q.id = r.id PROVE q = r
    BY <1>1, <1>7 DEF Mirrored
  <1> QED
    BY <1>4, <1>5, <1>6, <1>7 DEF Mirrored

(* An op done leaves the path; unless it overtook an older one, its start. *)
LEMMA Done ==
    ASSUME Records, Mirrored, NEW o \in ops, Effect(o), ops' = ops \ {o},
           Crossing(o.mail, \E p \in ops : p.mail = o.mail /\ p.id < o.id),
           dq' = {}, word' = word, events' = events
    PROVE  Mirrored'
  <1>1. o.mail \in Mails
    BY DEF Records
  <1>2. \/ UNCHANGED place
        \/ o.to = None /\ place' = [place EXCEPT ![o.mail].del = TRUE]
        \/ o.to \in Folders /\ Put(o.mail, o.to)
    BY DEF Effect, provider, Records
  <1>3. ASSUME NEW k \in Mails, place'[k].folder = "gone" \/ place'[k].del PROVE word[k] = "purge"
    <2>1. CASE UNCHANGED place
      BY <1>3, <2>1 DEF Mirrored
    <2>2. CASE o.to = None /\ place' = [place EXCEPT ![o.mail].del = TRUE]
      BY <1>1, <1>3, <2>2 DEF Mirrored, Records
    <2>3. CASE o.to \in Folders /\ Put(o.mail, o.to)
      <3>1. place'[k].del = place[k].del /\ place'[k].folder \in {place[k].folder, o.to} /\ o.to # "gone"
        BY <1>1, <2>3 DEF Put, Records, Folders
      <3> QED
        BY <1>3, <3>1 DEF Mirrored
    <2> QED
      BY <1>2, <2>1, <2>2, <2>3
  <1>4. ASSUME NEW k \in Mails, k \notin crossed', word[k] # "purge" PROVE InOrder(k)'
    <2>1. InOrder(k)
      BY <1>4 DEF Mirrored, Crossing
    <2>2. CASE k = o.mail
      <3>1. First(k, o)
        BY <1>4, <2>2 DEF Crossing, First, OpsOf, Records
      <3> QED
        BY <1>4, <2>1, <2>2, <3>1, ShorterPath
    <2>3. CASE k # o.mail
      <3>1. OpsOf(k)' = OpsOf(k)
        BY <2>3 DEF OpsOf
      <3>2. place'[k].folder = place[k].folder
        BY <1>1, <1>2, <2>3 DEF Put, Records
      <3> QED
        BY <2>1, <3>1, <3>2, SamePath
    <2> QED
      BY <2>2, <2>3
  <1> QED
    BY <1>3, <1>4 DEF Mirrored

(* In mirror mode no step breaks a path that is not crossed. *)
LEMMA MirroredStays == ASSUME Records, mode = "mirror", Mirrored, [Next]_vars PROVE Mirrored'
  <1> USE DEF queues, loop, history
  <1>q. ASSUME UNCHANGED provider, UNCHANGED ops, dq' = {}, UNCHANGED history,
               events' = events \/ Event
        PROVE  Mirrored'
    BY <1>q, NoOpsMove DEF Event, Records, provider
  <1>d. dq = {}
    BY DEF Mirrored
  <1>w. \A R : Without(R) => dq' = {}
    BY <1>d DEF Without
  <1>m. \A r \in rows, f \in Folders : update_folder_from(r, f) => dq' = {}
    BY <1>d, <1>w DEF update_folder_from
  <1>f. "Trash" \in Folders /\ "new" \notin Folders /\ "gone" \notin Folders
    BY DEF Folders
  <1>1. ASSUME NEW m \in Mails, NEW f \in Folders, Arrive(m, f) PROVE Mirrored'
    <2>1. /\ place[m].folder = "new" /\ f # "Trash"
          /\ \A k \in Mails : /\ place'[k].del = place[k].del
                              /\ place'[k].folder = IF k = m THEN f ELSE place[k].folder
      BY <1>1 DEF Arrive, Put, Records
    <2>2. ASSUME NEW k \in Mails, k \notin crossed, word[k] # "purge" PROVE InOrder(k)'
      <3>1. InOrder(k) /\ OpsOf(k)' = OpsOf(k) /\ word' = word
        BY <1>1, <2>2 DEF Mirrored, OpsOf, Arrive
      <3>2. CASE k # m
        BY <2>1, <3>1, <3>2, SamePath
      <3>3. CASE k = m
        <4>1. OpsOf(m) = {}
          BY <1>f, <2>1, <3>1, <3>3 DEF InOrder, OnPath
        <4> QED
          BY <2>1, <3>1, <3>3, <4>1 DEF InOrder, OnPath, Connected, Reaches
      <3> QED
        BY <3>2, <3>3
    <2> QED
      BY <1>1, <1>f, <2>1, <2>2 DEF Mirrored, Arrive
  <1>2. ASSUME NEW m \in Mails, NEW f \in Folders, OtherMove(m, f) PROVE Mirrored'
    <2>1. /\ place[m].folder \in Folders /\ events' = events + 1 /\ events \in Nat /\ ~place[m].del
          /\ \A k \in Mails : /\ place'[k].del = place[k].del
                              /\ place'[k].folder = IF k = m THEN f ELSE place[k].folder
          /\ \A k \in Mails : word'[k] = IF k # m \/ word[k] = "purge" THEN word[k]
                                         ELSE IF f = "Trash" THEN "trash" ELSE "keep"
      BY <1>2 DEF OtherMove, Put, Records, Event, Say
    <2>2. ASSUME NEW k \in Mails, k \notin crossed', word'[k] # "purge" PROVE InOrder(k)'
      <3>1. InOrder(k) /\ OpsOf(k)' = OpsOf(k)
        BY <1>2, <2>1, <2>2 DEF Mirrored, OpsOf, OtherMove, Crossing
      <3>2. CASE k # m
        BY <2>1, <3>1, <3>2, SamePath
      <3>3. CASE k = m
        <4>1. OpsOf(m) = {}
          BY <1>2, <2>2, <3>3 DEF OtherMove, Crossing, OpsOf
        <4> QED
          BY <2>1, <3>1, <3>3, <4>1 DEF InOrder, OnPath, Connected, Reaches
      <3> QED
        BY <3>2, <3>3
    <2>3. ASSUME NEW k \in Mails, place'[k].folder = "gone" \/ place'[k].del PROVE word'[k] = "purge"
      BY <1>f, <2>1, <2>3 DEF Mirrored
    <2>4. ASSUME NEW o \in ops PROVE o.id <= events' /\ (o.to = None => word'[o.mail] = "purge")
      BY <2>1 DEF Mirrored, Records
    <2> QED
      BY <1>2, <2>2, <2>3, <2>4 DEF Mirrored, OtherMove
  <1>3. CASE Retry
    <2>1. /\ \A p \in ops' : \E o \in ops : p = [o EXCEPT !.attempts = 0] /\ SameOp(p, o)
          /\ \A o \in ops : \E p \in ops' : SameOp(p, o)
      <3>1. ops' = {[o EXCEPT !.attempts = 0] : o \in ops}
        BY <1>3 DEF Retry
      <3>2. \A o \in ops : SameOp([o EXCEPT !.attempts = 0], o)
        BY AttemptsOnly
      <3> QED
        BY <3>1, <3>2
    <2>2. place' = place /\ word' = word /\ crossed' = crossed
          /\ dq' = {} /\ events' = events + 1 /\ events \in Nat
      BY <1>3, <1>d DEF Retry, Event, Records, provider
    <2>3. ASSUME NEW k \in Mails, k \notin crossed, word[k] # "purge" PROVE InOrder(k)'
      <3>1. /\ \A q \in OpsOf(k) : \E r \in OpsOf(k)' : r.id = q.id /\ r.from = q.from /\ r.to = q.to
            /\ \A r \in OpsOf(k)' : \E q \in OpsOf(k) : r.id = q.id /\ r.from = q.from /\ r.to = q.to
        BY <2>1 DEF OpsOf, SameOp
      <3> QED
        BY <2>2, <2>3, <3>1, SamePath DEF Mirrored
    <2>4. ASSUME NEW p \in ops' PROVE p.id <= events' /\ (p.to = None => word'[p.mail] = "purge")
      BY <2>1, <2>2, <2>4 DEF Mirrored, Records, SameOp
    <2>5. ASSUME NEW p \in ops', NEW q \in ops', p.id = q.id PROVE p = q
      <3>1. PICK o \in ops : p = [o EXCEPT !.attempts = 0] /\ SameOp(p, o)
        BY <2>1
      <3>2. PICK n \in ops : q = [n EXCEPT !.attempts = 0] /\ SameOp(q, n)
        BY <2>1
      <3>3. o = n
        BY <2>5, <3>1, <3>2 DEF Mirrored, SameOp
      <3> QED
        BY <3>1, <3>2, <3>3
    <2> QED
      BY <2>2, <2>3, <2>4, <2>5 DEF Mirrored
  <1>4. ASSUME NEW r \in rows, NEW f \in Folders, Move(r, f) PROVE Mirrored'
    <2>1. r.mail \in Mails /\ r.folder \in Folders
      BY DEF Records, Known, RowsOf
    <2>2. f # None
      BY NoneAssumption DEF Folders
    <2> QED
      BY <1>4, <1>m, <2>1, <2>2, Requested DEF Move
  <1>5. ASSUME NEW r \in rows, DeleteMirror(r) PROVE Mirrored'
    <2>1. r.mail \in Mails /\ r.folder \in Folders
      BY DEF Records, Known, RowsOf
    <2>2. "Trash" # None
      BY NoneAssumption
    <2>3. CASE r.folder # "Trash"
      BY <1>5, <1>m, <1>f, <2>1, <2>2, <2>3, Requested DEF DeleteMirror
    <2>4. CASE r.folder = "Trash"
      BY <1>5, <1>w, <1>f, <2>1, <2>4, Requested DEF DeleteMirror
    <2> QED
      BY <2>3, <2>4
  <1>6. ASSUME NEW r \in rows, DeleteArchive(r) PROVE Mirrored'
    BY <1>6 DEF DeleteArchive
  <1>7. CASE Sync
    <2>1. CASE Fetch
      BY <2>1, <1>q, <1>d DEF Fetch
    <2>2. CASE Save
      BY <2>2, <1>q, <1>d DEF Save
    <2>3. CASE Skip \/ FolderFails
      BY <2>3, <1>q, <1>d DEF Skip, FolderFails
    <2>4. CASE List \/ \E old \in SUBSET wartende_zeilen : Ask(old)
      BY <2>4, <1>q, <1>d DEF List, Ask
    <2>5. CASE Prune
      BY <2>5, <1>q, <1>w DEF Prune
    <2>6. CASE Body
      BY <2>6, <1>q, <1>d DEF Body
    <2> QED
      BY <1>7, <2>1, <2>2, <2>3, <2>4, <2>5, <2>6 DEF Sync
  <1>8. ASSUME NEW r \in rows, BackfillEmails(r) PROVE Mirrored'
    BY <1>8, <1>q, <1>d DEF BackfillEmails
  <1>9. ASSUME NEW o \in ops, RunOp(o) PROVE Mirrored'
    <2>1. CASE ops' = ops \ {o}
               /\ Crossing(o.mail, \E p \in ops : p.mail = o.mail /\ p.id < o.id /\ p.id \notin todo)
               /\ Effect(o) /\ UNCHANGED events
      <3>1. \A p \in ops : p.id < o.id => p.id \notin todo
        BY <1>9 DEF RunOp, Oldest, Records
      <3>2. Crossing(o.mail, \E p \in ops : p.mail = o.mail /\ p.id < o.id)
        BY <2>1, <3>1 DEF Crossing
      <3> QED
        BY <1>9, <1>d, <2>1, <3>2, Done DEF RunOp
    <2>2. CASE /\ Event /\ (Effect(o) \/ UNCHANGED provider)
               /\ ops' = (ops \ {o}) \cup {[o EXCEPT !.attempts = @ + 1]}
               /\ UNCHANGED crossed
      <3>1. PICK p : p = [o EXCEPT !.attempts = @ + 1]
        OBVIOUS
      <3>2. SameOp(p, o)
        BY <3>1, AttemptsOnly
      <3>3. dq' = {} /\ word' = word /\ crossed' = crossed
        BY <1>9, <1>d, <2>2 DEF RunOp
      <3>4. ops' = (ops \ {o}) \cup {p}
        <4>1. ops' = (ops \ {o}) \cup {[o EXCEPT !.attempts = @ + 1]}
          BY <2>2
        <4> QED
          BY <3>1, <4>1
      <3>5. Event /\ (Effect(o) \/ UNCHANGED provider)
        BY <2>2
      <3> QED
        BY <3>2, <3>3, <3>4, <3>5, Failed
    <2> QED
      BY <1>9, <2>1, <2>2 DEF RunOp
  <1>10. CASE DeleteDone
    BY <1>10, <1>q, <1>d DEF DeleteDone
  <1>11. CASE OpsDone
    <2>1. \A k \in Mails : /\ place'[k].del = place[k].del
                           /\ place'[k].folder = IF place[k].del THEN "gone" ELSE place[k].folder
      BY <1>11 DEF OpsDone, Records
    <2>2. ASSUME NEW k \in Mails, k \notin crossed, word[k] # "purge" PROVE InOrder(k)'
      <3>1. InOrder(k) /\ OpsOf(k)' = OpsOf(k) /\ word' = word /\ ~place[k].del
        BY <1>11, <2>2 DEF Mirrored, OpsOf, OpsDone
      <3> QED
        BY <2>1, <3>1, SamePath
    <2> QED
      BY <1>11, <2>1, <2>2 DEF Mirrored, OpsDone
  <1>12. CASE Crash
    BY <1>12, <1>q, <1>d DEF Crash
  <1>13. CASE UNCHANGED vars
    BY <1>13, <1>q, <1>d DEF vars
  <1> QED
    BY <1>1, <1>2, <1>3, <1>4, <1>5, <1>6, <1>7, <1>8, <1>9, <1>10, <1>11, <1>12, <1>13, <1>d
       DEF Next, Elsewhere, Api, Loop, Rest

(* What the user said last (Kept): in mirror mode the provider loses no    *)
(* mail that was not deleted for good and leaves none in the trash that    *)
(* was not put there, whatever ops fail, wait or follow each other         *)
(* (cache/provider_ops.rs, run_provider_ops).                              *)
THEOREM MailsKept == ASSUME AccountsAssumption, NoneAssumption PROVE Spec => []Kept
  <1>1. Init => Records /\ (mode = "mirror" => Mirrored)
    BY RecordsAtFirst DEF Init, Mirrored, InOrder, OnPath, Connected, Reaches, OpsOf
  <1>2. Records /\ (mode = "mirror" => Mirrored) /\ [Next]_vars
        => Records' /\ (mode = "mirror" => Mirrored)'
    <2>1. ASSUME Records, [Next]_vars PROVE account' = account
      BY <2>1 DEF Next, vars, Elsewhere, Arrive, OtherMove, Put, Api, Retry, Move, DeleteMirror,
         DeleteArchive, Loop, Sync, Fetch, Save, Skip, List, Ask, Prune, Body, FolderFails, Rest,
         BackfillEmails, RemoveQueued, RunOp, Effect, DeleteDone, OpsDone, Crash, provider
    <2> QED
      BY <2>1, Types, MirroredStays DEF mode
  <1>3. Records /\ (mode = "mirror" => Mirrored) => Kept
    BY DEF Kept, Mirrored, InOrder, Reaches, OpsOf, Records
  <1> QED
    BY <1>1, <1>2, <1>3, PTL DEF Spec

-----------------------------------------------------------------------------
(* Type correctness: the numbers, ids and attempts stay within the bounds, *)
(* and the choices of the model (a free number, a new id, the highest      *)
(* number fetched) have something to choose from.                          *)

(* How often a mail has come to a folder is bounded: each time a new mail, *)
(* an event or a queued row or op was spent on it.                         *)
Come == {m \in Mails : place[m].folder # "new"}
Spent == Cardinality(Come) + events + 1
Counted == /\ events \in 0 .. MaxEvents /\ IsFiniteSet(ops) /\ IsFiniteSet(dq)
           /\ \A f \in Folders : next[f] >= 1 /\ next[f] + Cardinality(ops) + Cardinality(dq) <= Spent

(* The ops: each has its number, and what waits for its turn may be tried. *)
Numbered == /\ todo \subseteq 1 .. events
            /\ \A o \in ops : /\ o.id \in 1 .. events /\ o.attempts <= MaxAttempts
                              /\ o.id \in todo => ~GivenUp(o)
            /\ \A o, p \in ops : o.id = p.id => o = p
            /\ crossed \subseteq Mails

(* What the provider says and the loop remembers of it is within bounds. *)
Within == /\ \A m \in Mails : place[m].uid <= MaxUid
          /\ \A m \in Mails : place[m].folder \in Folders => place[m].uid >= 1
          /\ cursor \in [Folders -> 0 .. MaxUid] /\ listed \subseteq 1 .. MaxUid
          /\ batch \subseteq [mail : Mails, uid : 1 .. MaxUid] /\ IsFiniteSet(batch)
          /\ at \in {"fetch", "save", "list", "ask", "prune", "body", "delete", "ops"}
          /\ at = "save" => batch # {}

(* The rows of the index and of the queue that refers to them. *)
Filled == /\ rows \subseteq Row /\ IsFiniteSet(rows) /\ waiting \subseteq Nat \ {0}
          /\ dq \subseteq [id : 1 .. events, row : Nat \ {0}, folder : Folders, uid : Nat \ {0}]
(* A set of images is finite and no larger. *)
LEMMA ImageOf ==
    ASSUME NEW S, IsFiniteSet(S), NEW f, NEW T, T = {f[x] : x \in S}
    PROVE  IsFiniteSet(T) /\ Cardinality(T) <= Cardinality(S)
  <1> DEFINE g == [x \in S |-> f[x]]
  <1>1. g \in Surjection(S, T)
    BY DEF Surjection
  <1> QED
    BY <1>1, FS_Surjection

(* A set without its elements that fail a test, or with one more. *)
LEMMA SmallerSet ==
    ASSUME NEW S, IsFiniteSet(S), NEW T, T \subseteq S
    PROVE  /\ IsFiniteSet(T) /\ Cardinality(T) \in Nat /\ Cardinality(S) \in Nat
           /\ Cardinality(T) <= Cardinality(S)
  BY FS_Subset, FS_CardinalityType

LEMMA OneMore ==
    ASSUME NEW S, IsFiniteSet(S), NEW x
    PROVE  /\ IsFiniteSet(S \cup {x}) /\ Cardinality(S \cup {x}) \in Nat /\ Cardinality(S) \in Nat
           /\ Cardinality(S \cup {x}) <= Cardinality(S) + 1
           /\ x \notin S => Cardinality(S \cup {x}) = Cardinality(S) + 1
  <1>1. /\ IsFiniteSet(S \cup {x})
        /\ Cardinality(S \cup {x}) = IF x \in S THEN Cardinality(S) ELSE Cardinality(S) + 1
    BY FS_AddElement
  <1>2. Cardinality(S) \in Nat /\ Cardinality(S \cup {x}) \in Nat
    BY <1>1, FS_CardinalityType
  <1> QED
    BY <1>1, <1>2

LEMMA OneLess ==
    ASSUME NEW S, IsFiniteSet(S), NEW x \in S
    PROVE  /\ IsFiniteSet(S \ {x}) /\ Cardinality(S \ {x}) \in Nat /\ Cardinality(S) \in Nat
           /\ Cardinality(S \ {x}) = Cardinality(S) - 1
  BY FS_RemoveElement, FS_CardinalityType

(* The provider's numbers grow by one at most in a step, and no mail       *)
(* becomes one that has not come.                                          *)
Forward == /\ account' = account /\ Come \subseteq Come'
           /\ \A f \in Folders : next[f] <= next'[f] /\ next'[f] <= next[f] + 1

LEMMA SameForward == ASSUME Records, UNCHANGED provider PROVE Forward /\ UNCHANGED <<Come, next>>
  BY DEF Records, Forward, provider, Come

LEMMA PutForward ==
    ASSUME Records, NEW m \in Mails, NEW f \in Folders, Put(m, f)
    PROVE  Forward /\ Come' = Come \cup {m}
  <1>1. account' = account /\ \A g \in Folders : next[g] <= next'[g] /\ next'[g] <= next[g] + 1
    BY DEF Put, Records
  <1>2. \A n \in Mails : place'[n].folder = IF n = m THEN f ELSE place[n].folder
    BY DEF Put, Records
  <1>3. f # "new"
    BY DEF Folders
  <1> QED
    BY <1>1, <1>2, <1>3 DEF Forward, Come

LEMMA MarkForward ==
    ASSUME Records, NEW m \in Mails, place' = [place EXCEPT ![m].del = TRUE], UNCHANGED <<account, next>>
    PROVE  Forward
  <1>1. \A n \in Mails : place'[n].folder = place[n].folder
    BY DEF Records
  <1> QED
    BY <1>1 DEF Records, Forward, Come

LEMMA EffectForward ==
    ASSUME Records, NEW o \in ops, Effect(o) \/ UNCHANGED provider
    PROVE  Forward
  <1>1. o.mail \in Mails /\ o.to \in Folders \cup {None}
    BY DEF Records
  <1> QED
    BY <1>1, SameForward, PutForward, MarkForward DEF Effect

(* Who has come is counted. *)
LEMMA ComeCounted ==
    ASSUME BoundsAssumption, Forward
    PROVE  /\ Cardinality(Come) \in Nat /\ Cardinality(Come') \in Nat
           /\ Cardinality(Come) <= Cardinality(Come') /\ Cardinality(Come') <= Cardinality(Mails)
           /\ Cardinality(Mails) \in Nat /\ IsFiniteSet(Come)
  <1>1. Come' \subseteq Mails /\ Come \subseteq Come' /\ IsFiniteSet(Mails)
    BY DEF Come, Forward, BoundsAssumption
  <1>2. IsFiniteSet(Come')
    BY <1>1, FS_Subset
  <1> QED
    BY <1>1, <1>2, SmallerSet

(* What is spent covers what has come, step by step. *)
LEMMA CountedStays ==
    ASSUME BoundsAssumption, AccountsAssumption, Records, Counted, [Next]_vars
    PROVE  Counted' /\ Forward
  <1> USE DEF queues, loop, history
  <1>r. /\ account \in Accounts /\ next \in [Folders -> Nat] /\ events \in Nat /\ MaxEvents \in Nat
        /\ events <= MaxEvents /\ IsFiniteSet(ops) /\ IsFiniteSet(dq) /\ here \in Folders
        /\ Cardinality(ops) \in Nat /\ Cardinality(dq) \in Nat
        /\ \A f \in Folders : next[f] >= 1 /\ next[f] + Cardinality(ops) + Cardinality(dq) <= Spent
        /\ next' \in [Folders -> Nat]
    <2>1. next' \in [Folders -> Nat]
      BY Types DEF Records
    <2>2. MaxEvents \in Nat
      BY DEF Records, AccountsAssumption, MaxEvents
    <2>3. Cardinality(ops) \in Nat /\ Cardinality(dq) \in Nat
      BY FS_CardinalityType DEF Counted
    <2> QED
      BY <2>1, <2>2, <2>3 DEF Records, Counted
  <1> DEFINE Less == /\ IsFiniteSet(dq') /\ Cardinality(dq') \in Nat /\ Cardinality(dq') <= Cardinality(dq)
             More == /\ IsFiniteSet(ops') /\ Cardinality(ops') \in Nat
                     /\ Cardinality(ops') <= Cardinality(ops) + 1
  <1>q. ASSUME Forward, IsFiniteSet(ops'), IsFiniteSet(dq'), Cardinality(ops') \in Nat, Cardinality(dq') \in Nat,
               events' \in 0 .. MaxEvents, NEW f \in Folders,
               next'[f] + Cardinality(ops') + Cardinality(dq') - Cardinality(Come') - events'
               <= next[f] + Cardinality(ops) + Cardinality(dq) - Cardinality(Come) - events
        PROVE  next'[f] >= 1 /\ next'[f] + Cardinality(ops') + Cardinality(dq') <= Spent'
    BY <1>q, <1>r, ComeCounted DEF Spent, Forward
  <1>s. ASSUME Forward, events' \in 0 .. MaxEvents, IsFiniteSet(ops'), IsFiniteSet(dq'),
               \A f \in Folders : next'[f] + Cardinality(ops') + Cardinality(dq') - Cardinality(Come') - events'
                                  <= next[f] + Cardinality(ops) + Cardinality(dq) - Cardinality(Come) - events
        PROVE  Counted' /\ Forward
    <2>1. Cardinality(ops') \in Nat /\ Cardinality(dq') \in Nat
      BY <1>s, FS_CardinalityType
    <2>2. MaxEvents' = MaxEvents
      BY <1>s DEF Forward, MaxEvents
    <2> QED
      BY <1>s, <1>q, <2>1, <2>2 DEF Counted
  <1>e. Event => events' = events + 1 /\ events' \in 0 .. MaxEvents
    BY <1>r DEF Event
  <1>v. events \in 0 .. MaxEvents
    BY <1>r
  <1>c. Forward => /\ Cardinality(Come) \in Nat /\ Cardinality(Come') \in Nat
                   /\ Cardinality(Come) <= Cardinality(Come')
    BY ComeCounted
  <1>f. Forward => \A f \in Folders : next[f] <= next'[f] /\ next'[f] <= next[f] + 1
    BY DEF Forward
  <1>u. UNCHANGED provider => Forward /\ Cardinality(Come') = Cardinality(Come) /\ next' = next
    BY SameForward
  <1>w. ASSUME NEW R, Without(R) PROVE Less
    <2>1. dq' \subseteq dq
      BY <1>w DEF Without
    <2> QED
      BY <1>r, <2>1, SmallerSet
  <1>d. dq' = dq => Less
    BY <1>r
  <1>l. ASSUME NEW r \in rows, NEW f \in Folders, update_folder_from(r, f) PROVE Less
    BY <1>l, <1>w, <1>d DEF update_folder_from
  <1>n. ASSUME NEW m, NEW f, NEW to, Enqueue(m, f, to) PROVE More
    <2>1. PICK x : ops' = ops \cup {x}
      BY <1>n DEF Enqueue
    <2> QED
      BY <1>r, <2>1, OneMore
  <1> HIDE DEF Less, More
  <1>1. ASSUME NEW m \in Mails, NEW f \in Folders, Arrive(m, f) PROVE Counted' /\ Forward
    <2>1. Forward /\ Come' = Come \cup {m} /\ m \notin Come
      BY <1>1, PutForward DEF Arrive, Come
    <2>2. Cardinality(Come') = Cardinality(Come) + 1
      BY <2>1, ComeCounted, OneMore
    <2> QED
      BY <1>1, <1>r, <1>s, <1>v, <1>c, <1>f, <2>1, <2>2 DEF Arrive
  <1>2. ASSUME NEW m \in Mails, NEW f \in Folders, OtherMove(m, f) PROVE Counted' /\ Forward
    <2>1. Forward
      BY <1>2, PutForward DEF OtherMove
    <2> QED
      BY <1>2, <1>r, <1>s, <1>e, <1>c, <1>f, <2>1 DEF OtherMove
  <1>3. CASE Retry
    <2> DEFINE F == [o \in ops |-> [o EXCEPT !.attempts = 0]]
    <2>1. ops' = {F[o] : o \in ops}
      BY <1>3 DEF Retry
    <2> HIDE DEF F
    <2>2. IsFiniteSet(ops') /\ Cardinality(ops') <= Cardinality(ops)
      BY <1>r, <2>1, ImageOf
    <2>3. Cardinality(ops') \in Nat
      BY <2>2, FS_CardinalityType
    <2>4. UNCHANGED <<provider, dq>> /\ Event
      BY <1>3 DEF Retry
    <2> QED
      BY <1>r, <1>s, <1>e, <1>c, <1>u, <2>2, <2>3, <2>4
  <1>4. ASSUME NEW r \in rows, NEW f \in Folders, Move(r, f) PROVE Counted' /\ Forward
    BY <1>4, <1>r, <1>s, <1>e, <1>c, <1>u, <1>l, <1>n DEF Move, Less, More
  <1>5. ASSUME NEW r \in rows, DeleteMirror(r) PROVE Counted' /\ Forward
    <2>1. Less /\ More
      BY <1>5, <1>l, <1>n, <1>w DEF DeleteMirror, Folders
    <2> QED
      BY <1>5, <1>r, <1>s, <1>e, <1>c, <1>u, <2>1 DEF DeleteMirror, Less, More
  <1>6. ASSUME NEW r \in rows, DeleteArchive(r) PROVE Counted' /\ Forward
    <2>1. IsFiniteSet(dq') /\ Cardinality(dq') \in Nat /\ Cardinality(dq') <= Cardinality(dq) + 1
      <3>1. CASE InTarget(r, "Trash")
        BY <1>6, <1>r, <1>w, <3>1 DEF DeleteArchive, Less
      <3>2. CASE ~InTarget(r, "Trash")
        <4>1. PICK x : dq' = dq \cup {x}
          BY <1>6, <3>2 DEF DeleteArchive
        <4> QED
          BY <1>r, <4>1, OneMore
      <3> QED
        BY <3>1, <3>2
    <2> QED
      BY <1>6, <1>r, <1>s, <1>e, <1>c, <1>u, <2>1 DEF DeleteArchive
  <1>7. CASE Sync
    <2>1. CASE Save
      <3>1. dq' \subseteq dq
        BY <2>1 DEF Save
      <3>2. Less
        BY <1>r, <3>1, SmallerSet DEF Less
      <3>3. UNCHANGED <<provider, ops, events>>
        BY <2>1 DEF Save
      <3> QED
        BY <1>r, <1>s, <1>v, <1>c, <1>u, <3>2, <3>3 DEF Less
    <2>2. CASE Prune
      BY <1>r, <1>s, <1>v, <1>c, <1>u, <1>w, <2>2 DEF Prune, Less
    <2>3. CASE FolderFails
      BY <1>r, <1>s, <1>e, <1>c, <1>u, <2>3 DEF FolderFails
    <2>4. CASE Fetch \/ Skip \/ List \/ Body \/ \E old \in SUBSET wartende_zeilen : Ask(old)
      BY <1>r, <1>s, <1>v, <1>c, <1>u, <2>4 DEF Fetch, Skip, List, Body, Ask
    <2> QED
      BY <1>7, <2>1, <2>2, <2>3, <2>4 DEF Sync
  <1>8. ASSUME NEW r \in rows, BackfillEmails(r) PROVE Counted' /\ Forward
    BY <1>8, <1>r, <1>s, <1>e, <1>c, <1>u DEF BackfillEmails
  <1>9. ASSUME NEW q \in dq, RemoveQueued(q) PROVE Counted' /\ Forward
    <2>1. Forward
      BY <1>9, SameForward, PutForward, MarkForward DEF RemoveQueued, Folders
    <2>2. IsFiniteSet(dq') /\ Cardinality(dq') \in Nat /\ Cardinality(dq') = Cardinality(dq) - 1
      BY <1>9, <1>r, OneLess DEF RemoveQueued
    <2> QED
      BY <1>9, <1>r, <1>s, <1>v, <1>c, <1>f, <2>1, <2>2 DEF RemoveQueued
  <1>10. ASSUME NEW o \in ops, RunOp(o) PROVE Counted' /\ Forward
    <2>1. Forward
      BY <1>10, EffectForward DEF RunOp
    <2>2. /\ IsFiniteSet(ops \ {o}) /\ Cardinality(ops \ {o}) \in Nat
          /\ Cardinality(ops \ {o}) = Cardinality(ops) - 1
      BY <1>r, OneLess
    <2>3. CASE ops' = ops \ {o} /\ events' = events
      BY <1>10, <1>r, <1>s, <1>v, <1>c, <1>f, <2>1, <2>2, <2>3 DEF RunOp
    <2>4. ASSUME NEW x, ops' = (ops \ {o}) \cup {x}, Event PROVE Counted' /\ Forward
      <3>1. IsFiniteSet(ops') /\ Cardinality(ops') \in Nat /\ Cardinality(ops') <= Cardinality(ops)
        <4>1. /\ IsFiniteSet((ops \ {o}) \cup {x}) /\ Cardinality((ops \ {o}) \cup {x}) \in Nat
              /\ Cardinality((ops \ {o}) \cup {x}) <= Cardinality(ops \ {o}) + 1
          BY <2>2, OneMore
        <4> QED
          BY <1>r, <2>2, <2>4, <4>1
      <3> QED
        BY <1>10, <1>r, <1>s, <1>e, <1>c, <1>f, <2>1, <2>4, <3>1 DEF RunOp
    <2> QED
      BY <1>10, <2>3, <2>4 DEF RunOp
  <1>11. CASE DeleteDone
    BY <1>11, <1>r, <1>s, <1>v, <1>c, <1>u DEF DeleteDone
  <1>12. CASE OpsDone
    <2>1. \A n \in Mails : place[n].folder # "new" => place'[n].folder # "new"
      BY <1>12 DEF OpsDone, Records
    <2>2. Forward
      BY <1>12, <1>r, <2>1 DEF OpsDone, Forward, Come
    <2> QED
      BY <1>12, <1>r, <1>s, <1>v, <1>c, <2>2 DEF OpsDone
  <1>13. CASE Crash
    BY <1>13, <1>r, <1>s, <1>e, <1>c, <1>u DEF Crash
  <1>14. CASE UNCHANGED vars
    BY <1>14, <1>r, <1>s, <1>v, <1>c, <1>u DEF vars
  <1> QED
    BY <1>1, <1>2, <1>3, <1>4, <1>5, <1>6, <1>7, <1>8, <1>9, <1>10, <1>11, <1>12, <1>13, <1>14
       DEF Next, Elsewhere, Api, Loop, Rest

-----------------------------------------------------------------------------
(* An op queued has the next number; no other has it. *)
LEMMA QueuedNumber ==
    ASSUME BoundsAssumption, Records, Numbered, Event, UNCHANGED todo,
           NEW m \in Mails, NEW f, NEW to, Enqueue(m, f, to)
    PROVE  Numbered'
  <1> DEFINE n == [id |-> events', mail |-> m, from |-> f, to |-> to, attempts |-> 0]
  <1>1. /\ events \in Nat /\ events' = events + 1 /\ MaxAttempts \in Nat \ {0}
        /\ ops' = ops \cup {n} /\ crossed' \subseteq crossed \cup {m} /\ todo' = todo
    BY DEF Records, Event, Enqueue, Crossing, BoundsAssumption
  <1>2. n.id = events + 1 /\ n.attempts = 0
    BY <1>1
  <1> HIDE DEF n
  <1>3. todo' \subseteq 1 .. events'
    BY <1>1 DEF Numbered
  <1>4. ASSUME NEW o \in ops'
        PROVE  /\ o.id \in 1 .. events' /\ o.attempts <= MaxAttempts
               /\ o.id \in todo' => ~(o.attempts >= MaxAttempts)
    BY <1>1, <1>2 DEF Numbered, GivenUp
  <1>5. ASSUME NEW o \in ops', NEW p \in ops', o.id = p.id PROVE o = p
    BY <1>1, <1>2, <1>5 DEF Numbered
  <1> QED
    BY <1>1, <1>3, <1>4, <1>5 DEF Numbered, GivenUp

(* The ops keep their numbers and are tried no more often than they may    *)
(* be (run_provider_ops, loesch_erneut).                                   *)
LEMMA NumberedStays ==
    ASSUME BoundsAssumption, Records, Numbered, [Next]_vars
    PROVE  Numbered'
  <1> USE DEF queues, loop, history, GivenUp
  <1>r. events \in Nat /\ MaxAttempts \in Nat \ {0} /\ \A o \in ops : o.mail \in Mails /\ o.attempts \in Nat
    BY DEF Records, BoundsAssumption
  <1>m. \A r \in rows : r.mail \in Mails
    BY DEF Records, Known, RowsOf
  <1>e. Event => events' = events + 1
    BY DEF Event
  <1>q. ops' = ops /\ todo' \in {todo, {}} /\ crossed' \subseteq Mails /\ events' \in {events, events + 1} => Numbered'
    BY <1>r DEF Numbered
  <1>c. \A m \in Mails : \A so : Crossing(m, so) => crossed' \subseteq Mails
    BY DEF Crossing, Numbered
  <1>k. crossed \subseteq Mails
    BY DEF Numbered
  <1>1. ASSUME NEW m \in Mails, NEW f \in Folders, Arrive(m, f) \/ OtherMove(m, f) PROVE Numbered'
    BY <1>1, <1>e, <1>q, <1>c, <1>k DEF Arrive, OtherMove
  <1>2. CASE Retry
    <2>1. /\ ops' = {[o EXCEPT !.attempts = 0] : o \in ops} /\ events' = events + 1
          /\ todo' = todo /\ crossed' = crossed
      BY <1>2, <1>e DEF Retry
    <2>2. ASSUME NEW o \in ops PROVE LET p == [o EXCEPT !.attempts = 0] IN p.id = o.id /\ p.attempts = 0
      BY DEF Records
    <2>3. ASSUME NEW p \in ops' PROVE \E o \in ops : p = [o EXCEPT !.attempts = 0] /\ p.id = o.id /\ p.attempts = 0
      BY <2>1, <2>2
    <2>4. ASSUME NEW p \in ops', NEW q \in ops', p.id = q.id PROVE p = q
      BY <2>3, <2>4 DEF Numbered
    <2>5. ASSUME NEW p \in ops'
          PROVE  /\ p.id \in 1 .. events' /\ p.attempts <= MaxAttempts
                 /\ p.id \in todo' => ~(p.attempts >= MaxAttempts)
      BY <1>r, <2>1, <2>3 DEF Numbered
    <2>6. todo' \subseteq 1 .. events' /\ crossed' \subseteq Mails
      BY <1>r, <2>1 DEF Numbered
    <2> QED
      BY <2>4, <2>5, <2>6 DEF Numbered
  <1>3. ASSUME NEW r \in rows, NEW f \in Folders, Move(r, f) PROVE Numbered'
    BY <1>3, <1>m, QueuedNumber DEF Move
  <1>4. ASSUME NEW r \in rows, DeleteMirror(r) PROVE Numbered'
    BY <1>4, <1>m, QueuedNumber DEF DeleteMirror
  <1>5. ASSUME NEW r \in rows, DeleteArchive(r) PROVE Numbered'
    BY <1>5, <1>e, <1>q, <1>k DEF DeleteArchive
  <1>6. CASE Sync
    BY <1>6, <1>e, <1>q, <1>k DEF Sync, Fetch, Save, Skip, GoOn, List, Ask, Prune, Body, FolderFails
  <1>7. ASSUME NEW r \in rows, BackfillEmails(r) PROVE Numbered'
    BY <1>7, <1>e, <1>q, <1>k DEF BackfillEmails
  <1>8. ASSUME NEW q \in dq, RemoveQueued(q) PROVE Numbered'
    BY <1>8, <1>q, <1>k DEF RemoveQueued
  <1>9. ASSUME NEW o \in ops, RunOp(o) PROVE Numbered'
    <2>1. o.mail \in Mails /\ crossed' \subseteq Mails /\ o.id \in todo /\ todo' = todo \ {o.id}
      BY <1>9, <1>r, <1>c, <1>k DEF RunOp
    <2>2. CASE ops' = ops \ {o} /\ events' = events
      BY <1>r, <2>1, <2>2 DEF Numbered
    <2>3. CASE ops' = (ops \ {o}) \cup {[o EXCEPT !.attempts = @ + 1]} /\ events' = events + 1
      <3> DEFINE p == [o EXCEPT !.attempts = @ + 1]
      <3>1. p.id = o.id /\ p.attempts = o.attempts + 1
        BY DEF Records
      <3> HIDE DEF p
      <3>2. ops' = (ops \ {o}) \cup {p}
        BY <2>3 DEF p
      <3>3. ~(o.attempts >= MaxAttempts)
        BY <2>1 DEF Numbered
      <3>4. ASSUME NEW x \in ops'
            PROVE  /\ x.id \in 1 .. events' /\ x.attempts <= MaxAttempts
                   /\ x.id \in todo' => ~(x.attempts >= MaxAttempts)
        <4>1. CASE x = p
          BY <1>r, <2>1, <2>3, <3>1, <3>3, <4>1 DEF Numbered
        <4>2. CASE x \in ops \ {o}
          BY <1>r, <2>1, <2>3, <4>2 DEF Numbered
        <4> QED
          BY <3>2, <4>1, <4>2
      <3>5. ASSUME NEW x \in ops', NEW y \in ops', x.id = y.id PROVE x = y
        BY <3>1, <3>2, <3>5 DEF Numbered
      <3>6. todo' \subseteq 1 .. events'
        BY <1>r, <2>1, <2>3 DEF Numbered
      <3> QED
        BY <2>1, <3>4, <3>5, <3>6 DEF Numbered
    <2> QED
      BY <1>9, <1>e, <2>2, <2>3 DEF RunOp
  <1>10. CASE DeleteDone
    <2>1. /\ ops' = ops /\ crossed' = crossed /\ events' = events
          /\ todo' = {o.id : o \in {o \in ops : ~(o.attempts >= MaxAttempts)}}
      BY <1>10 DEF DeleteDone
    <2> QED
      BY <2>1 DEF Numbered
  <1>11. CASE OpsDone
    BY <1>11, <1>q, <1>k DEF OpsDone
  <1>12. CASE Crash
    BY <1>12, <1>e, <1>q, <1>k DEF Crash
  <1>13. CASE UNCHANGED vars
    BY <1>13, <1>q, <1>k DEF vars
  <1> QED
    BY <1>1, <1>2, <1>3, <1>4, <1>5, <1>6, <1>7, <1>8, <1>9, <1>10, <1>11, <1>12, <1>13
       DEF Next, Elsewhere, Api, Loop, Rest

-----------------------------------------------------------------------------
(* A set of numbers has a smallest, and below a bound a largest. *)
LEMMA SmallestOf == ASSUME NEW S \in SUBSET Nat, S # {} PROVE \E k \in S : \A j \in S : k <= j
  <1>1. PICK k \in S : \A j \in S : ~(<<j, k>> \in OpToRel(<, Nat))
    BY NatLessThanWellFounded, WFMin
  <1>2. \A j \in S : ~(j < k)
    BY <1>1 DEF OpToRel
  <1> QED
    BY <1>2

LEMMA LargestOf ==
    ASSUME NEW n \in Nat, NEW S \in SUBSET (0 .. n), S # {}
    PROVE  \E k \in S : \A j \in S : j <= k
  <1> DEFINE T == {n - j : j \in S}
  <1>1. \A j \in S : j \in Int /\ n - j \in Nat
    OBVIOUS
  <1>2. PICK t \in T : \A u \in T : t <= u
    <2>1. T \in SUBSET Nat /\ T # {}
      BY <1>1
    <2> QED
      BY <2>1, SmallestOf
  <1>3. PICK k \in S : t = n - k
    OBVIOUS
  <1>4. ASSUME NEW j \in S PROVE j <= k
    <2>1. n - j \in T
      OBVIOUS
    <2>2. n - k <= n - j
      BY <1>2, <1>3, <2>1
    <2> QED
      BY <1>1, <2>2
  <1> QED
    BY <1>4

(* The provider's numbers and what the loop remembers of them are within   *)
(* bounds, as what has come is counted.                                    *)
LEMMA BatchFetched ==
    ASSUME BoundsAssumption, Records, Within, MaxUid \in Nat, Fetch
    PROVE  /\ batch' \subseteq [mail : Mails, uid : 1 .. MaxUid] /\ IsFiniteSet(batch')
           /\ at' \in {"list", "save"} /\ (at' = "save" => batch' # {})
  <1> DEFINE M == {m \in Mails : place[m].folder = here /\ place[m].uid > cursor[here]}
             B == [m \in Mails |-> [mail |-> m, uid |-> place[m].uid]]
  <1>1. batch' = {B[m] : m \in M} /\ at' \in {"list", "save"} /\ (at' = "save" => batch' # {})
    BY DEF Fetch
  <1>2. \A m \in M : B[m] \in [mail : Mails, uid : 1 .. MaxUid]
    BY DEF Records, Within
  <1>3. IsFiniteSet(M)
    BY FS_Subset DEF BoundsAssumption
  <1> HIDE DEF M, B
  <1>4. IsFiniteSet(batch')
    BY <1>1, <1>3, ImageOf
  <1> QED
    BY <1>1, <1>2, <1>4

LEMMA CursorSet ==
    ASSUME Records, Within, MaxUid \in Nat, batch # {}
    PROVE  HighestFetched \in 0 .. MaxUid
  <1> DEFINE U == {x.uid : x \in batch}
  <1>1. U \in SUBSET (0 .. MaxUid) /\ U # {}
    BY DEF Within
  <1>2. \E u \in U : \A v \in U : v <= u
    BY <1>1, LargestOf
  <1>3. HighestFetched = CHOOSE u \in U : \A v \in U : v <= u
    BY DEF HighestFetched
  <1> HIDE DEF U
  <1>4. HighestFetched \in U
    BY <1>2, <1>3
  <1> QED
    BY <1>1, <1>4

LEMMA WithinStays ==
    ASSUME BoundsAssumption, AccountsAssumption, Records, Counted, Within, [Next]_vars
    PROVE  Within'
  <1> USE DEF queues, loop, history
  <1>r. /\ here \in Folders /\ here' \in Folders /\ \A m \in Mails : place[m].uid \in Nat
        /\ \A r \in rows : r.mail \in Mails /\ r.folder \in Folders
        /\ \A o \in ops : o.mail \in Mails /\ o.to \in Folders \cup {None}
    BY Types DEF Records, Known, RowsOf
  <1>n. Counted' /\ Forward
    BY CountedStays
  <1>b. MaxUid' = MaxUid /\ MaxUid \in Nat
    <2>1. MaxEvents \in Nat /\ MaxEvents' = MaxEvents
      BY <1>n DEF Records, AccountsAssumption, MaxEvents, Forward
    <2> QED
      BY <2>1, FS_CardinalityType DEF MaxUid, BoundsAssumption
  <1>h. ASSUME NEW f \in Folders PROVE next'[f] <= MaxUid + 1
    <2>1. Cardinality(Come') \in Nat /\ Cardinality(Come') <= Cardinality(Mails) /\ Cardinality(Mails) \in Nat
      BY <1>n, ComeCounted
    <2>2. events' \in 0 .. MaxEvents /\ MaxEvents \in Nat
      BY <1>n DEF Records, AccountsAssumption, Counted, Forward, MaxEvents
    <2>3. Cardinality(ops') \in Nat /\ Cardinality(dq') \in Nat
      BY <1>n, FS_CardinalityType DEF Counted
    <2>4. next'[f] + Cardinality(ops') + Cardinality(dq') <= Cardinality(Come') + events' + 1 /\ next'[f] \in Nat
      BY <1>n, Types DEF Counted, Spent, Records
    <2> QED
      BY <2>1, <2>2, <2>3, <2>4 DEF MaxUid
  <1> DEFINE Placed == /\ \A m \in Mails : place'[m].uid <= MaxUid
                       /\ \A m \in Mails : place'[m].folder \in Folders => place'[m].uid >= 1
             Steps == {"fetch", "save", "list", "ask", "prune", "body", "delete", "ops"}
  <1>o. place' = place => Placed
    BY DEF Within
  <1>p. ASSUME NEW m \in Mails, NEW f \in Folders, Put(m, f) PROVE Placed
    <2>1. \A k \in Mails : place'[k] = IF k = m THEN [place[m] EXCEPT !.folder = f, !.uid = next[f]] ELSE place[k]
      BY <1>p DEF Put, Records
    <2>2. /\ [place[m] EXCEPT !.folder = f, !.uid = next[f]].uid = next[f]
          /\ next'[f] = next[f] + 1 /\ next[f] \in Nat /\ next[f] >= 1
      BY <1>p DEF Put, Records, Counted
    <2>3. next[f] <= MaxUid
      BY <1>b, <1>h, <2>2
    <2> QED
      BY <2>1, <2>2, <2>3 DEF Within
  <1>d. ASSUME NEW m \in Mails, place' = [place EXCEPT ![m].del = TRUE] PROVE Placed
    <2>1. \A k \in Mails : place'[k].uid = place[k].uid /\ place'[k].folder = place[k].folder
      BY <1>d DEF Records
    <2> QED
      BY <2>1 DEF Within
  <1>q. ASSUME Placed, cursor' \in [Folders -> 0 .. MaxUid], listed' \subseteq 1 .. MaxUid,
               batch' \subseteq [mail : Mails, uid : 1 .. MaxUid], IsFiniteSet(batch'),
               at' \in Steps, at' = "save" => batch' # {}
        PROVE  Within'
    BY <1>q, <1>b DEF Within
  <1>w. /\ cursor \in [Folders -> 0 .. MaxUid] /\ listed \subseteq 1 .. MaxUid
        /\ batch \subseteq [mail : Mails, uid : 1 .. MaxUid] /\ IsFiniteSet(batch)
        /\ at \in Steps /\ (at = "save" => batch # {})
    BY DEF Within
  <1>g. GoOn => /\ at' \in Steps /\ at' # "save" /\ listed' \subseteq 1 .. MaxUid /\ IsFiniteSet(batch')
                /\ batch' \subseteq [mail : Mails, uid : 1 .. MaxUid]
    BY FS_EmptySet DEF GoOn
  <1>s. UNCHANGED <<cursor, loop>> /\ Placed => Within'
    BY <1>q, <1>w
  <1> HIDE DEF Placed
  <1>1. ASSUME NEW m \in Mails, NEW f \in Folders, Arrive(m, f) \/ OtherMove(m, f) PROVE Within'
    BY <1>1, <1>p, <1>s DEF Arrive, OtherMove
  <1>2. CASE Api
    BY <1>2, <1>o, <1>s DEF Api, Retry, DeleteMirror, DeleteArchive, Move, provider
  <1>3. CASE Fetch
    <2>1. UNCHANGED <<place, cursor, listed>>
      BY <1>3 DEF Fetch, provider
    <2>2. at' \in Steps
      BY <1>3, <1>b, BatchFetched
    <2> QED
      BY <1>3, <1>b, <1>o, <1>q, <1>w, <2>1, <2>2, BatchFetched
  <1>4. CASE Save
    <2>1. HighestFetched \in 0 .. MaxUid
      BY <1>4, <1>b, CursorSet DEF Save, Within
    <2>2. /\ cursor' = [cursor EXCEPT ![here] = HighestFetched] /\ at' = "list"
          /\ UNCHANGED <<place, batch, listed>>
      BY <1>4 DEF Save, provider
    <2>3. cursor' \in [Folders -> 0 .. MaxUid]
      BY <1>w, <2>1, <2>2
    <2> QED
      BY <1>o, <1>q, <1>w, <2>2, <2>3
  <1>5. CASE Skip \/ FolderFails
    BY <1>5, <1>o, <1>q, <1>w, <1>g DEF Skip, FolderFails, provider
  <1>6. CASE List
    <2>1. listed' = {place[m].uid : m \in {m \in Mails : place[m].folder = here}}
      BY <1>6 DEF List
    <2>2. listed' \subseteq 1 .. MaxUid
      BY <1>r, <1>b, <2>1 DEF Within
    <2> QED
      BY <1>6, <1>o, <1>q, <1>w, <2>2 DEF List, provider
  <1>7. CASE \E old \in SUBSET wartende_zeilen : Ask(old)
    BY <1>7, <1>o, <1>q, <1>w DEF Ask, provider
  <1>8. CASE Prune
    <2>1. CASE at' = "body" /\ UNCHANGED <<here, batch, listed>>
      BY <1>8, <1>o, <1>q, <1>w, <2>1 DEF Prune, provider
    <2>2. CASE GoOn
      BY <1>8, <1>o, <1>q, <1>w, <1>g, <2>2 DEF Prune, provider
    <2> QED
      BY <1>8, <2>1, <2>2 DEF Prune
  <1>9. CASE Body
    BY <1>9, <1>o, <1>q, <1>w, <1>g DEF Body, provider
  <1>10. ASSUME NEW r \in rows, BackfillEmails(r) PROVE Within'
    BY <1>10, <1>o, <1>s DEF BackfillEmails, provider
  <1>11. ASSUME NEW q \in dq, RemoveQueued(q) PROVE Within'
    <2>1. Placed
      BY <1>11, <1>o, <1>p, <1>d DEF RemoveQueued, provider, Folders
    <2> QED
      BY <1>11, <1>s, <2>1 DEF RemoveQueued
  <1>12. ASSUME NEW o \in ops, RunOp(o) PROVE Within'
    <2>1. Placed
      BY <1>12, <1>r, <1>o, <1>p, <1>d DEF RunOp, Effect, provider
    <2>2. UNCHANGED <<cursor, at, listed, batch>>
      BY <1>12 DEF RunOp
    <2> QED
      BY <1>q, <1>w, <2>1, <2>2
  <1>13. CASE DeleteDone
    BY <1>13, <1>o, <1>q, <1>w DEF DeleteDone, provider
  <1>14. CASE OpsDone
    <2>1. \A k \in Mails : place'[k].uid = place[k].uid /\ place'[k].folder \in {place[k].folder, "gone"}
      BY <1>14 DEF OpsDone, Records
    <2>2. Placed
      BY <2>1 DEF Placed, Within, Folders
    <2> QED
      BY <1>14, <1>q, <1>w, <2>2 DEF OpsDone
  <1>15. CASE Crash
    BY <1>15, <1>o, <1>q, <1>w, FS_EmptySet DEF Crash, provider
  <1>16. CASE UNCHANGED vars
    BY <1>16, <1>o, <1>s DEF vars, provider
  <1> QED
    BY <1>1, <1>2, <1>3, <1>4, <1>5, <1>6, <1>7, <1>8, <1>9, <1>10, <1>11, <1>12, <1>13, <1>14,
       <1>15, <1>16 DEF Next, Elsewhere, Loop, Sync, Rest

-----------------------------------------------------------------------------
(* A number shifted as often as there are rows is free in the folder       *)
(* (update_folder_from), and there are ids for all mails that no row has   *)
(* (AUTOINCREMENT).                                                        *)
LEMMA FreeNumberFound ==
    ASSUME IsFiniteSet(rows), NEW f, NEW u \in Nat \ {0}
    PROVE  FreeNumber(f, u) \in Nat \ {0}
  <1> DEFINE N == Cardinality(rows)
             C == {u + k * Shift : k \in 0 .. N}
             Free(v) == \A r \in rows : r.folder = f => r.uid # v
             F == {v \in C : Free(v)}
  <1>1. N \in Nat
    BY FS_CardinalityType
  <1>2. \A k \in 0 .. N : k * Shift \in Nat /\ u + k * Shift \in Nat \ {0}
    BY DEF Shift
  <1>3. \A k, j \in 0 .. N : u + k * Shift = u + j * Shift => k = j
    BY DEF Shift
  <1>4. F # {}
    <2> SUFFICES ASSUME F = {} PROVE FALSE
      OBVIOUS
    <2> DEFINE G == [k \in 0 .. N |-> CHOOSE r \in rows : r.folder = f /\ r.uid = u + k * Shift]
    <2>1. ASSUME NEW k \in 0 .. N PROVE G[k] \in rows /\ G[k].uid = u + k * Shift
      <3>1. u + k * Shift \in C
        OBVIOUS
      <3>2. \E r \in rows : r.folder = f /\ r.uid = u + k * Shift
        BY <3>1
      <3> QED
        BY <3>2
    <2>2. G \in [0 .. N -> rows]
      BY <2>1
    <2>3. IsFiniteSet(0 .. N) /\ Cardinality(0 .. N) = N + 1
      BY <1>1, FS_Interval
    <2> HIDE DEF G
    <2>4. PICK k \in 0 .. N, j \in 0 .. N : k # j /\ G[k] = G[j]
      <3>1. Cardinality(rows) < Cardinality(0 .. N)
        BY <1>1, <2>3
      <3> DEFINE S == 0 .. N
      <3>2. IsFiniteSet(S) /\ Cardinality(rows) < Cardinality(S) /\ G \in [S -> rows]
        BY <2>2, <2>3, <3>1
      <3> HIDE DEF S
      <3>3. \E k, j \in S : k # j /\ G[k] = G[j]
        BY <3>2, FS_PigeonHole
      <3> QED
        BY <3>3 DEF S
    <2> QED
      BY <1>3, <2>1, <2>4
  <1>5. F \in SUBSET Nat
    BY <1>2
  <1>6. \E v \in F : \A w \in F : v <= w
    BY <1>4, <1>5, SmallestOf
  <1>7. FreeNumber(f, u) = CHOOSE v \in C : Free(v) /\ \A w \in C : Free(w) => v <= w
    BY DEF FreeNumber
  <1>8. \E v \in C : Free(v) /\ \A w \in C : Free(w) => v <= w
    BY <1>6
  <1> HIDE DEF Free
  <1>9. FreeNumber(f, u) \in C
    BY <1>7, <1>8
  <1> QED
    BY <1>2, <1>9

LEMMA NewIdsFound ==
    ASSUME BoundsAssumption, IsFiniteSet(rows)
    PROVE  \A m \in Mails : NewId[m] \in Nat \ {0}
  <1> DEFINE N == Cardinality(rows) + Cardinality(Mails)
             Used == {r.id : r \in rows}
             F == (1 .. N) \ Used
             n == Cardinality(Mails)
  <1>1. Cardinality(rows) \in Nat /\ n \in Nat /\ N \in Nat /\ IsFiniteSet(Mails)
    BY FS_CardinalityType DEF BoundsAssumption
  <1>2. IsFiniteSet(F) /\ Cardinality(F) \in Nat /\ Cardinality(F) >= n
    <2>1. IsFiniteSet(1 .. N) /\ Cardinality(1 .. N) = N
      BY <1>1, FS_Interval
    <2>2. IsFiniteSet(Used) /\ Cardinality(Used) <= Cardinality(rows)
      <3> DEFINE g == [r \in rows |-> r.id]
      <3>1. Used = {g[r] : r \in rows}
        OBVIOUS
      <3> QED
        BY <3>1, ImageOf
    <2>3. /\ Cardinality((1 .. N) \cap Used) <= Cardinality(Used) /\ Cardinality((1 .. N) \cap Used) \in Nat
          /\ Cardinality(Used) \in Nat
      BY <2>2, SmallerSet
    <2>4. IsFiniteSet(F) /\ Cardinality(F) = Cardinality(1 .. N) - Cardinality((1 .. N) \cap Used)
      BY <2>1, FS_Difference
    <2>5. Cardinality(F) \in Nat
      BY <2>4, FS_CardinalityType
    <2> HIDE DEF Used, F
    <2> QED
      BY <1>1, <2>1, <2>2, <2>3, <2>4, <2>5
  <1>3. PICK h \in Bijection(1 .. Cardinality(F), F) : TRUE
    BY <1>2, FS_CardinalityType DEF ExistsBijection
  <1>4. PICK g \in Bijection(1 .. n, Mails) : TRUE
    BY <1>1, FS_CardinalityType DEF ExistsBijection
  <1> HIDE DEF F, n
  <1>5. \A i, j \in 1 .. n : /\ i \in 1 .. Cardinality(F) /\ h[i] \in F /\ (h[i] = h[j] => i = j)
    <2>1. \A i \in 1 .. n : i \in 1 .. Cardinality(F)
      BY <1>1, <1>2
    <2> QED
      BY <1>3, <2>1 DEF Bijection, Injection, IsInjective
  <1> DEFINE At(m) == CHOOSE i \in 1 .. n : g[i] = m
  <1>6. \A m \in Mails : At(m) \in 1 .. n /\ g[At(m)] = m
    BY <1>4 DEF Bijection, Surjection
  <1> DEFINE Id == [m \in Mails |-> h[At(m)]]
             Good(id) == /\ \A m, k \in Mails : id[m] = id[k] => m = k
                         /\ \A r \in rows, m \in Mails : id[m] # r.id
  <1> HIDE DEF At
  <1>7. Id \in [Mails -> 1 .. N] /\ Good(Id)
    BY <1>5, <1>6 DEF F
  <1>8. NewId = CHOOSE id \in [Mails -> 1 .. N] : Good(id)
    BY DEF NewId
  <1> HIDE DEF Id, Good, N
  <1>9. NewId \in [Mails -> 1 .. N]
    BY <1>7, <1>8
  <1>10. N \in Nat
    BY <1>1 DEF N, n
  <1> QED
    BY <1>9, <1>10

(* A row stays one with another number or another file. *)
LEMMA MovedRow ==
    ASSUME Filled, NEW r \in rows, NEW f \in Folders
    PROVE  Moved(r, f) \in Row
  <1>1. r \in Row /\ FreeNumber(f, r.uid) \in Nat \ {0}
    <2>1. r \in Row /\ r.uid \in Nat \ {0} /\ IsFiniteSet(rows)
      BY DEF Filled, Row
    <2> QED
      BY <2>1, FreeNumberFound
  <1> QED
    BY <1>1 DEF Moved, Row

LEMMA ArchivedRow ==
    ASSUME NEW r \in Row, NEW e \in Mails \cup {None}
    PROVE  [r EXCEPT !.eml = e] \in Row
  BY DEF Row

(* A batch saved: each of its mails has a row. *)
LEMMA SavedRows ==
    ASSUME BoundsAssumption, Records, Within, Filled, MaxUid \in Nat
    PROVE  save_message \subseteq Row /\ IsFiniteSet(save_message)
  <1>1. \A x \in Saved : x.mail \in Mails /\ x.uid \in Nat \ {0} /\ x \in batch
    BY DEF Saved, Within
  <1>2. ASSUME NEW x \in Saved PROVE SavedRow(x) \in Row
    <2>1. here \in Folders /\ x.mail \in Mails /\ x.uid \in Nat \ {0}
      BY <1>1 DEF Records
    <2>2. CASE OldRow(x) = {}
      <3>1. NewId[x.mail] \in Nat \ {0}
        BY <2>1, NewIdsFound DEF Filled
      <3> QED
        BY <2>1, <2>2, <3>1 DEF SavedRow, Row
    <2>3. CASE OldRow(x) # {}
      <3>1. PICK r \in OldRow(x) : SavedRow(x) = [r EXCEPT !.mail = x.mail, !.synced = TRUE]
        BY <2>3 DEF SavedRow
      <3>2. r \in Row
        BY DEF OldRow, Filled
      <3> QED
        BY <2>1, <3>1, <3>2 DEF Row
    <2> QED
      BY <2>2, <2>3
  <1> DEFINE S == [x \in Saved |-> SavedRow(x)]
             Untouched == {r \in rows : \A x \in Saved : /\ ~GivesWay(r, x)
                                                         /\ r.folder = here => r.uid # x.uid}
             New == {SavedRow(x) : x \in Saved}
  <1>3. New = {S[x] : x \in Saved}
    OBVIOUS
  <1>4. IsFiniteSet(Saved)
    BY FS_Subset DEF Saved, Within
  <1>5. IsFiniteSet(New)
    <2> HIDE DEF S, New
    <2> QED
      BY <1>3, <1>4, ImageOf
  <1>6. IsFiniteSet(Untouched) /\ Untouched \subseteq rows
    BY FS_Subset DEF Filled
  <1>7. save_message = Untouched \cup New
    BY DEF save_message
  <1>8. New \subseteq Row
    BY <1>2
  <1> HIDE DEF Untouched, New
  <1> QED
    BY <1>5, <1>6, <1>7, <1>8, FS_Union DEF Filled

(* Rows whose file is noted are as many rows. *)
LEMMA ArchivedRows ==
    ASSUME Filled, NEW e, \A r \in rows : e[r] \in Mails \cup {None, r.eml},
           rows' = {[r EXCEPT !.eml = e[r]] : r \in rows}
    PROVE  rows' \subseteq Row /\ IsFiniteSet(rows')
  <1> DEFINE A == [r \in rows |-> [r EXCEPT !.eml = e[r]]]
  <1>1. rows' = {A[r] : r \in rows} /\ IsFiniteSet(rows)
    BY DEF Filled
  <1>2. ASSUME NEW r \in rows PROVE [r EXCEPT !.eml = e[r]] \in Row
    <2>1. r \in Row /\ r.eml \in Mails \cup {None}
      BY DEF Filled, Row
    <2> QED
      BY <2>1, ArchivedRow
  <1> HIDE DEF A
  <1>3. IsFiniteSet(rows')
    BY <1>1, ImageOf
  <1> QED
    BY <1>2, <1>3

LEMMA RowAsItIs == ASSUME Filled, NEW r \in rows PROVE [r EXCEPT !.eml = r.eml] = r
  BY DEF Filled, Row

LEMMA FilledStays ==
    ASSUME BoundsAssumption, AccountsAssumption, Records, Counted, Within, Filled, [Next]_vars
    PROVE  Filled'
  <1> USE DEF queues, loop, history
  <1> DEFINE Q(n) == [id : 1 .. n, row : Nat \ {0}, folder : Folders, uid : Nat \ {0}]
  <1>r. /\ rows \subseteq Row /\ IsFiniteSet(rows) /\ waiting \subseteq Nat \ {0} /\ events \in Nat
        /\ dq \subseteq Q(events) /\ "Trash" \in Folders
    BY DEF Filled, Records, Folders
  <1>b. MaxUid \in Nat
    <2>1. MaxEvents \in Nat
      BY DEF Records, AccountsAssumption, MaxEvents
    <2> QED
      BY <2>1, FS_CardinalityType DEF MaxUid, BoundsAssumption
  <1>e. Event => events' = events + 1
    BY DEF Event
  <1>k. ASSUME events' \in {events, events + 1} PROVE dq \subseteq Q(events')
    BY <1>r, <1>k
  <1>q. rows' \subseteq Row /\ IsFiniteSet(rows') /\ waiting' \subseteq Nat \ {0} /\ dq' \subseteq Q(events') => Filled'
    BY DEF Filled
  <1> DEFINE Fewer == rows' \subseteq Row /\ IsFiniteSet(rows') /\ dq' \subseteq dq
  <1>s. ASSUME Fewer, waiting' \subseteq Nat \ {0}, events' \in {events, events + 1} PROVE Filled'
    BY <1>s, <1>k, <1>q
  <1> HIDE DEF Q
  <1>x. UNCHANGED <<rows, dq>> => Fewer
    BY <1>r
  <1>w. ASSUME NEW R, Without(R) PROVE Fewer
    <2>1. rows' \subseteq rows /\ dq' \subseteq dq
      BY <1>w DEF Without
    <2> QED
      BY <1>r, <2>1, FS_Subset
  <1>m. ASSUME NEW r \in rows, NEW f \in Folders, rows' = (rows \ {r}) \cup {Moved(r, f)}
        PROVE  rows' \subseteq Row /\ IsFiniteSet(rows')
    <2>1. Moved(r, f) \in Row /\ IsFiniteSet(rows \ {r})
      BY <1>r, MovedRow, OneLess
    <2>2. IsFiniteSet((rows \ {r}) \cup {Moved(r, f)})
      BY <2>1, OneMore
    <2> QED
      BY <1>m, <1>r, <2>1, <2>2
  <1>u. ASSUME NEW r \in rows, NEW f \in Folders, update_folder_from(r, f) PROVE Fewer
    BY <1>u, <1>w, <1>m DEF update_folder_from
  <1>g. GoOn => waiting' = {}
    BY DEF GoOn
  <1> HIDE DEF Fewer
  <1>1. CASE Elsewhere
    BY <1>1, <1>r, <1>e, <1>x, <1>s DEF Elsewhere, Arrive, OtherMove
  <1>2. CASE Retry
    BY <1>2, <1>r, <1>e, <1>x, <1>s DEF Retry
  <1>3. ASSUME NEW r \in rows, NEW f \in Folders, Move(r, f) PROVE Filled'
    BY <1>3, <1>r, <1>e, <1>u, <1>s DEF Move
  <1>4. ASSUME NEW r \in rows, DeleteMirror(r) PROVE Filled'
    BY <1>4, <1>r, <1>e, <1>u, <1>w, <1>s DEF DeleteMirror
  <1>5. ASSUME NEW r \in rows, DeleteArchive(r) PROVE Filled'
    <2>1. CASE InTarget(r, "Trash")
      BY <1>5, <1>r, <1>e, <1>w, <1>s, <2>1 DEF DeleteArchive
    <2>2. CASE ~InTarget(r, "Trash")
      <3> DEFINE q == [id |-> events', row |-> r.id, folder |-> r.folder, uid |-> r.uid]
      <3>1. /\ rows' = (rows \ {r}) \cup {Moved(r, "Trash")} /\ dq' = dq \cup {q}
            /\ events' = events + 1 /\ waiting' = waiting
        BY <1>5, <1>e, <2>2 DEF DeleteArchive
      <3>2. r \in Row
        BY <1>r
      <3>3. q \in Q(events')
        BY <1>r, <3>1, <3>2 DEF Q, Row
      <3> HIDE DEF q
      <3> QED
        BY <1>r, <1>m, <1>k, <1>q, <3>1, <3>3
    <2> QED
      BY <2>1, <2>2
  <1>6. CASE Save
    <2>1. rows' \subseteq Row /\ IsFiniteSet(rows')
      BY <1>6, <1>b, SavedRows DEF Save
    <2>2. dq' \subseteq dq /\ UNCHANGED <<waiting, events>>
      BY <1>6 DEF Save
    <2> QED
      BY <1>r, <1>s, <2>1, <2>2 DEF Fewer
  <1>7. CASE Fetch \/ List \/ DeleteDone \/ OpsDone
    BY <1>7, <1>r, <1>x, <1>s DEF Fetch, List, DeleteDone, OpsDone
  <1>8. CASE Skip \/ FolderFails \/ Crash
    BY <1>8, <1>r, <1>e, <1>g, <1>x, <1>s DEF Skip, FolderFails, Crash
  <1>9. ASSUME NEW old \in SUBSET wartende_zeilen, Ask(old) PROVE Filled'
    <2>1. waiting' \subseteq Nat \ {0}
      BY <1>9, <1>r DEF Ask, wartende_zeilen, Row
    <2> QED
      BY <1>9, <1>x, <1>s, <2>1 DEF Ask
  <1>10. CASE Prune
    BY <1>10, <1>r, <1>g, <1>w, <1>s DEF Prune
  <1>11. CASE Body
    <2> DEFINE C(r) == /\ r.folder = "INBOX"
                       /\ \E x \in batch : /\ x.uid = r.uid /\ place[x.mail].uid = r.uid
                                           /\ place[x.mail].folder = "INBOX"
               M(r) == (CHOOSE x \in batch : x.uid = r.uid).mail
               e == [r \in rows |-> IF C(r) THEN M(r) ELSE r.eml]
    <2>1. rows' = {IF C(r) THEN [r EXCEPT !.eml = M(r)] ELSE r : r \in rows}
      BY <1>11 DEF Body
    <2>2. ASSUME NEW r \in rows, C(r) PROVE M(r) \in Mails
      BY <2>2 DEF Within
    <2> HIDE DEF C, M
    <2>3. \A r \in rows : e[r] \in Mails \cup {None, r.eml}
      BY <2>2
    <2>4. \A r \in rows : (IF C(r) THEN [r EXCEPT !.eml = M(r)] ELSE r) = [r EXCEPT !.eml = e[r]]
      BY RowAsItIs
    <2> HIDE DEF e
    <2>5. rows' = {[r EXCEPT !.eml = e[r]] : r \in rows}
      BY <2>1, <2>4
    <2>6. rows' \subseteq Row /\ IsFiniteSet(rows')
      BY <2>3, <2>5, ArchivedRows
    <2> QED
      BY <1>11, <1>r, <1>g, <1>s, <2>6 DEF Body, Fewer
  <1>12. ASSUME NEW r \in rows, BackfillEmails(r) PROVE Filled'
    <2>1. PICK m \in Mails : rows' = {IF s.uid = r.uid THEN [s EXCEPT !.eml = m] ELSE s : s \in rows}
      BY <1>12 DEF BackfillEmails
    <2> DEFINE e == [s \in rows |-> IF s.uid = r.uid THEN m ELSE s.eml]
               Noted(s) == IF s.uid = r.uid THEN [s EXCEPT !.eml = m] ELSE s
    <2>2. \A s \in rows : e[s] \in Mails \cup {None, s.eml}
      OBVIOUS
    <2>3. \A s \in rows : Noted(s) = [s EXCEPT !.eml = e[s]]
      BY RowAsItIs
    <2>6. rows' = {Noted(s) : s \in rows}
      BY <2>1
    <2> HIDE DEF e, Noted
    <2>4. rows' = {[s EXCEPT !.eml = e[s]] : s \in rows}
      BY <2>3, <2>6
    <2>5. rows' \subseteq Row /\ IsFiniteSet(rows')
      BY <2>2, <2>4, ArchivedRows
    <2> QED
      BY <1>12, <1>r, <1>e, <1>s, <2>5 DEF BackfillEmails, Fewer
  <1>13. ASSUME NEW q \in dq, RemoveQueued(q) PROVE Filled'
    <2>1. rows' = rows /\ dq' \subseteq dq /\ waiting' = waiting /\ events' = events
      BY <1>13 DEF RemoveQueued
    <2> QED
      BY <1>r, <1>s, <2>1 DEF Fewer
  <1>14. ASSUME NEW o \in ops, RunOp(o) PROVE Filled'
    BY <1>14, <1>r, <1>e, <1>x, <1>s DEF RunOp
  <1>15. CASE UNCHANGED vars
    BY <1>15, <1>r, <1>x, <1>s DEF vars
  <1> QED
    BY <1>1, <1>2, <1>3, <1>4, <1>5, <1>6, <1>7, <1>8, <1>9, <1>10, <1>11, <1>12, <1>13, <1>14,
       <1>15 DEF Next, Api, Loop, Sync, Rest

(* Type correctness (TypeOK): the numbers, ids, attempts, files and steps  *)
(* of index, queues, provider and loop are what they may be; no op is      *)
(* tried more often than it may be (provider_ops), no number is beyond     *)
(* what mails and events account for.                                      *)
THEOREM TypeCorrect == ASSUME AccountsAssumption, BoundsAssumption PROVE Spec => []TypeOK
  <1> DEFINE IInv == Records /\ Counted /\ Numbered /\ Within /\ Filled
  <1>1. Init => IInv
    <2> SUFFICES ASSUME Init PROVE IInv
      OBVIOUS
    <2>1. Come = {}
      BY DEF Init, Come
    <2>2. Cardinality({}) = 0 /\ IsFiniteSet({})
      BY FS_EmptySet
    <2>3. account.events \in Nat /\ Cardinality(Mails) \in Nat
      BY FS_CardinalityType DEF Init, AccountsAssumption, BoundsAssumption
    <2>4. Counted
      BY <2>1, <2>2, <2>3 DEF Init, Counted, Spent, MaxEvents
    <2>5. Within
      BY <2>2, <2>3 DEF Init, Within, MaxUid, MaxEvents, Folders
    <2>6. Numbered /\ Filled
      BY <2>2 DEF Init, Numbered, Filled
    <2> QED
      BY <2>4, <2>5, <2>6, RecordsAtFirst
  <1>2. IInv /\ [Next]_vars => IInv'
    BY Types, CountedStays, NumberedStays, WithinStays, FilledStays
  <1>3. IInv => TypeOK
    <2> SUFFICES ASSUME IInv PROVE TypeOK
      OBVIOUS
    <2>1. MaxEvents \in Nat /\ events <= MaxEvents /\ events \in Nat /\ Cardinality(Mails) \in Nat
      BY FS_CardinalityType DEF Counted, Records, AccountsAssumption, BoundsAssumption, MaxEvents
    <2>2. ASSUME NEW f \in Folders PROVE next[f] \in 1 .. MaxUid + 1
      <3>1. Cardinality(ops) \in Nat /\ Cardinality(dq) \in Nat
        BY FS_CardinalityType DEF Counted
      <3>2. Cardinality(Come) \in Nat /\ Cardinality(Come) <= Cardinality(Mails)
        <4>1. Come \subseteq Mails /\ IsFiniteSet(Mails)
          BY DEF Come, BoundsAssumption
        <4> QED
          BY <4>1, SmallerSet
      <3>3. next[f] \in Nat /\ next[f] >= 1 /\ next[f] + Cardinality(ops) + Cardinality(dq) <= Spent
        BY DEF Records, Counted
      <3> QED
        BY <2>1, <3>1, <3>2, <3>3 DEF Spent, MaxUid
    <2>3. next \in [Folders -> 1 .. MaxUid + 1]
      BY <2>2 DEF Records
    <2>4. ops \subseteq Op
      BY <2>1 DEF Records, Numbered, Op
    <2>5. dq \subseteq QueueRow /\ todo \subseteq 1 .. MaxEvents
      BY <2>1 DEF Filled, Numbered, QueueRow
    <2>6. place \in [Mails -> Place]
      <3>1. MaxUid \in Nat
        BY <2>1 DEF MaxUid
      <3>2. \A m \in Mails : place[m] \in Place
        BY <3>1 DEF Records, Within, Place
      <3> QED
        BY <3>2 DEF Records
    <2> QED
      BY <2>3, <2>4, <2>5, <2>6 DEF Records, Numbered, Within, Filled, TypeOK
  <1> QED
    BY <1>1, <1>2, <1>3, PTL DEF Spec

=============================================================================
