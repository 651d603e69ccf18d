---------------------------- MODULE AgendaProofs ----------------------------
(***************************************************************************)
(* What calendars, contacts, tasks, invitations, meetings and the sign-in  *)
(* at Google keep true: the inductive invariant of each holds at first and *)
(* every step keeps it, for any entries, requests, synchronisations and    *)
(* bounds.                                                                 *)
(***************************************************************************)
EXTENDS Agenda, TLAPS

-----------------------------------------------------------------------------
(***************************************************************************)
(* Contacts: what a run of the CardDAV synchronisation will not read any   *)
(* more is shown as it is (dav/scheduler.rs).                              *)
(***************************************************************************)
ContactsNumbers == 0 .. MaxEdits
ContactsSyncType == [step : Co!Steps, since : ContactsNumbers, full : BOOLEAN, todo : SUBSET Entries,
                     got : [Entries -> ContactsNumbers], dead : SUBSET Entries,
                     next : ContactsNumbers, old : BOOLEAN]
ContactsRequestType == [step : {"none", "put", "store", "delete", "drop"}, who : Entries, put : ContactsNumbers]

(* Numbers are the past's: nobody has a change that is still to come, nor  *)
(* of a contact that is there a later one than the provider's; who is to   *)
(* go is gone, or came back later.                                         *)
ContactsEarly(s) == /\ s.since <= clock /\ s.next <= clock
                    /\ \A p \in Entries : s.got[p] <= clock /\ (book[p] # 0 => s.got[p] <= book[p])
                    /\ s.step = "remove" \/ (s.step = "cards" /\ ~s.full) =>
                          \A p \in s.dead : book[p] = 0 \/ book[p] > s.next
ContactsPast == /\ token <= clock /\ \A r \in Runs : ContactsEarly(sync[r])
                /\ \A p \in Entries : /\ book[p] <= clock /\ row[p] <= clock
                                      /\ book[p] # 0 => row[p] <= book[p]
ContactsRequested == request.put <= clock /\ (book[request.who] # 0 => request.put <= book[request.who])

(* A contact is shown as it is, or about to be. *)
ContactsShown(p) == \/ row[p] = book[p]
                    \/ \E r \in Runs : sync[r].step = "save" /\ sync[r].got[p] = book[p]
                    \/ request.step = "store" /\ request.who = p /\ request.put = book[p]
ContactsCovered == \A p \in Entries \ excused : book[p] \in 1 .. token => ContactsShown(p)
(* What a synchronisation has read so far. *)
ContactsReads(s, X) == \A p \in Entries \ X :
    /\ s.step = "list" /\ ~s.full /\ book[p] \in 1 .. s.since => ContactsShown(p)
    /\ s.step = "cards" /\ s.full /\ book[p] # 0 => p \in s.todo \/ s.got[p] = book[p]
    /\ s.step = "ask token" /\ book[p] # 0 => s.got[p] = book[p]
    /\ s.step = "cards" /\ ~s.full /\ book[p] \in 1 .. s.next => p \in s.todo \/ s.got[p] = book[p] \/ ContactsShown(p)
    /\ s.step \in {"remove", "token"} /\ book[p] \in 1 .. s.next => s.got[p] = book[p] \/ ContactsShown(p)
ContactsReading_ == \A r \in Runs : /\ sync[r].old \/ ContactsReads(sync[r], excused)
                                    /\ sync[r].step = "ask token" => sync[r].full
ContactsInv == Co!TypeOK /\ ContactsPast /\ ContactsRequested /\ ContactsCovered /\ ContactsReading_

LEMMA ContactsSimple ==
    ASSUME Co!ContactsAssumption
    PROVE  /\ MaxEdits \in Nat /\ 0 \in ContactsNumbers
           /\ Co!Nobody \in [Entries -> ContactsNumbers] /\ \A p \in Entries : Co!Nobody[p] = 0
           /\ Co!Idle \in ContactsSyncType /\ Co!Idle.step = "idle" /\ Co!Idle.since = 0
           /\ Co!Idle.next = 0 /\ Co!Idle.got = Co!Nobody
           /\ Co!NoRequest \in ContactsRequestType /\ Co!NoRequest.step = "none"
           /\ Co!NoRequest.put = 0 /\ Co!NoRequest.who \in Entries
  <1>1. /\ MaxEdits \in Nat /\ 0 \in ContactsNumbers
        /\ Co!Nobody \in [Entries -> ContactsNumbers] /\ \A p \in Entries : Co!Nobody[p] = 0
    BY DEF Co!ContactsAssumption, ContactsNumbers, Co!Nobody
  <1>2. (CHOOSE p \in Entries : TRUE) \in Entries
    BY DEF Co!ContactsAssumption
  <1> QED
    BY <1>1, <1>2 DEF Co!Idle, ContactsSyncType, Co!Steps, Co!NoRequest, ContactsRequestType

LEMMA ContactsTyped ==
    ASSUME Co!TypeOK
    PROVE  /\ book \in [Entries -> ContactsNumbers] /\ removed \in [Entries -> ContactsNumbers]
           /\ clock \in ContactsNumbers
           /\ several \in BOOLEAN /\ on \in BOOLEAN
           /\ token \in ContactsNumbers /\ row \in [Entries -> ContactsNumbers]
           /\ sync \in [Runs -> ContactsSyncType]
           /\ request \in ContactsRequestType /\ excused \subseteq Entries
           /\ errors \in 0 .. MaxErrors
           /\ switches \in 0 .. MaxBooks
  BY DEF Co!TypeOK, ContactsNumbers, ContactsSyncType, ContactsRequestType

LEMMA ContactsWhole ==
    Co!TypeOK' <=> /\ book' \in [Entries -> ContactsNumbers] /\ removed' \in [Entries -> ContactsNumbers]
                   /\ clock' \in ContactsNumbers /\ several' \in BOOLEAN /\ on' \in BOOLEAN
                   /\ token' \in ContactsNumbers /\ row' \in [Entries -> ContactsNumbers]
                   /\ sync' \in [Runs -> ContactsSyncType]
                   /\ request' \in ContactsRequestType /\ excused' \subseteq Entries
                   /\ errors' \in 0 .. MaxErrors
                   /\ switches' \in 0 .. MaxBooks
  BY DEF Co!TypeOK, ContactsNumbers, ContactsSyncType, ContactsRequestType

LEMMA ContactsAmounts ==
    ASSUME Co!ContactsAssumption, Co!TypeOK
    PROVE  /\ clock \in Nat /\ clock <= clock /\ token \in Nat /\ request.put \in Nat
           /\ \A p \in Entries : book[p] \in Nat /\ row[p] \in Nat
           /\ \A r \in Runs : sync[r].since \in Nat /\ sync[r].next \in Nat /\ \A p \in Entries : sync[r].got[p] \in Nat
           /\ errors \in Nat /\ switches \in Nat
           /\ Co!Fails => errors' \in 0 .. MaxErrors
  BY ContactsTyped DEF ContactsNumbers, ContactsSyncType, ContactsRequestType, Co!Fails,
     Co!ContactsAssumption

LEMMA ContactsInitially == ASSUME Co!ContactsAssumption PROVE Co!Init => ContactsInv
  <1> SUFFICES ASSUME Co!Init PROVE ContactsInv
    OBVIOUS
  <1>1. Co!TypeOK
    <2>1. 0 \in 0 .. MaxErrors /\ 0 \in 0 .. MaxBooks
      BY DEF Co!ContactsAssumption
    <2> QED
      BY <2>1, ContactsSimple DEF Co!Init, Co!TypeOK, ContactsSyncType, ContactsRequestType,
         ContactsNumbers
  <1>2. ContactsPast /\ ContactsRequested
    BY ContactsSimple DEF Co!Init, ContactsPast, ContactsEarly, ContactsRequested
  <1>3. ContactsCovered
    BY ContactsSimple DEF Co!Init, ContactsCovered, ContactsShown
  <1>4. ContactsReading_
    BY ContactsSimple DEF Co!Init, ContactsReading_, ContactsReads
  <1> QED
    BY <1>1, <1>2, <1>3, <1>4 DEF ContactsInv

(* What is shown stays so: contacts are excused or as they were, or they   *)
(* were changed just now while nobody read everything.                     *)
ContactsSteady == /\ excused \subseteq excused' /\ clock <= clock'
                  /\ \A p \in Entries \ excused' : \/ book'[p] = book[p] /\ (ContactsShown(p) => ContactsShown(p)')
                                                   \/ book'[p] \in {0, clock + 1} /\ Co!Reading = {}

LEMMA ContactsCarry ==
    ASSUME Co!ContactsAssumption, ContactsInv, ContactsSteady
    PROVE  /\ token' = token => ContactsCovered'
           /\ \A r \in Runs : sync'[r] = sync[r] => /\ sync[r].old \/ ContactsReads(sync[r], excused)'
                                                    /\ sync'[r].step = "ask token" => sync'[r].full
  <1>1. /\ token \in Nat /\ token <= clock /\ clock \in Nat /\ \A p \in Entries : book[p] \in Nat
        /\ \A r \in Runs : sync[r].since \in Nat /\ sync[r].next \in Nat /\ sync[r].since <= clock /\ sync[r].next <= clock
    BY ContactsAmounts DEF ContactsInv, ContactsPast, ContactsEarly
  <1>2. ASSUME token' = token PROVE ContactsCovered'
    BY <1>1, <1>2 DEF ContactsSteady, ContactsInv, ContactsCovered
  <1>3. ASSUME NEW r \in Runs, ~sync[r].old
        PROVE  ContactsReads(sync[r], excused)'  \/ sync'[r] # sync[r]
    <2> SUFFICES ASSUME sync'[r] = sync[r], NEW p \in Entries \ excused'
                 PROVE  /\ sync[r].step = "list" /\ ~sync[r].full /\ book'[p] \in 1 .. sync[r].since => ContactsShown(p)'
                        /\ sync[r].step = "cards" /\ sync[r].full /\ book'[p] # 0 => p \in sync[r].todo \/ sync[r].got[p] = book'[p]
                        /\ sync[r].step = "ask token" /\ book'[p] # 0 => sync[r].got[p] = book'[p]
                        /\ sync[r].step = "cards" /\ ~sync[r].full /\ book'[p] \in 1 .. sync[r].next =>
                               p \in sync[r].todo \/ sync[r].got[p] = book'[p] \/ ContactsShown(p)'
                        /\ sync[r].step \in {"remove", "token"} /\ book'[p] \in 1 .. sync[r].next => sync[r].got[p] = book'[p] \/ ContactsShown(p)'
      BY DEF ContactsReads
    <2>1. CASE book'[p] = book[p] /\ (ContactsShown(p) => ContactsShown(p)')
      BY <1>3, <2>1 DEF ContactsInv, ContactsReading_, ContactsReads, ContactsSteady
    <2>2. CASE book'[p] \in {0, clock + 1} /\ Co!Reading = {}
      <3>1. /\ ~(sync[r].full /\ sync[r].step \in {"cards", "ask token"})
            /\ sync[r].step = "ask token" => sync[r].full
        BY <2>2 DEF Co!Reading, ContactsInv, ContactsReading_
      <3>2. ~(book'[p] \in 1 .. sync[r].since) /\ ~(book'[p] \in 1 .. sync[r].next)
        BY <1>1, <2>2
      <3> QED
        BY <3>1, <3>2
    <2> QED
      BY <2>1, <2>2 DEF ContactsSteady
  <1> QED
    BY <1>2, <1>3 DEF ContactsInv, ContactsReading_, ContactsReads

LEMMA ContactsSetSync ==
    ASSUME Co!TypeOK, NEW r \in Runs, NEW new \in ContactsSyncType, Co!Step(r, new)
    PROVE  /\ sync' \in [Runs -> ContactsSyncType] /\ sync'[r] = new
           /\ \A q \in Runs \ {r} : sync'[q] = sync[q]
  BY ContactsTyped DEF Co!Step

(* A synchronisation goes on, and nothing else happens. *)
LEMMA ContactsAdvance ==
    ASSUME Co!ContactsAssumption, ContactsInv, NEW r \in Runs, NEW new \in ContactsSyncType,
           Co!Step(r, new), ContactsEarly(new),
           UNCHANGED <<Co!provider, on, token, row, request, switches>>, excused \subseteq excused', excused' \subseteq Entries,
           errors' \in 0 .. MaxErrors, sync[r].step # "save", new.old \/ ContactsReads(new, excused'),
           new.step = "ask token" => new.full
    PROVE  ContactsInv'
  <1>1. /\ sync' \in [Runs -> ContactsSyncType] /\ sync'[r] = new
        /\ \A q \in Runs \ {r} : sync'[q] = sync[q]
    BY ContactsSetSync DEF ContactsInv
  <1>2. \A p \in Entries : ContactsShown(p) => ContactsShown(p)'
    BY <1>1 DEF ContactsShown, Co!provider
  <1>3. ContactsSteady
    <2>1. book' = book /\ clock' = clock
      BY DEF Co!provider
    <2>2. clock <= clock
      BY ContactsAmounts DEF ContactsInv
    <2> QED
      <3>1. clock <= clock'
        BY <2>1, <2>2, Zenon
      <3>2. \A p \in Entries \ excused' : book'[p] = book[p] /\ (ContactsShown(p) => ContactsShown(p)')
        BY <1>2, <2>1
      <3> QED
        BY <3>1, <3>2 DEF ContactsSteady
  <1>4. Co!TypeOK'
    BY <1>1, ContactsTyped, ContactsWhole DEF ContactsInv, Co!provider
  <1>5. ContactsPast' /\ ContactsRequested'
    BY <1>1 DEF ContactsInv, ContactsPast, ContactsEarly, ContactsRequested, Co!provider
  <1>6. new.old \/ ContactsReads(sync[r], excused)'
    BY <1>1, <1>2 DEF ContactsReads, Co!provider
  <1>7. ContactsReading_'
    BY <1>1, <1>3, <1>6, ContactsCarry DEF ContactsReading_
  <1> QED
    BY <1>3, <1>4, <1>5, <1>7, ContactsCarry DEF ContactsInv

(* A change at the provider, and what a request makes of it. *)
LEMMA ContactsChanging ==
    ASSUME Co!ContactsAssumption, ContactsInv, NEW p \in Entries, NEW present \in BOOLEAN,
           Co!Change(p, present), UNCHANGED <<on, token, row, sync, switches>>,
           request' \in ContactsRequestType, request.step = "store" => request' = request, errors' \in 0 .. MaxErrors, ContactsRequested'
    PROVE  ContactsInv'
  <1>1. /\ clock \in Nat /\ clock < MaxEdits /\ clock' = clock + 1 /\ UNCHANGED several
        /\ MaxEdits \in Nat
        /\ book' = [book EXCEPT ![p] = IF present THEN clock + 1 ELSE 0]
        /\ removed' = [removed EXCEPT ![p] = IF present THEN @ ELSE clock + 1]
        /\ excused' = (IF Co!Reading = {} THEN excused ELSE excused \cup {p})
    BY ContactsAmounts, ContactsSimple DEF Co!Change, Co!Room, ContactsInv
  <1>2. clock + 1 \in ContactsNumbers /\ 0 \in ContactsNumbers
    BY <1>1 DEF ContactsNumbers
  <1>3. /\ book' \in [Entries -> ContactsNumbers] /\ book'[p] \in {0, clock + 1}
        /\ \A q \in Entries \ {p} : book'[q] = book[q]
        /\ removed' \in [Entries -> ContactsNumbers]
    BY <1>1, <1>2, ContactsTyped DEF ContactsInv
  <1>4. \A q \in Entries \ {p} : ContactsShown(q) => ContactsShown(q)'
    BY <1>3 DEF ContactsShown
  <1>5. ContactsSteady /\ excused' \subseteq Entries
    <2>1. excused \subseteq excused' /\ excused' \subseteq Entries /\ clock <= clock'
      BY <1>1, ContactsTyped DEF ContactsInv
    <2>2. \A q \in Entries \ excused' : q = p => Co!Reading = {}
      BY <1>1
    <2> QED
      BY <1>3, <1>4, <2>1, <2>2 DEF ContactsSteady
  <1>6. Co!TypeOK'
    BY <1>1, <1>2, <1>3, <1>5, ContactsTyped, ContactsWhole DEF ContactsInv
  <1>7. ContactsPast'
    <2>1. \A q \in Entries : book[q] \in Nat /\ row[q] \in Nat /\ \A r \in Runs : sync[r].got[q] \in Nat
      BY ContactsAmounts DEF ContactsInv
    <2>2. token \in Nat /\ \A r \in Runs : sync[r].since \in Nat /\ sync[r].next \in Nat
      BY ContactsAmounts DEF ContactsInv
    <2>3. \A q \in Entries : book'[q] # 0 => book'[q] = book[q] \/ book'[q] = clock + 1
      BY <1>3
    <2>4. \A q \in Entries : /\ book'[q] <= clock' /\ row[q] <= clock' /\ (book'[q] # 0 => row[q] <= book'[q])
      BY <1>1, <1>3, <2>1, <2>3 DEF ContactsInv, ContactsPast
    <2>5. \A r \in Runs : ContactsEarly(sync[r])'
      BY <1>1, <1>3, <2>1, <2>2, <2>3 DEF ContactsInv, ContactsPast, ContactsEarly
    <2> QED
      BY <1>1, <2>2, <2>4, <2>5 DEF ContactsInv, ContactsPast
  <1>8. ContactsReading_'
    BY <1>5, ContactsCarry DEF ContactsReading_, ContactsReads
  <1> QED
    BY <1>5, <1>6, <1>7, <1>8, ContactsCarry DEF ContactsInv

(* A step of a request beside the provider. *)
LEMMA ContactsAsking ==
    ASSUME Co!ContactsAssumption, ContactsInv, UNCHANGED <<book, removed, clock, token, sync>>,
           several' \in BOOLEAN, on' \in BOOLEAN,
           row' \in [Entries -> ContactsNumbers], request' \in ContactsRequestType, excused \subseteq excused', excused' \subseteq Entries,
           errors' \in 0 .. MaxErrors, switches' \in 0 .. MaxBooks, ContactsRequested',
           \A p \in Entries : row'[p] <= clock /\ (book[p] # 0 => row'[p] <= book[p]),
           \A p \in Entries \ excused' : book[p] # 0 /\ ContactsShown(p) => ContactsShown(p)'
    PROVE  ContactsInv'
  <1>1. /\ 0 \notin 1 .. token
        /\ \A r \in Runs : 0 \notin 1 .. sync[r].since /\ 0 \notin 1 .. sync[r].next
    BY ContactsAmounts DEF ContactsInv
  <1>2. Co!TypeOK'
    BY ContactsTyped, ContactsWhole DEF ContactsInv
  <1>3. ContactsPast'
    BY DEF ContactsInv, ContactsPast, ContactsEarly
  <1>4. ContactsCovered'
    BY <1>1 DEF ContactsInv, ContactsCovered
  <1>5. ContactsReading_'
    BY <1>1 DEF ContactsInv, ContactsReading_, ContactsReads
  <1> QED
    BY <1>2, <1>3, <1>4, <1>5 DEF ContactsInv

LEMMA ContactsInductive ==
    ASSUME Co!ContactsAssumption, ContactsInv, [Co!Next]_Co!vars
    PROVE  ContactsInv'
  <1>1. /\ Co!TypeOK /\ ContactsPast /\ ContactsRequested /\ ContactsCovered /\ ContactsReading_
        /\ \A r \in Runs : sync[r] \in ContactsSyncType /\ ContactsEarly(sync[r])
        /\ clock \in Nat /\ token \in Nat /\ request.put \in Nat /\ MaxEdits \in Nat
        /\ \A p \in Entries : book[p] \in Nat /\ row[p] \in Nat
        /\ \A r \in Runs : sync[r].since \in Nat /\ sync[r].next \in Nat /\ \A p \in Entries : sync[r].got[p] \in Nat
        /\ Co!Fails => errors' \in 0 .. MaxErrors
        /\ excused \subseteq Entries /\ request \in ContactsRequestType
        /\ errors \in 0 .. MaxErrors /\ switches \in 0 .. MaxBooks
    BY ContactsAmounts, ContactsTyped, ContactsSimple DEF ContactsInv, ContactsPast
  <1>2. ContactsEarly(Co!Idle) /\ ContactsReads(Co!Idle, excused)
    <2>1. \A p \in Entries : Co!Idle.got[p] = 0
      BY ContactsSimple
    <2>2. ContactsEarly(Co!Idle)
      BY <1>1, <2>1, ContactsSimple DEF ContactsEarly
    <2>3. Co!Idle.step = "idle"
      BY ContactsSimple
    <2>4. ContactsReads(Co!Idle, excused)
      BY <2>3 DEF ContactsReads
    <2> QED
      BY <2>2, <2>4
  <1>3. ASSUME NEW r \in Runs, Co!do_sync(r) PROVE ContactsInv'
    <2> DEFINE new == [Co!Idle EXCEPT !.step = "list", !.since = token, !.full = token = 0]
    <2>1. /\ new \in ContactsSyncType /\ new.step = "list" /\ new.since = token
          /\ new.full = (token = 0) /\ new.next = 0
          /\ new.got = Co!Nobody
      BY <1>1, ContactsSimple, ContactsTyped DEF ContactsSyncType, Co!Steps
    <2>2. ContactsEarly(new)
      BY <1>1, <2>1, ContactsSimple DEF ContactsEarly, ContactsPast
    <2>3. ContactsReads(new, excused)
      BY <1>1, <2>1 DEF ContactsReads, ContactsCovered
    <2>4. /\ Co!Step(r, new) /\ sync[r].step = "idle"
          /\ UNCHANGED <<Co!provider, on, token, row, request, excused, errors, switches>>
      BY <1>3 DEF Co!do_sync, Co!Begin, Co!At
    <2> HIDE DEF new
    <2> QED
      BY <1>1, <2>1, <2>2, <2>3, <2>4, ContactsAdvance
  <1>4. ASSUME NEW r \in Runs, Co!list_contacts(r) PROVE ContactsInv'
    <2>1. /\ sync[r].step = "list"
          /\ UNCHANGED <<Co!provider, on, token, row, request, excused, switches>>
          /\ sync[r] \in ContactsSyncType /\ ContactsEarly(sync[r])
          /\ (sync[r].old \/ ContactsReads(sync[r], excused))
      BY <1>1, <1>4 DEF Co!list_contacts, Co!At, ContactsReading_
    <2>2. CASE /\ sync[r].full /\ UNCHANGED errors
               /\ Co!Step(r, [sync[r] EXCEPT !.step = "cards", !.todo = {p \in Entries : book[p] # 0}])
      <3> DEFINE new == [sync[r] EXCEPT !.step = "cards", !.todo = {p \in Entries : book[p] # 0}]
      <3>1. /\ new \in ContactsSyncType /\ new.step = "cards" /\ new.full
            /\ new.todo = {p \in Entries : book[p] # 0}
            /\ new.since = sync[r].since /\ new.next = sync[r].next /\ new.got = sync[r].got
        BY <2>1, <2>2 DEF ContactsSyncType, Co!Steps
      <3>2. ContactsEarly(new) /\ ContactsReads(new, excused)
        BY <2>1, <3>1 DEF ContactsEarly, ContactsReads
      <3> HIDE DEF new
      <3>3. Co!Step(r, new)
        BY <2>2 DEF new
      <3> QED
        BY <1>1, <2>1, <2>2, <3>1, <3>2, <3>3, ContactsAdvance
    <2>3. CASE /\ ~sync[r].full /\ ~several /\ UNCHANGED errors
               /\ Co!Step(r, [sync[r] EXCEPT !.step = "cards", !.todo = Co!Changed(r),
                                               !.dead = Co!Deleted(r), !.next = clock])
      <3> DEFINE new == [sync[r] EXCEPT !.step = "cards", !.todo = Co!Changed(r),
                                               !.dead = Co!Deleted(r), !.next = clock]
      <3>1. /\ new \in ContactsSyncType /\ new.step = "cards" /\ ~new.full
            /\ new.todo = {p \in Entries : book[p] > sync[r].since}
            /\ new.since = sync[r].since /\ new.next = clock /\ new.got = sync[r].got
            /\ new.old = sync[r].old /\ \A p \in new.dead : book[p] = 0
        BY <1>1, <2>1, <2>3, ContactsTyped DEF ContactsSyncType, Co!Steps, Co!Changed, Co!Deleted
      <3>2. ContactsEarly(new)
        BY <1>1, <2>1, <3>1 DEF ContactsEarly
      <3>3. new.old \/ ContactsReads(new, excused)
        BY <1>1, <2>1, <2>3, <3>1 DEF ContactsReads
      <3> HIDE DEF new
      <3>4. Co!Step(r, new)
        BY <2>3 DEF new
      <3> QED
        BY <1>1, <2>1, <2>3, <3>1, <3>2, <3>3, <3>4, ContactsAdvance
    <2>4. CASE /\ ~sync[r].full /\ (IF several THEN UNCHANGED errors ELSE Co!Fails)
               /\ Co!Step(r, [sync[r] EXCEPT !.full = TRUE])
      <3> DEFINE new == [sync[r] EXCEPT !.full = TRUE]
      <3>1. /\ new \in ContactsSyncType /\ new.step = "list" /\ new.full
            /\ new.since = sync[r].since /\ new.next = sync[r].next /\ new.got = sync[r].got
        BY <2>1 DEF ContactsSyncType
      <3>2. ContactsEarly(new) /\ ContactsReads(new, excused)
        BY <2>1, <3>1 DEF ContactsEarly, ContactsReads
      <3> HIDE DEF new
      <3>3. Co!Step(r, new)
        BY <2>4 DEF new
      <3> QED
        BY <1>1, <2>1, <2>4, <3>1, <3>2, <3>3, ContactsAdvance
    <2>5. CASE sync[r].full /\ Co!Fails /\ Co!Step(r, Co!Idle)
      BY <1>1, <1>2, <2>1, <2>5, ContactsSimple, ContactsAdvance
    <2> QED
      BY <1>4, <2>2, <2>3, <2>4, <2>5 DEF Co!list_contacts
  <1>5. ASSUME NEW r \in Runs, NEW p \in Entries, Co!fetch_vcard(r, p) PROVE ContactsInv'
    <2>1. /\ sync[r].step = "cards" /\ UNCHANGED <<Co!provider, on, token, row, request, switches>>
          /\ sync[r] \in ContactsSyncType /\ ContactsEarly(sync[r])
          /\ (sync[r].old \/ ContactsReads(sync[r], excused))
      BY <1>1, <1>5 DEF Co!fetch_vcard, Co!At, ContactsReading_
    <2>2. CASE Co!Step(r, [sync[r] EXCEPT !.todo = @ \ {p}, !.got[p] = book[p]]) /\ UNCHANGED <<errors, excused>>
      <3> DEFINE new == [sync[r] EXCEPT !.todo = @ \ {p}, !.got[p] = book[p]]
      <3>1. /\ new \in ContactsSyncType /\ new.step = "cards" /\ new.full = sync[r].full
            /\ new.todo = sync[r].todo \ {p}
            /\ new.since = sync[r].since /\ new.next = sync[r].next /\ new.old = sync[r].old
            /\ new.dead = sync[r].dead
            /\ new.got[p] = book[p] /\ \A o \in Entries \ {p} : new.got[o] = sync[r].got[o]
        BY <1>1, <2>1, ContactsTyped DEF ContactsSyncType
      <3>2. ContactsEarly(new)
        BY <1>1, <2>1, <3>1 DEF ContactsEarly, ContactsPast
      <3>3. new.old \/ ContactsReads(new, excused)
        BY <2>1, <3>1 DEF ContactsReads
      <3> HIDE DEF new
      <3>4. Co!Step(r, new)
        BY <2>2 DEF new
      <3> QED
        BY <1>1, <2>1, <2>2, <3>1, <3>2, <3>3, <3>4, ContactsAdvance
    <2>3. CASE Co!Step(r, [sync[r] EXCEPT !.todo = @ \ {p}]) /\ Co!Fails /\ excused' = excused \cup {p}
      <3> DEFINE new == [sync[r] EXCEPT !.todo = @ \ {p}]
      <3>1. /\ new \in ContactsSyncType /\ new.step = "cards" /\ new.full = sync[r].full
            /\ new.todo = sync[r].todo \ {p}
            /\ new.since = sync[r].since /\ new.next = sync[r].next /\ new.old = sync[r].old
            /\ new.dead = sync[r].dead
            /\ new.got = sync[r].got
        BY <2>1 DEF ContactsSyncType
      <3>2. ContactsEarly(new)
        BY <2>1, <3>1 DEF ContactsEarly
      <3>3. new.old \/ ContactsReads(new, excused')
        BY <2>1, <2>3, <3>1 DEF ContactsReads
      <3> HIDE DEF new
      <3>4. Co!Step(r, new)
        BY <2>3 DEF new
      <3> QED
        BY <1>1, <2>1, <2>3, <3>1, <3>2, <3>3, <3>4, ContactsAdvance
    <2> QED
      BY <1>5, <2>2, <2>3 DEF Co!fetch_vcard
  <1>6. ASSUME NEW r \in Runs, Co!Read(r) PROVE ContactsInv'
    <2>1. /\ sync[r].step = "cards" /\ sync[r].todo = {}
          /\ UNCHANGED <<Co!provider, on, token, row, request, excused, errors, switches>>
          /\ sync[r] \in ContactsSyncType /\ ContactsEarly(sync[r])
          /\ (sync[r].old \/ ContactsReads(sync[r], excused))
      BY <1>1, <1>6 DEF Co!Read, Co!At, ContactsReading_
    <2>2. ASSUME NEW stage \in {"remove", "ask token"}, Co!Step(r, [sync[r] EXCEPT !.step = stage]),
                 stage = "remove" <=> ~sync[r].full
          PROVE  ContactsInv'
      <3> DEFINE new == [sync[r] EXCEPT !.step = stage]
      <3>1. /\ new \in ContactsSyncType /\ new.step = stage /\ new.full = sync[r].full
            /\ new.since = sync[r].since /\ new.next = sync[r].next /\ new.old = sync[r].old
            /\ new.dead = sync[r].dead
            /\ new.got = sync[r].got
        BY <2>1 DEF ContactsSyncType, Co!Steps
      <3>2. ContactsEarly(new)
        BY <2>1, <2>2, <3>1 DEF ContactsEarly
      <3>3. new.old \/ ContactsReads(new, excused)
        BY <2>1, <2>2, <3>1 DEF ContactsReads
      <3> HIDE DEF new
      <3>4. Co!Step(r, new)
        BY <2>2 DEF new
      <3> QED
        BY <1>1, <2>1, <2>2, <3>1, <3>2, <3>3, <3>4, ContactsAdvance
    <2>3. CASE Co!Step(r, Co!Idle)
      BY <1>1, <1>2, <2>1, <2>3, ContactsSimple, ContactsAdvance
    <2> QED
      BY <1>6, <2>2, <2>3 DEF Co!Read
  <1>7. ASSUME NEW r \in Runs, Co!get_sync_token(r) PROVE ContactsInv'
    <2>1. /\ sync[r].step = "ask token"
          /\ UNCHANGED <<Co!provider, on, token, row, request, excused, switches>>
          /\ sync[r] \in ContactsSyncType /\ ContactsEarly(sync[r])
          /\ (sync[r].old \/ ContactsReads(sync[r], excused)) /\ errors' \in 0 .. MaxErrors
      BY <1>1, <1>7 DEF Co!get_sync_token, Co!At, ContactsReading_
    <2>2. PICK later \in {0, clock} : Co!Step(r, [sync[r] EXCEPT !.step = "token", !.next = later])
      BY <1>7 DEF Co!get_sync_token
    <2> DEFINE new == [sync[r] EXCEPT !.step = "token", !.next = later]
    <2>3. /\ new \in ContactsSyncType /\ new.step = "token" /\ new.full = sync[r].full
          /\ new.since = sync[r].since /\ new.next = later /\ new.old = sync[r].old
          /\ new.got = sync[r].got
      BY <1>1, <2>1, ContactsSimple, ContactsTyped DEF ContactsSyncType, Co!Steps
    <2>4. ContactsEarly(new)
      <3>1. later <= clock
        BY <1>1, <2>2
      <3> QED
        BY <2>1, <2>3, <3>1 DEF ContactsEarly
    <2>5. new.old \/ ContactsReads(new, excused)
      <3>1. \A p \in Entries : book[p] \in 1 .. later => book[p] # 0
        BY <1>1, <2>2
      <3> QED
        BY <2>1, <2>3, <3>1 DEF ContactsReads
    <2> HIDE DEF new
    <2>6. Co!Step(r, new)
      BY <2>2 DEF new
    <2> QED
      BY <1>1, <2>1, <2>3, <2>4, <2>5, <2>6, ContactsAdvance
  <1>8. ASSUME NEW r \in Runs, Co!StoreToken(r) PROVE ContactsInv'
    <2>1. /\ sync[r].step = "token" /\ UNCHANGED <<Co!provider, on, row, request, errors, switches>>
          /\ sync[r] \in ContactsSyncType /\ ContactsEarly(sync[r])
          /\ (sync[r].old \/ ContactsReads(sync[r], excused))
          /\ token' = sync[r].next /\ excused' = IF sync[r].old THEN Entries ELSE excused
      BY <1>1, <1>8 DEF Co!StoreToken, Co!At, ContactsReading_, Co!NextToken
    <2> DEFINE new == [sync[r] EXCEPT !.step = "save"]
    <2>2. /\ new \in ContactsSyncType /\ new.step = "save" /\ new.since = sync[r].since
          /\ new.next = sync[r].next /\ new.got = sync[r].got
      BY <2>1 DEF ContactsSyncType, Co!Steps
    <2>3. Co!Step(r, new)
      BY <1>8 DEF Co!StoreToken
    <2> HIDE DEF new
    <2>4. /\ sync' \in [Runs -> ContactsSyncType] /\ sync'[r] = new
          /\ \A q \in Runs \ {r} : sync'[q] = sync[q]
      BY <1>1, <2>2, <2>3, ContactsSetSync
    <2>5. \A p \in Entries : ContactsShown(p) \/ sync[r].got[p] = book[p] => ContactsShown(p)'
      BY <2>1, <2>2, <2>4 DEF ContactsShown, Co!provider
    <2>6. ContactsSteady /\ excused' \subseteq Entries
      BY <1>1, <2>1, <2>5 DEF ContactsSteady, Co!provider
    <2>7. sync[r].next \in ContactsNumbers
      BY <2>1 DEF ContactsSyncType
    <2>8. Co!TypeOK'
      BY <1>1, <2>1, <2>4, <2>6, <2>7, ContactsTyped, ContactsWhole DEF Co!provider
    <2>9. ContactsPast' /\ ContactsRequested'
      BY <1>1, <2>1, <2>2, <2>4 DEF ContactsPast, ContactsEarly, ContactsRequested, Co!provider
    <2>10. ContactsCovered'
      BY <2>1, <2>5 DEF ContactsCovered, ContactsReads, Co!provider
    <2>11. ContactsReading_'
      <3>1. ContactsReads(sync[r], excused)' /\ sync'[r].step # "ask token"
        BY <2>2, <2>4 DEF ContactsReads
      <3> QED
        BY <2>4, <2>6, <3>1, ContactsCarry DEF ContactsReading_
    <2> QED
      BY <2>8, <2>9, <2>10, <2>11 DEF ContactsInv
  <1>9. ASSUME NEW r \in Runs, Co!save_contacts_to_db(r) PROVE ContactsInv'
    <2>1. /\ sync[r].step = "save" /\ UNCHANGED <<Co!provider, on, token, request, switches>>
          /\ sync[r] \in ContactsSyncType /\ ContactsEarly(sync[r]) /\ Co!Step(r, Co!Idle)
          /\ Co!Given(r) \subseteq Entries
      BY <1>1, <1>9 DEF Co!save_contacts_to_db, Co!At, Co!Given
    <2>2. /\ sync' \in [Runs -> ContactsSyncType] /\ sync'[r] = Co!Idle
          /\ \A q \in Runs \ {r} : sync'[q] = sync[q]
      BY <1>1, <2>1, ContactsSetSync, ContactsSimple
    <2>3. /\ excused \subseteq excused' /\ excused' \subseteq Entries /\ errors' \in 0 .. MaxErrors
          /\ row' \in [Entries -> ContactsNumbers]
          /\ \A p \in Entries : row'[p] = row[p] \/ row'[p] = sync[r].got[p]
      <3>1. \A p \in Entries : sync[r].got[p] \in ContactsNumbers
        BY <2>1 DEF ContactsSyncType
      <3> QED
        BY <1>1, <1>9, <2>1, <3>1, ContactsTyped DEF Co!save_contacts_to_db
    <2>4. \A p \in Entries \ excused' : book[p] # 0 /\ ContactsShown(p) => ContactsShown(p)'
      <3> SUFFICES ASSUME NEW p \in Entries \ excused', book[p] # 0, ContactsShown(p)
                   PROVE  ContactsShown(p)'
        OBVIOUS
      <3>1. row'[p] = IF p \in Co!Given(r) THEN sync[r].got[p] ELSE row[p]
        BY <1>9 DEF Co!save_contacts_to_db
      <3>2. p \in Co!Given(r) => ~(row[p] > sync[r].got[p])
        BY <1>9 DEF Co!save_contacts_to_db
      <3>3. sync[r].got[p] <= book[p]
        BY <2>1 DEF ContactsEarly
      <3>4. CASE row[p] = book[p]
        <4>1. row'[p] = book[p]
          BY <1>1, <3>1, <3>2, <3>3, <3>4
        <4> QED
          BY <2>1, <4>1 DEF ContactsShown, Co!provider
      <3>5. ASSUME NEW q \in Runs, sync[q].step = "save", sync[q].got[p] = book[p]
            PROVE  ContactsShown(p)'
        <4>1. CASE q = r
          <5>1. p \in Co!Given(r)
            BY <3>5, <4>1 DEF Co!Given
          <5> QED
            BY <2>1, <3>1, <3>5, <4>1, <5>1 DEF ContactsShown, Co!provider
        <4>2. CASE q # r
          BY <2>1, <2>2, <3>5, <4>2 DEF ContactsShown, Co!provider
        <4> QED
          BY <4>1, <4>2
      <3>6. CASE request.step = "store" /\ request.who = p /\ request.put = book[p]
        BY <2>1, <3>6 DEF ContactsShown, Co!provider
      <3> QED
        BY <3>4, <3>5, <3>6 DEF ContactsShown
    <2>5. Co!TypeOK'
      BY <1>1, <2>1, <2>2, <2>3, ContactsTyped, ContactsWhole DEF Co!provider
    <2>6. ContactsPast' /\ ContactsRequested'
      <3>1. ContactsEarly(Co!Idle)
        BY <1>2
      <3>2. \A p \in Entries : row'[p] <= clock /\ (book[p] # 0 => row'[p] <= book[p])
        BY <1>1, <2>1, <2>3 DEF ContactsPast, ContactsEarly
      <3> QED
        BY <1>1, <2>1, <2>2, <3>1, <3>2 DEF ContactsPast, ContactsEarly, ContactsRequested,
           Co!provider
    <2>7. ContactsCovered'
      BY <1>1, <2>1, <2>3, <2>4 DEF ContactsCovered, Co!provider
    <2>8. ContactsReading_'
      <3>1. ASSUME NEW q \in Runs, q # r 
            PROVE  /\ sync'[q].old \/ ContactsReads(sync[q], excused)'
                   /\ sync'[q].step = "ask token" => sync'[q].full
        <4>1. /\ sync'[q] = sync[q] /\ (sync[q].old \/ ContactsReads(sync[q], excused))
              /\ (sync[q].step = "ask token" => sync[q].full)
          BY <1>1, <2>2, <3>1 DEF ContactsReading_
        <4>2. \A p \in Entries \ excused' : book'[p] = book[p] /\ p \notin excused /\ (book[p] # 0 /\ ContactsShown(p) => ContactsShown(p)')
          BY <2>1, <2>3, <2>4 DEF Co!provider
        <4>3. 0 \notin 1 .. sync[q].since /\ 0 \notin 1 .. sync[q].next
          BY <1>1
        <4> QED
          BY <4>1, <4>2, <4>3 DEF ContactsReads
      <3>2. ContactsReads(sync[r], excused)' /\ sync'[r].step # "ask token"
        BY <2>2, ContactsSimple DEF ContactsReads
      <3> QED
        BY <3>1, <3>2 DEF ContactsReading_
    <2> QED
      BY <2>5, <2>6, <2>7, <2>8 DEF ContactsInv
  <1>10. request.put <= clock /\ request.who \in Entries
    BY <1>1 DEF ContactsRequested, ContactsRequestType
  <1>11. ASSUME NEW p \in Entries, Co!Elsewhere(p) PROVE ContactsInv'
    <2>1. PICK present \in BOOLEAN : Co!Change(p, present)
      BY <1>11 DEF Co!Elsewhere
    <2>2. UNCHANGED <<on, token, row, sync, request, errors, switches>>
      BY <1>11 DEF Co!Elsewhere
    <2>3. ContactsRequested'
      BY <1>1, <1>10, <2>1, <2>2, ContactsTyped DEF ContactsRequested, Co!Change
    <2> QED
      BY <1>1, <2>1, <2>2, <2>3, ContactsChanging
  <1>12. \A p \in Entries : row[p] <= clock /\ (book[p] # 0 => row[p] <= book[p])
    BY <1>1 DEF ContactsPast
  <1>13. ASSUME Co!AnotherBook PROVE ContactsInv'
    <2>1. switches' \in 0 .. MaxBooks
      BY <1>1, <1>13 DEF Co!AnotherBook, Co!ContactsAssumption
    <2>2. ContactsRequested' /\ \A p \in Entries : ContactsShown(p) => ContactsShown(p)'
      BY <1>1, <1>13 DEF Co!AnotherBook, ContactsRequested, ContactsShown
    <2> QED
      BY <1>1, <1>12, <1>13, <2>1, <2>2, ContactsAsking, ContactsTyped DEF Co!AnotherBook
  <1>14. ASSUME NEW p \in Entries, Co!put_vcard(p) \/ Co!delete_contact(p) PROVE ContactsInv'
    <2>1. /\ request = Co!NoRequest /\ request' \in ContactsRequestType /\ request'.put = 0
          /\ request'.who = p
          /\ UNCHANGED <<book, removed, clock, several, on, token, row, sync, excused, errors, switches>>
      BY <1>1, <1>14, ContactsSimple DEF Co!put_vcard, Co!delete_contact, ContactsRequestType,
         Co!provider
    <2>2. ContactsRequested' /\ \A q \in Entries : ContactsShown(q) => ContactsShown(q)'
      BY <1>1, <2>1, ContactsSimple DEF ContactsRequested, ContactsShown
    <2> QED
      BY <1>1, <1>12, <2>1, <2>2, ContactsAsking, ContactsTyped
  <1>15. /\ Co!NoRequest \in ContactsRequestType /\ Co!NoRequest.put = 0
         /\ Co!NoRequest.step = "none" /\ Co!NoRequest.who \in Entries
    BY ContactsSimple
  <1>16. ASSUME Co!Put PROVE ContactsInv'
    <2> DEFINE p == request.who
    <2>1. p \in Entries /\ request.step = "put" /\ UNCHANGED <<on, token, row, sync, switches>>
      BY <1>1, <1>16 DEF Co!Put, ContactsRequestType
    <2>2. CASE Co!Change(p, TRUE) /\ UNCHANGED errors /\ request' = [request EXCEPT !.step = "store", !.put = clock + 1]
      <3>1. clock + 1 \in ContactsNumbers
        BY <1>1, <2>2 DEF Co!Change, Co!Room, ContactsNumbers
      <3>2. request' \in ContactsRequestType /\ request'.put = clock + 1 /\ request'.who = p
        BY <1>1, <2>2, <3>1 DEF ContactsRequestType
      <3>3. book'[p] = clock + 1 /\ clock' = clock + 1
        BY <1>1, <2>1, <2>2, ContactsTyped DEF Co!Change
      <3>4. ContactsRequested'
        BY <1>1, <3>2, <3>3 DEF ContactsRequested
      <3> QED
        BY <1>1, <2>1, <2>2, <3>2, <3>4, ContactsChanging
    <2>3. CASE Co!Change(p, TRUE) /\ Co!Fails /\ request' = Co!NoRequest
      <3>1. ContactsRequested'
        BY <1>1, <1>15, <2>1, <2>3, ContactsTyped DEF ContactsRequested, Co!Change
      <3> QED
        BY <1>1, <1>15, <2>1, <2>3, <3>1, ContactsChanging
    <2>4. CASE UNCHANGED <<Co!provider, excused>> /\ (Co!Fails \/ UNCHANGED errors) /\ request' = Co!NoRequest
      <3>1. ContactsRequested' /\ \A q \in Entries : ContactsShown(q) => ContactsShown(q)'
        BY <1>1, <1>15, <2>1, <2>4, ContactsTyped DEF ContactsRequested, ContactsShown, Co!provider,
           ContactsNumbers
      <3> QED
        BY <1>1, <1>12, <1>15, <2>1, <2>4, <3>1, ContactsAsking, ContactsTyped DEF Co!provider
    <2> QED
      BY <1>16, <2>2, <2>3, <2>4 DEF Co!Put
  <1>17. ASSUME Co!upsert_contact PROVE ContactsInv'
    <2> DEFINE p == request.who
    <2>1. /\ p \in Entries /\ request.step = "store" /\ request' = Co!NoRequest
          /\ row' = [row EXCEPT ![p] = request.put]
          /\ excused' = (IF row[p] > request.put THEN excused \cup {p} ELSE excused)
          /\ UNCHANGED <<book, removed, clock, several, on, token, sync, errors, switches>>
          /\ request.put \in ContactsNumbers
      BY <1>1, <1>17 DEF Co!upsert_contact, ContactsRequestType, Co!provider
    <2>2. /\ row' \in [Entries -> ContactsNumbers] /\ row'[p] = request.put
          /\ \A q \in Entries \ {p} : row'[q] = row[q]
      BY <1>1, <2>1, ContactsTyped
    <2>3. ContactsRequested'
      BY <1>1, <1>15, <2>1, ContactsTyped DEF ContactsRequested, ContactsNumbers
    <2>4. \A q \in Entries : row'[q] <= clock /\ (book[q] # 0 => row'[q] <= book[q])
      BY <1>1, <1>10, <1>12, <2>2 DEF ContactsRequested
    <2>5. \A q \in Entries \ excused' : book[q] # 0 /\ ContactsShown(q) => ContactsShown(q)'
      <3> SUFFICES ASSUME NEW q \in Entries \ excused', book[q] # 0, ContactsShown(q)
                   PROVE  ContactsShown(q)'
        OBVIOUS
      <3>1. CASE q = p
        <4>1. row[p] <= request.put /\ request.put <= book[p]
          BY <1>1, <2>1, <3>1 DEF ContactsRequested
        <4>2. row[p] = book[p] => row'[p] = book[p]
          BY <1>1, <2>2, <4>1, <2>1
        <4> QED
          BY <2>1, <2>2, <3>1, <4>2 DEF ContactsShown
      <3>2. CASE q # p
        BY <2>1, <2>2, <3>2 DEF ContactsShown
      <3> QED
        BY <3>1, <3>2
    <2>6. excused \subseteq excused' /\ excused' \subseteq Entries
      BY <1>1, <2>1
    <2> QED
      BY <1>1, <1>15, <2>1, <2>2, <2>3, <2>4, <2>5, <2>6, ContactsAsking, ContactsTyped
  <1>18. ASSUME Co!Delete PROVE ContactsInv'
    <2> DEFINE p == request.who
    <2>1. /\ p \in Entries /\ request.step = "delete" /\ request' = [request EXCEPT !.step = "drop"]
          /\ UNCHANGED <<on, token, row, sync, switches>>
      BY <1>1, <1>18 DEF Co!Delete, ContactsRequestType
    <2>2. request' \in ContactsRequestType /\ request'.put = request.put /\ request'.who = p
      BY <1>1, <2>1 DEF ContactsRequestType
    <2>3. CASE Co!Change(p, FALSE) /\ UNCHANGED errors
      <3>1. ContactsRequested'
        BY <1>1, <1>10, <2>1, <2>2, <2>3, ContactsTyped DEF ContactsRequested, Co!Change
      <3> QED
        BY <1>1, <2>1, <2>2, <2>3, <3>1, ContactsChanging
    <2>4. CASE /\ several \/ ~on \/ book[p] = 0 \/ errors < MaxErrors
               /\ errors' = IF several \/ ~on \/ book[p] = 0 THEN errors ELSE errors + 1
               /\ excused' = excused \cup {p} /\ UNCHANGED Co!provider
      <3>1. errors' \in 0 .. MaxErrors
        BY <1>1, <2>4 DEF Co!ContactsAssumption
      <3>2. ContactsRequested' /\ \A q \in Entries : ContactsShown(q) => ContactsShown(q)'
        BY <1>1, <2>1, <2>2, <2>4 DEF ContactsRequested, ContactsShown, Co!provider
      <3> QED
        BY <1>1, <1>12, <2>1, <2>2, <2>4, <3>1, <3>2, ContactsAsking, ContactsTyped DEF Co!provider
    <2> QED
      BY <1>18, <2>3, <2>4 DEF Co!Delete
  <1>19. ASSUME Co!Drop PROVE ContactsInv'
    <2> DEFINE p == request.who
    <2>1. /\ p \in Entries /\ request.step = "drop" /\ request' = Co!NoRequest
          /\ row' = [row EXCEPT ![p] = 0]
          /\ excused' = (IF book[p] = 0 THEN excused ELSE excused \cup {p})
          /\ UNCHANGED <<book, removed, clock, several, on, token, sync, errors, switches>>
      BY <1>1, <1>19 DEF Co!Drop, ContactsRequestType, Co!provider
    <2>2. /\ row' \in [Entries -> ContactsNumbers] /\ row'[p] = 0
          /\ \A q \in Entries \ {p} : row'[q] = row[q]
      BY <1>1, <2>1, ContactsSimple, ContactsTyped
    <2>3. ContactsRequested'
      BY <1>1, <1>15, <2>1, ContactsTyped DEF ContactsRequested, ContactsNumbers
    <2>4. \A q \in Entries : row'[q] <= clock /\ (book[q] # 0 => row'[q] <= book[q])
      BY <1>1, <1>12, <2>2
    <2>5. \A q \in Entries \ excused' : book[q] # 0 /\ ContactsShown(q) => ContactsShown(q)'
      BY <2>1, <2>2 DEF ContactsShown
    <2>6. excused \subseteq excused' /\ excused' \subseteq Entries
      BY <1>1, <2>1
    <2> QED
      BY <1>1, <1>15, <2>1, <2>2, <2>3, <2>4, <2>5, <2>6, ContactsAsking, ContactsTyped
  <1>20. ASSUME Co!Switch PROVE on' \in BOOLEAN /\ token' = 0 /\ switches' \in 0 .. MaxBooks
    BY <1>1, <1>20, ContactsTyped DEF Co!Switch, Co!ContactsAssumption
  <1>21. ASSUME Co!SwitchOff PROVE ContactsInv'
    <2>1. /\ row' = Co!Nobody /\ UNCHANGED <<book, removed, clock, several, request, excused, errors>>
          /\ request = Co!NoRequest
          /\ on' \in BOOLEAN /\ token' = 0 /\ switches' \in 0 .. MaxBooks
      BY <1>20, <1>21 DEF Co!SwitchOff, Co!provider
    <2>2. \A r \in Runs : sync'[r] = IF sync[r].step = "idle" THEN Co!Idle ELSE [sync[r] EXCEPT !.old = TRUE]
      BY <1>21 DEF Co!SwitchOff, Co!At
    <2>3. sync' \in [Runs -> ContactsSyncType]
      <3>1. \A r \in Runs : [sync[r] EXCEPT !.old = TRUE] \in ContactsSyncType
        BY <1>1 DEF ContactsSyncType
      <3> QED
        BY <1>21, <3>1, ContactsSimple DEF Co!SwitchOff, Co!At
    <2>4. \A r \in Runs : ContactsEarly(sync'[r]) /\ (sync'[r].old \/ sync'[r].step = "idle")
                           /\ (sync'[r].step = "ask token" => sync'[r].full)
      <3> SUFFICES ASSUME NEW r \in Runs
                   PROVE  /\ ContactsEarly(sync'[r]) /\ (sync'[r].old \/ sync'[r].step = "idle")
                          /\ (sync'[r].step = "ask token" => sync'[r].full)
        OBVIOUS
      <3>1. CASE sync[r].step = "idle"
        BY <1>2, <2>2, <3>1, ContactsSimple
      <3>2. CASE sync[r].step # "idle"
        <4> DEFINE new == [sync[r] EXCEPT !.old = TRUE]
        <4>1. /\ new.old /\ new.step = sync[r].step /\ new.full = sync[r].full
              /\ new.since = sync[r].since
              /\ new.next = sync[r].next /\ new.got = sync[r].got /\ new.dead = sync[r].dead
          BY <1>1 DEF ContactsSyncType
        <4>2. sync'[r] = new
          BY <2>2, <3>2
        <4> HIDE DEF new
        <4> QED
          BY <1>1, <4>1, <4>2 DEF ContactsEarly, ContactsReading_
      <3> QED
        BY <3>1, <3>2
    <2>5. Co!TypeOK'
      BY <1>1, <2>1, <2>3, ContactsSimple, ContactsTyped, ContactsWhole
    <2>6. ContactsPast' /\ ContactsRequested'
      <3>1. \A r \in Runs : ContactsEarly(sync[r])'
        BY <2>1, <2>4 DEF ContactsEarly
      <3>2. \A p \in Entries : row'[p] = 0
        BY <2>1, ContactsSimple
      <3> QED
        BY <1>1, <2>1, <3>1, <3>2 DEF ContactsPast, ContactsRequested
    <2>7. ContactsCovered'
      BY <2>1 DEF ContactsCovered
    <2>8. ContactsReading_'
      <3>1. \A r \in Runs : sync'[r].step = "idle" => ContactsReads(sync[r], excused)'
        BY DEF ContactsReads
      <3> QED
        BY <2>4, <3>1 DEF ContactsReading_
    <2> QED
      BY <2>5, <2>6, <2>7, <2>8 DEF ContactsInv
  <1>22. ASSUME NEW r \in Runs, Co!SwitchOn(r) PROVE ContactsInv'
    <2> DEFINE new == [Co!Idle EXCEPT !.step = "list", !.full = TRUE]
    <2>1. /\ Co!Step(r, new) /\ sync[r].step = "idle"
          /\ UNCHANGED <<book, removed, clock, several, row, request, excused, errors>>
          /\ on' \in BOOLEAN /\ token' = 0 /\ switches' \in 0 .. MaxBooks
      BY <1>20, <1>22 DEF Co!SwitchOn, Co!provider, Co!At
    <2>2. /\ new \in ContactsSyncType /\ new.step = "list" /\ new.full /\ new.since = 0
          /\ new.next = 0 /\ new.got = Co!Nobody
      BY ContactsSimple DEF ContactsSyncType, Co!Steps
    <2> HIDE DEF new
    <2>3. /\ sync' \in [Runs -> ContactsSyncType] /\ sync'[r] = new
          /\ \A q \in Runs \ {r} : sync'[q] = sync[q]
      BY <1>1, <2>1, <2>2, ContactsSetSync
    <2>4. ContactsSteady
      <3>1. \A p \in Entries : ContactsShown(p) => ContactsShown(p)'
        BY <2>1, <2>3 DEF ContactsShown
      <3> QED
        BY <1>1, <2>1, <3>1 DEF ContactsSteady
    <2>5. Co!TypeOK'
      BY <1>1, <2>1, <2>3, ContactsSimple, ContactsTyped, ContactsWhole
    <2>6. ContactsPast' /\ ContactsRequested'
      <3>1. ContactsEarly(new)
        BY <1>1, <2>2, ContactsSimple DEF ContactsEarly
      <3> QED
        BY <1>1, <2>1, <2>3, <3>1, ContactsSimple DEF ContactsPast, ContactsEarly, ContactsRequested
    <2>7. ContactsCovered'
      BY <2>1 DEF ContactsCovered
    <2>8. ContactsReading_'
      <3>1. ContactsReads(sync[r], excused)'
        BY <2>2, <2>3 DEF ContactsReads
      <3>2. sync'[r].step # "ask token"
        BY <2>2, <2>3
      <3> QED
        BY <2>3, <2>4, <3>1, <3>2, ContactsCarry DEF ContactsReading_
    <2> QED
      BY <2>5, <2>6, <2>7, <2>8 DEF ContactsInv
  <1>23. ASSUME UNCHANGED Co!vars PROVE ContactsInv'
    <2>1. UNCHANGED <<book, removed, clock, several, on, token, row, sync, request, excused, errors, switches>>
      BY <1>23 DEF Co!vars, Co!provider
    <2>2. ContactsRequested' /\ \A q \in Entries : ContactsShown(q) => ContactsShown(q)'
      BY <1>1, <2>1 DEF ContactsRequested, ContactsShown
    <2> QED
      BY <1>1, <1>12, <2>1, <2>2, ContactsAsking, ContactsTyped
  <1>24. ASSUME NEW r \in Runs, Co!Remove(r) PROVE ContactsInv'
    <2> DEFINE new == [sync[r] EXCEPT !.step = "token"]
    <2>1. PICK gone \in SUBSET sync[r].dead :
             /\ row' = [p \in Entries |-> IF p \in gone THEN 0 ELSE row[p]]
             /\ excused' = excused \cup {p \in gone : row[p] > sync[r].next}
      BY <1>24 DEF Co!Remove
    <2>2. /\ sync[r].step = "remove" /\ UNCHANGED <<Co!provider, on, token, request, errors, switches>>
          /\ sync[r] \in ContactsSyncType /\ ContactsEarly(sync[r]) /\ Co!Step(r, new)
          /\ (sync[r].old \/ ContactsReads(sync[r], excused))
          /\ gone \subseteq Entries
      BY <1>1, <1>24, <2>1 DEF Co!Remove, Co!At, ContactsReading_, ContactsSyncType
    <2>3. /\ new \in ContactsSyncType /\ new.step = "token" /\ new.since = sync[r].since
          /\ new.next = sync[r].next /\ new.got = sync[r].got /\ new.old = sync[r].old
      BY <2>2 DEF ContactsSyncType, Co!Steps
    <2> HIDE DEF new
    <2>4. /\ sync' \in [Runs -> ContactsSyncType] /\ sync'[r] = new
          /\ \A q \in Runs \ {r} : sync'[q] = sync[q]
      BY <1>1, <2>2, <2>3, ContactsSetSync
    <2>5. /\ excused \subseteq excused' /\ excused' \subseteq Entries
          /\ row' \in [Entries -> ContactsNumbers]
          /\ \A p \in Entries : row'[p] = IF p \in gone THEN 0 ELSE row[p]
      BY <1>1, <2>1, <2>2, ContactsSimple, ContactsTyped
    <2>6. \A p \in Entries \ excused' : book[p] # 0 /\ row[p] = book[p] => row'[p] = book[p]
      <3> SUFFICES ASSUME NEW p \in Entries \ excused', book[p] # 0, row[p] = book[p], p \in gone
                   PROVE  FALSE
        BY <2>5
      <3>1. ~(row[p] > sync[r].next)
        BY <2>1
      <3>2. book[p] > sync[r].next
        BY <2>2 DEF ContactsEarly
      <3> QED
        BY <3>1, <3>2
    <2>7. \A p \in Entries \ excused' : book[p] # 0 /\ ContactsShown(p) => ContactsShown(p)'
      BY <2>2, <2>4, <2>6 DEF ContactsShown, Co!provider
    <2>8. Co!TypeOK'
      BY <1>1, <2>2, <2>4, <2>5, ContactsTyped, ContactsWhole DEF Co!provider
    <2>9. ContactsPast' /\ ContactsRequested'
      <3>1. ContactsEarly(new)
        BY <2>2, <2>3 DEF ContactsEarly
      <3>2. \A p \in Entries : row'[p] <= clock /\ (book[p] # 0 => row'[p] <= book[p])
        BY <1>1, <2>5 DEF ContactsPast
      <3> QED
        BY <1>1, <2>2, <2>4, <3>1, <3>2 DEF ContactsPast, ContactsEarly, ContactsRequested,
           Co!provider
    <2>10. ContactsCovered'
      BY <1>1, <2>2, <2>5, <2>7 DEF ContactsCovered, Co!provider
    <2>11. ContactsReading_'
      <3>1. ASSUME NEW q \in Runs, q # r
            PROVE  /\ sync'[q].old \/ ContactsReads(sync[q], excused)'
                   /\ sync'[q].step = "ask token" => sync'[q].full
        <4>1. /\ sync'[q] = sync[q] /\ (sync[q].old \/ ContactsReads(sync[q], excused))
              /\ (sync[q].step = "ask token" => sync[q].full)
          BY <1>1, <2>4, <3>1 DEF ContactsReading_
        <4>2. \A p \in Entries \ excused' : book'[p] = book[p] /\ p \notin excused /\ (book[p] # 0 /\ ContactsShown(p) => ContactsShown(p)')
          BY <2>2, <2>5, <2>7 DEF Co!provider
        <4>3. 0 \notin 1 .. sync[q].since /\ 0 \notin 1 .. sync[q].next
          BY <1>1
        <4> QED
          BY <4>1, <4>2, <4>3 DEF ContactsReads
      <3>2. sync'[r].old \/ ContactsReads(sync[r], excused)'
        <4>1. 0 \notin 1 .. sync[r].next
          BY <1>1
        <4>2. \A p \in Entries \ excused' : book'[p] = book[p] /\ p \notin excused /\ (book[p] # 0 /\ ContactsShown(p) => ContactsShown(p)')
          BY <2>2, <2>5, <2>7 DEF Co!provider
        <4> QED
          BY <2>2, <2>3, <2>4, <4>1, <4>2 DEF ContactsReads
      <3>3. sync'[r].step # "ask token"
        BY <2>3, <2>4
      <3> QED
        BY <3>1, <3>2, <3>3 DEF ContactsReading_
    <2> QED
      BY <2>8, <2>9, <2>10, <2>11 DEF ContactsInv
  <1>25. ASSUME NEW r \in Runs, Co!Work(r) PROVE ContactsInv'
    BY <1>4, <1>5, <1>6, <1>7, <1>8, <1>9, <1>24, <1>25 DEF Co!Work
  <1> QED
    BY <1>3, <1>11, <1>13, <1>14, <1>16, <1>17, <1>18, <1>19, <1>21, <1>22, <1>23, <1>25 DEF Co!Next

(* At rest, what the last run has covered is shown. *)
LEMMA ContactsShows == ASSUME Co!ContactsAssumption, ContactsInv PROVE Co!CoveredIsShown
  <1> SUFFICES ASSUME Co!Quiet, NEW p \in Entries \ excused, book[p] \in 1 .. token
               PROVE  row[p] = book[p]
    BY DEF Co!CoveredIsShown
  <1>1. request.step = "none" /\ \A r \in Runs : sync[r].step = "idle"
    BY ContactsSimple DEF Co!Quiet, Co!At
  <1> QED
    BY <1>1 DEF ContactsInv, ContactsCovered, ContactsShown

-----------------------------------------------------------------------------
(***************************************************************************)
(* Tasks: a change is on its way to the provider until it is there         *)
(* (api/todos.rs, dav/scheduler.rs).                                       *)
(***************************************************************************)
TasksVersions == 0 .. MaxTasks
TasksSyncType == [step : {"idle", "list", "fetch", "store"}, todo : SUBSET Todos, got : [Todos -> TasksVersions]]
TasksRequestType == [step : Ta!Steps, todo : Todos, other : Todos, value : TasksVersions]

(* A request is on its way to write the row of t, whose last change by the *)
(* user is m; the numbers kept for deletions are the past's.               *)
TasksCarries(r, t, m) == /\ r.todo = t
                         /\ \/ r.step \in {"write", "done write"}
                            \/ r.step = "read" /\ r.value # 0
                            \/ r.step = "fields" /\ r.value = m
TasksOnItsWay(t) == \E q \in Changers : TasksCarries(request[q], t, mine[t])
TasksKept(r, n) == r.step \in {"delete", "drop", "twin", "drop twin"} => r.value <= n
TasksNumbers == (\A t \in Todos : mine[t] <= version) /\ \A q \in Changers : TasksKept(request[q], version)
TasksReached == \A t \in Todos \ (parted \cup untold) : server[t] = 0 \/ server[t] >= mine[t] \/ TasksOnItsWay(t)
TasksInv == Ta!TypeOK /\ TasksNumbers /\ TasksReached

LEMMA TasksTyped ==
    Ta!TypeOK <=> /\ google \in BOOLEAN /\ server \in [Todos -> TasksVersions] /\ row \in [Todos -> TasksVersions]
                  /\ series \subseteq Todos /\ sync \in [Syncs -> TasksSyncType]
                  /\ request \in [Changers -> TasksRequestType]
                  /\ mine \in [Todos -> TasksVersions] /\ untold \subseteq Todos /\ parted \subseteq Todos
                  /\ version \in TasksVersions /\ errors \in 0 .. MaxErrors
  BY DEF Ta!TypeOK, TasksVersions, TasksSyncType, TasksRequestType

LEMMA TasksWhole ==
    Ta!TypeOK' <=> /\ google' \in BOOLEAN /\ server' \in [Todos -> TasksVersions] /\ row' \in [Todos -> TasksVersions]
                   /\ series' \subseteq Todos /\ sync' \in [Syncs -> TasksSyncType]
                   /\ request' \in [Changers -> TasksRequestType]
                   /\ mine' \in [Todos -> TasksVersions] /\ untold' \subseteq Todos /\ parted' \subseteq Todos
                   /\ version' \in TasksVersions /\ errors' \in 0 .. MaxErrors
  BY DEF Ta!TypeOK, TasksVersions, TasksSyncType, TasksRequestType

LEMMA TasksNothing ==
    ASSUME Ta!TasksAssumption
    PROVE  /\ 0 \in TasksVersions /\ Ta!None \in [Todos -> TasksVersions]
           /\ Ta!Idle \in TasksSyncType
           /\ Ta!NoRequest \in TasksRequestType /\ Ta!NoRequest.step = "none"
           /\ 0 \in 0 .. MaxErrors
  BY DEF Ta!TasksAssumption, TasksVersions, Ta!None, Ta!Idle, TasksSyncType, Ta!NoRequest,
     TasksRequestType, Ta!Steps

LEMMA TasksInitially == ASSUME Ta!TasksAssumption PROVE Ta!Init => TasksInv
  <1> SUFFICES ASSUME Ta!Init PROVE TasksInv
    OBVIOUS
  <1>1. Ta!TypeOK
    BY TasksNothing, TasksTyped DEF Ta!Init
  <1>2. TasksNumbers /\ TasksReached
    <2>1. \A q \in Changers : TasksKept(request[q], version)
      BY TasksNothing DEF Ta!Init, TasksKept
    <2>2. 0 <= 0 /\ 0 >= 0
      OBVIOUS
    <2> QED
      BY <2>1, <2>2 DEF Ta!Init, TasksNumbers, TasksReached, Ta!None
  <1> QED
    BY <1>1, <1>2 DEF TasksInv

(* Records changed in part. *)
LEMMA TasksSynced ==
    ASSUME NEW s \in TasksSyncType, NEW t \in Todos, NEW v \in TasksVersions,
           NEW f \in [Todos -> TasksVersions], NEW S \in SUBSET Todos
    PROVE  /\ [s EXCEPT !.step = "list"] \in TasksSyncType
           /\ [s EXCEPT !.step = "store"] \in TasksSyncType
           /\ [s EXCEPT !.step = "store", !.got = f] \in TasksSyncType
           /\ [s EXCEPT !.step = "fetch", !.todo = S] \in TasksSyncType
           /\ [s EXCEPT !.todo = S] \in TasksSyncType
           /\ s.todo \subseteq Todos /\ s.got \in [Todos -> TasksVersions]
           /\ [s.got EXCEPT ![t] = v] \in [Todos -> TasksVersions]
           /\ [s EXCEPT !.todo = S, !.got = f] \in TasksSyncType
  BY DEF TasksSyncType

LEMMA TasksAsked ==
    ASSUME NEW r \in TasksRequestType
    PROVE  /\ r.step \in Ta!Steps /\ r.todo \in Todos /\ r.other \in Todos
           /\ r.value \in TasksVersions
           /\ \A s \in Ta!Steps : /\ [r EXCEPT !.step = s] \in TasksRequestType /\ [r EXCEPT !.step = s].step = s
                              /\ [r EXCEPT !.step = s].todo = r.todo
                              /\ [r EXCEPT !.step = s].value = r.value
  BY DEF TasksRequestType

TasksAt(r, s, v) == [r EXCEPT !.step = s, !.value = v]
LEMMA TasksNumbered ==
    ASSUME NEW r \in TasksRequestType, NEW s \in Ta!Steps, NEW v \in TasksVersions
    PROVE  /\ TasksAt(r, s, v) \in TasksRequestType /\ TasksAt(r, s, v).step = s
           /\ TasksAt(r, s, v).todo = r.todo /\ TasksAt(r, s, v).value = v
  BY DEF TasksRequestType, TasksAt

LEMMA TasksMoved ==
    ASSUME NEW r \in TasksRequestType, NEW t \in Todos
    PROVE  /\ [r EXCEPT !.step = "create", !.todo = t] \in TasksRequestType
           /\ [r EXCEPT !.step = "create", !.todo = t].step = "create"
  BY DEF TasksRequestType, Ta!Steps

LEMMA TasksKeeps ==
    ASSUME NEW r, r.value \in Nat, NEW m \in Nat, NEW n \in Nat, m <= n, TasksKept(r, m)
    PROVE  TasksKept(r, n)
  <1>1. r.value <= m => r.value <= n
    OBVIOUS
  <1> QED
    BY <1>1 DEF TasksKept

LEMMA TasksInductive == ASSUME Ta!TasksAssumption, TasksInv, [Ta!Next]_Ta!vars PROVE TasksInv'
  <1>1. /\ Ta!TypeOK /\ TasksNumbers /\ TasksReached
        /\ google \in BOOLEAN /\ server \in [Todos -> TasksVersions]
        /\ row \in [Todos -> TasksVersions]
        /\ series \subseteq Todos /\ sync \in [Syncs -> TasksSyncType]
        /\ request \in [Changers -> TasksRequestType]
        /\ mine \in [Todos -> TasksVersions] /\ untold \subseteq Todos /\ parted \subseteq Todos
        /\ version \in TasksVersions /\ errors \in 0 .. MaxErrors
        /\ 0 \in TasksVersions /\ Ta!Idle \in TasksSyncType /\ Ta!NoRequest \in TasksRequestType
        /\ Ta!NoRequest.step = "none"
        /\ TasksVersions \subseteq Nat /\ MaxTasks \in Nat /\ MaxErrors \in Nat
    BY TasksTyped, TasksNothing DEF TasksInv, TasksVersions, Ta!TasksAssumption
  <1> USE <1>1
  <1>2. /\ Ta!NewVersion => version' \in TasksVersions /\ version' = version + 1 /\ version' # 0
        /\ Ta!Fails => errors' \in 0 .. MaxErrors
    BY DEF Ta!NewVersion, Ta!Fails, TasksVersions
  <1>3. ASSUME NEW t \in Todos, NEW v \in TasksVersions
        PROVE  Ta!Serve(t, v) => /\ server' \in [Todos -> TasksVersions] /\ server'[t] = v
                                 /\ \A u \in Todos \ {t} : server'[u] = server[u]
    BY DEF Ta!Serve
  (* What a synchronisation does does not touch the requests. *)
  <1>4. ASSUME NEW r \in Syncs, NEW s \in TasksSyncType, Ta!Step(r, s), errors' \in 0 .. MaxErrors,
               UNCHANGED <<google, server, row, series, request, mine, untold, parted, version>>
        PROVE  TasksInv'
    <2>1. sync' \in [Syncs -> TasksSyncType]
      BY <1>4 DEF Ta!Step
    <2>2. Ta!TypeOK'
      BY <1>4, <2>1, TasksWhole
    <2>3. TasksNumbers' /\ TasksReached'
      BY <1>4 DEF TasksNumbers, TasksReached, TasksOnItsWay
    <2> QED
      BY <2>2, <2>3 DEF TasksInv
  <1>5. ASSUME NEW r \in Syncs, Ta!sync_todos(r) PROVE TasksInv'
    <2>1. [Ta!Idle EXCEPT !.step = "list"] \in TasksSyncType
      BY TasksSynced, TasksNothing, <1>1 DEF Ta!Idle, TasksSyncType
    <2> QED
      BY <1>4, <1>5, <2>1 DEF Ta!sync_todos
  <1>6. ASSUME NEW r \in Syncs, Ta!List(r) PROVE TasksInv'
    <2>1. /\ sync[r] \in TasksSyncType
          /\ UNCHANGED <<google, server, row, series, request, mine, untold, parted, version>>
      BY <1>6 DEF Ta!List
    <2>2. [sync[r] EXCEPT !.step = "store", !.got = server] \in TasksSyncType
      BY <2>1 DEF TasksSyncType
    <2>3. [sync[r] EXCEPT !.step = "fetch", !.todo = {t \in Todos : server[t] # 0}] \in TasksSyncType
      BY <2>1 DEF TasksSyncType
    <2> QED
      BY <1>2, <1>4, <1>6, <2>1, <2>2, <2>3 DEF Ta!List, Ta!abgleichen, Ta!fetch_all_todos
  <1>7. ASSUME NEW r \in Syncs, NEW t \in Todos, Ta!fetch_event(r, t) PROVE TasksInv'
    <2>1. /\ sync[r] \in TasksSyncType
          /\ UNCHANGED <<google, server, row, series, request, mine, untold, parted, version>>
          /\ server[t] \in TasksVersions
      BY <1>7 DEF Ta!fetch_event
    <2> DEFINE S == sync[r].todo \ {t}
               f == [sync[r].got EXCEPT ![t] = server[t]]
    <2>2. S \in SUBSET Todos /\ f \in [Todos -> TasksVersions]
      BY <2>1 DEF TasksSyncType
    <2>3. /\ [sync[r] EXCEPT !.todo = S, !.got = f] \in TasksSyncType
          /\ [sync[r] EXCEPT !.todo = S] \in TasksSyncType
      BY <2>1, <2>2 DEF TasksSyncType
    <2>4. \/ Ta!Step(r, [sync[r] EXCEPT !.todo = S, !.got = f]) /\ UNCHANGED errors
          \/ Ta!Fails /\ Ta!Step(r, [sync[r] EXCEPT !.todo = S])
      BY <1>7 DEF Ta!fetch_event
    <2> HIDE DEF S, f
    <2> QED
      BY <1>2, <1>4, <2>1, <2>3, <2>4
  <1>8. ASSUME NEW r \in Syncs, Ta!Fetched(r) PROVE TasksInv'
    <2>1. [sync[r] EXCEPT !.step = "store"] \in TasksSyncType
      BY <1>8 DEF TasksSyncType
    <2> QED
      BY <1>4, <1>8, <2>1 DEF Ta!Fetched
  <1>9. ASSUME NEW r \in Syncs, Ta!Store(r) PROVE TasksInv'
    <2>1. /\ sync[r].got \in [Todos -> TasksVersions] /\ Ta!Step(r, Ta!Idle)
          /\ row' = Ta!upsert_todo(r)
          /\ parted' = parted \cup {t \in Todos : Ta!Pending(t) /\ row'[t] # row[t]}
          /\ UNCHANGED <<google, server, series, request, mine, untold, version, errors>>
      BY <1>9 DEF Ta!Store, TasksSyncType
    <2>2. row' \in [Todos -> TasksVersions]
      BY <2>1 DEF Ta!upsert_todo
    <2>3. sync' \in [Syncs -> TasksSyncType]
      BY <2>1 DEF Ta!Step
    <2>4. Ta!TypeOK'
      BY <2>1, <2>2, <2>3, TasksWhole
    <2>5. TasksNumbers' /\ TasksReached'
      BY <2>1, <2>2 DEF TasksNumbers, TasksReached, TasksOnItsWay
    <2> QED
      BY <2>4, <2>5 DEF TasksInv
  <1>10. ASSUME NEW q \in Changers, NEW new \in TasksRequestType, Ta!Req(q, new)
        PROVE  /\ request' \in [Changers -> TasksRequestType] /\ request'[q] = new
               /\ \A p \in Changers \ {q} : request'[p] = request[p]
    BY <1>10 DEF Ta!Req
  <1>11. \A t \in Todos : server[t] \in Nat /\ mine[t] \in Nat /\ row[t] \in Nat /\ mine[t] <= version /\ version \in Nat
    BY DEF TasksNumbers
  (* A request goes on: each task is left as it was, or it is written, or  *)
  (* on its way.                                                           *)
  <1>12. ASSUME NEW q \in Changers, NEW new \in TasksRequestType, Ta!Req(q, new), TasksKept(new, version'),
                UNCHANGED <<google, sync>>, series' \subseteq Todos, errors' \in 0 .. MaxErrors,
                parted' \subseteq Todos, untold' \subseteq Todos, version' \in {version, version + 1}, version' \in TasksVersions,
                server' \in [Todos -> TasksVersions], row' \in [Todos -> TasksVersions], mine' \in [Todos -> TasksVersions],
                \A t \in Todos : mine'[t] = mine[t] \/ mine'[t] <= version',
                \A t \in Todos \ (parted' \cup untold') :
                   \/ /\ t \notin parted \cup untold /\ server'[t] = server[t] /\ mine'[t] = mine[t]
                      /\ TasksCarries(request[q], t, mine[t]) => TasksCarries(new, t, mine[t])
                   \/ server'[t] = 0 \/ server'[t] >= mine'[t] \/ TasksCarries(new, t, mine'[t])
         PROVE  TasksInv'
    <2>1. Ta!TypeOK'
      BY <1>10, <1>12, TasksWhole
    <2>2. request'[q] = new /\ \A p \in Changers \ {q} : request'[p] = request[p]
      BY <1>10, <1>12
    <2>3. TasksNumbers'
      <3>1. version' \in Nat /\ version \in Nat /\ version <= version'
        BY <1>12
      <3>2. \A t \in Todos : mine'[t] <= version'
        BY <1>11, <1>12, <3>1
      <3>3. ASSUME NEW p \in Changers \ {q} PROVE TasksKept(request[p], version)'
        <4>1. request'[p] = request[p] /\ TasksKept(request[p], version) /\ request[p].value \in Nat
          BY <2>2, TasksAsked DEF TasksNumbers
        <4>2. TasksKept(request[p], version')
          BY <3>1, <4>1, TasksKeeps
        <4> QED
          BY <4>1, <4>2
      <3> QED
        BY <1>12, <2>2, <3>2, <3>3 DEF TasksNumbers
    <2>4. ASSUME NEW t \in Todos \ (parted' \cup untold')
          PROVE  server'[t] = 0 \/ server'[t] >= mine'[t] \/ TasksOnItsWay(t)'
      <3>1. CASE server'[t] = 0 \/ server'[t] >= mine'[t]
        BY <3>1
      <3>2. CASE TasksCarries(new, t, mine'[t])
        BY <2>2, <3>2 DEF TasksOnItsWay
      <3>3. CASE /\ t \notin parted \cup untold /\ server'[t] = server[t] /\ mine'[t] = mine[t]
                 /\ TasksCarries(request[q], t, mine[t]) => TasksCarries(new, t, mine[t])
        <4>1. server[t] = 0 \/ server[t] >= mine[t] \/ TasksOnItsWay(t)
          BY <3>3 DEF TasksReached
        <4>2. ASSUME NEW p \in Changers, TasksCarries(request[p], t, mine[t]) PROVE TasksCarries(request'[p], t, mine'[t])
          BY <2>2, <3>3, <4>2
        <4> QED
          BY <3>3, <4>1, <4>2 DEF TasksOnItsWay
      <3> QED
        BY <1>12, <3>1, <3>2, <3>3
    <2> QED
      BY <2>1, <2>3, <2>4 DEF TasksInv, TasksReached
  <1>13. ASSUME NEW q \in Changers
         PROVE  /\ request[q] \in TasksRequestType /\ request[q].step \in Ta!Steps /\ request[q].todo \in Todos
                /\ request[q].other \in Todos /\ request[q].value \in TasksVersions /\ request[q].value \in Nat
                /\ TasksKept(request[q], version)
    <2>1. request[q] \in TasksRequestType
      BY <1>13
    <2> QED
      BY <2>1, TasksAsked DEF TasksNumbers
  <1>14. ASSUME NEW q \in Changers, NEW s \in Ta!Steps
         PROVE  LET new == [request[q] EXCEPT !.step = s]
                IN new \in TasksRequestType /\ new.step = s /\ new.todo = request[q].todo /\ new.value = request[q].value
    <2>1. request[q] \in TasksRequestType
      BY <1>13
    <2> QED
      BY <1>14, <2>1, TasksAsked
  <1>15. ASSUME NEW q \in Changers, NEW s \in Ta!Steps, NEW v \in TasksVersions
         PROVE  /\ TasksAt(request[q], s, v) \in TasksRequestType
                /\ TasksAt(request[q], s, v).step = s
                /\ TasksAt(request[q], s, v).todo = request[q].todo
                /\ TasksAt(request[q], s, v).value = v
    <2>1. request[q] \in TasksRequestType
      BY <1>13
    <2> QED
      BY <1>15, <2>1, TasksNumbered
  <1>16. \A s \in {"none", "create", "insert", "patch", "fields", "read", "write", "done", "done write", "next", "delete",
                    "drop", "twin", "drop twin"} : s \in Ta!Steps
    BY DEF Ta!Steps
  <1>17. ASSUME NEW q \in Changers, NEW s \in Ta!Steps, NEW t \in Todos, NEW u \in Todos, NEW v \in TasksVersions,
                Ta!Ask(q, s, t, u, v), (UNCHANGED version) \/ (Ta!NewVersion /\ v = version + 1),
                s \in {"delete", "drop", "twin"} => v = version', s # "drop twin"
         PROVE  TasksInv'
    <2> DEFINE new == [step |-> s, todo |-> t, other |-> u, value |-> v]
    <2>1. /\ Ta!Req(q, new) /\ request[q].step = "none"
          /\ UNCHANGED <<google, server, row, series, sync, mine, untold, parted, errors>>
      BY <1>17 DEF Ta!Ask, Ta!Is
    <2>2. new \in TasksRequestType /\ new.step = s /\ new.value = v
      BY DEF TasksRequestType
    <2> HIDE DEF new
    <2>3. version' \in {version, version + 1} /\ version' \in TasksVersions
      BY <1>2, <1>17
    <2>4. TasksKept(new, version')
      <3>1. version' <= version'
        BY <2>3
      <3> QED
        BY <1>17, <2>2, <3>1 DEF TasksKept
    <2>5. \A w \in Todos : ~TasksCarries(request[q], w, mine[w])
      BY <2>1 DEF TasksCarries
    <2> QED
      BY <1>12, <2>1, <2>2, <2>3, <2>4, <2>5
  <1>18. TasksKept(Ta!NoRequest, version) /\ (version + 1 \in Nat => TasksKept(Ta!NoRequest, version + 1))
    BY DEF TasksKept
  <1>19. ASSUME NEW new \in TasksRequestType, NEW n \in Nat, new.step \notin {"delete", "drop", "twin", "drop twin"}
         PROVE  TasksKept(new, n)
    BY <1>19 DEF TasksKept
  <1>20. ASSUME NEW q \in Changers, Ta!im_ziel_anlegen(q) PROVE TasksInv'
    <2> DEFINE new == TasksAt(request[q], "insert", version + 1)
    <2>1. PICK t \in Todos : t = request[q].todo
      BY <1>13
    <2>2. /\ request[q].step = "create" /\ Ta!NewVersion
          /\ UNCHANGED <<google, row, series, sync, mine, untold, parted>>
          /\ \/ Ta!Serve(t, version + 1) /\ UNCHANGED errors /\ Ta!Req(q, new)
             \/ Ta!Fails /\ Ta!Req(q, Ta!NoRequest) /\ (Ta!Serve(t, version + 1) \/ UNCHANGED server)
      BY <1>20, <2>1 DEF Ta!im_ziel_anlegen, Ta!Is, Ta!End, TasksAt
    <2>3. /\ version' \in TasksVersions /\ version' = version + 1 /\ errors' \in 0 .. MaxErrors
      BY <1>2, <2>2
    <2>4. new \in TasksRequestType /\ new.step = "insert"
      <3>1. "insert" \in Ta!Steps /\ version + 1 \in TasksVersions
        BY <1>16, <2>3
      <3> QED
        BY <1>15, <3>1
    <2> HIDE DEF new
    <2>5. \E n \in TasksRequestType : Ta!Req(q, n) /\ TasksKept(n, version')
      BY <1>18, <1>19, <2>2, <2>3, <2>4
    <2>6. /\ server' \in [Todos -> TasksVersions]
          /\ \A u \in Todos : server'[u] \in {server[u], version + 1}
      BY <1>3, <2>2, <2>3
    <2>7. \A u \in Todos : server'[u] = server[u] \/ server'[u] >= mine'[u]
      BY <1>11, <2>2, <2>6
    <2>8. \A u \in Todos : ~TasksCarries(request[q], u, mine[u])
      BY <2>2 DEF TasksCarries
    <2> QED
      BY <1>12, <2>2, <2>3, <2>5, <2>6, <2>7, <2>8
  <1>21. ASSUME NEW q \in Changers, Ta!Insert(q) PROVE TasksInv'
    <2>1. PICK t \in Todos : t = request[q].todo
      BY <1>13
    <2>2. /\ request[q].step = "insert" /\ row' = [row EXCEPT ![t] = request[q].value]
          /\ Ta!Req(q, Ta!NoRequest)
          /\ UNCHANGED <<google, server, series, sync, mine, untold, parted, version, errors>>
      BY <1>21, <2>1 DEF Ta!Insert, Ta!Is, Ta!End
    <2>3. row' \in [Todos -> TasksVersions]
      BY <1>13, <2>2
    <2>4. \A u \in Todos : ~TasksCarries(request[q], u, mine[u])
      BY <2>2 DEF TasksCarries
    <2> QED
      BY <1>12, <1>18, <2>2, <2>3, <2>4
  (* The user's change: on its way from here on. *)
  <1>22. ASSUME NEW q \in Changers, NEW s \in {"fields", "read"}, Ta!Patch(q),
                Ta!Req(q, [request[q] EXCEPT !.step = s, !.value = version + 1])
         PROVE  TasksInv'
    <2> DEFINE new == TasksAt(request[q], s, version + 1)
    <2>1. PICK t \in Todos : t = request[q].todo
      BY <1>13
    <2>2. /\ Ta!NewVersion /\ row' = [row EXCEPT ![t] = version + 1] /\ mine' = [mine EXCEPT ![t] = version + 1]
          /\ untold' = untold \ {t} /\ UNCHANGED <<google, server, series, sync, parted, errors>>
      BY <1>22, <2>1 DEF Ta!Patch
    <2>3. version' \in TasksVersions /\ version' = version + 1 /\ version' # 0 /\ version + 1 \in TasksVersions
      BY <1>2, <2>2
    <2>4. new \in TasksRequestType /\ new.step = s /\ new.todo = t /\ new.value = version + 1
      <3>1. s \in Ta!Steps
        BY <1>16, <1>22
      <3> QED
        BY <1>15, <2>1, <2>3, <3>1
    <2>5. Ta!Req(q, new)
      BY <1>22 DEF TasksAt
    <2> HIDE DEF new
    <2>6. /\ row' \in [Todos -> TasksVersions] /\ mine' \in [Todos -> TasksVersions] /\ mine'[t] = version + 1
          /\ \A u \in Todos \ {t} : mine'[u] = mine[u]
      BY <2>2, <2>3
    <2>7. TasksCarries(new, t, mine'[t]) /\ \A u \in Todos \ {t} : ~TasksCarries(request[q], u, mine[u])
      BY <2>1, <2>3, <2>4, <2>6 DEF TasksCarries
    <2>8. TasksKept(new, version')
      BY <2>4 DEF TasksKept
    <2>9. \A u \in Todos : mine'[u] = mine[u] \/ mine'[u] <= version'
      BY <2>3, <2>6
    <2>10. \A u \in Todos \ (parted' \cup untold') : u # t => u \notin parted \cup untold
      BY <2>2
    <2> QED
      BY <1>12, <2>2, <2>3, <2>4, <2>5, <2>6, <2>7, <2>8, <2>9, <2>10
  <1>23. ASSUME NEW q \in Changers, Ta!set_completed(q) PROVE TasksInv'
    <2> DEFINE new == [request[q] EXCEPT !.step = "fields"]
    <2>1. CASE Ta!Patch(q) /\ Ta!Req(q, [request[q] EXCEPT !.step = "fields", !.value = version + 1])
      BY <1>22, <2>1
    <2>2. CASE Ta!Pass(q, "fields")
      <3>1. /\ Ta!Req(q, new) /\ request[q].step = "patch"
            /\ UNCHANGED <<google, server, row, series, sync, mine, untold, parted, version, errors>>
        BY <1>23, <2>2 DEF Ta!set_completed, Ta!Pass, Ta!Go, Ta!Is
      <3>2. new \in TasksRequestType /\ new.step = "fields"
        BY <1>14, <1>16
      <3> HIDE DEF new
      <3>3. TasksKept(new, version) /\ \A u \in Todos : ~TasksCarries(request[q], u, mine[u])
        BY <3>1, <3>2 DEF TasksKept, TasksCarries
      <3> QED
        BY <1>12, <3>1, <3>2, <3>3
    <2> QED
      BY <1>23, <2>1, <2>2 DEF Ta!set_completed
  <1>24. ASSUME NEW q \in Changers, Ta!update_todo(q) PROVE TasksInv'
    <2> DEFINE new == [request[q] EXCEPT !.step = "read"]
    <2>1. CASE Ta!Patch(q) /\ Ta!Req(q, [request[q] EXCEPT !.step = "read", !.value = version + 1])
      BY <1>22, <2>1
    <2>2. CASE Ta!Pass(q, "read")
      <3>1. /\ Ta!Req(q, new) /\ request[q].step = "fields"
            /\ UNCHANGED <<google, server, row, series, sync, mine, untold, parted, version, errors>>
        BY <1>24, <2>2 DEF Ta!update_todo, Ta!Pass, Ta!Go, Ta!Is
      <3>2. new \in TasksRequestType /\ new.step = "read" /\ new.todo = request[q].todo /\ new.value = request[q].value
        BY <1>14, <1>16
      <3> HIDE DEF new
      <3>3. TasksKept(new, version)
        BY <3>2 DEF TasksKept
      <3>4. \A u \in Todos : TasksCarries(request[q], u, mine[u]) => TasksCarries(new, u, mine[u]) \/ server[u] >= mine[u]
        <4>1. \A u \in Todos : server[u] \in Nat
          BY <1>11
        <4> QED
          BY <3>1, <3>2, <4>1 DEF TasksCarries
      <3> QED
        BY <1>12, <3>1, <3>2, <3>3, <3>4
    <2> QED
      BY <1>24, <2>1, <2>2 DEF Ta!update_todo
  <1>25. ASSUME NEW q \in Changers, Ta!parse_due(q) PROVE TasksInv'
    <2>1. PICK t \in Todos : t = request[q].todo
      BY <1>13
    <2>2. /\ Ta!Req(q, Ta!NoRequest) /\ request[q].step = "fields"
          /\ untold' = IF request[q].value # 0 /\ request[q].value = mine[t] THEN untold \cup {t} ELSE untold
          /\ UNCHANGED <<google, server, row, series, sync, mine, parted, version, errors>>
      BY <1>25, <2>1 DEF Ta!parse_due, Ta!End, Ta!Is
    <2>3. \A u \in Todos \ (parted' \cup untold') : TasksCarries(request[q], u, mine[u]) => server[u] >= mine[u]
      BY <1>11, <2>1, <2>2 DEF TasksCarries
    <2>4. untold \subseteq untold' /\ untold' \subseteq Todos
      BY <2>2
    <2> QED
      BY <1>12, <1>18, <2>2, <2>3, <2>4
  <1>26. ASSUME NEW q \in Changers, Ta!find_todo(q) PROVE TasksInv'
    <2>1. PICK t \in Todos : t = request[q].todo
      BY <1>13
    <2> DEFINE new == TasksAt(request[q], "write", row[t])
    <2>2. /\ request[q].step = "read" /\ UNCHANGED <<google, server, row, series, sync, mine, untold, version, errors>>
          /\ \/ /\ Ta!Req(q, Ta!NoRequest)
                /\ parted' = IF request[q].value = 0 THEN parted ELSE parted \cup {t}
             \/ Ta!Req(q, new) /\ UNCHANGED parted
      BY <1>26, <2>1 DEF Ta!find_todo, Ta!Is, Ta!End, TasksAt
    <2>3. new \in TasksRequestType /\ new.step = "write" /\ new.todo = t
      <3>1. "write" \in Ta!Steps /\ row[t] \in TasksVersions
        BY <1>16
      <3>2. \A v \in TasksVersions : /\ TasksAt(request[q], "write", v) \in TasksRequestType
                                     /\ TasksAt(request[q], "write", v).step = "write"
                                     /\ TasksAt(request[q], "write", v).todo = request[q].todo
        BY <1>15, <3>1
      <3> QED
        BY <2>1, <3>1, <3>2
    <2> HIDE DEF new
    <2>4. CASE /\ Ta!Req(q, Ta!NoRequest)
               /\ parted' = IF request[q].value = 0 THEN parted ELSE parted \cup {t}
      <3>1. \A u \in Todos \ (parted' \cup untold') : ~TasksCarries(request[q], u, mine[u]) /\ u \notin parted
        BY <2>1, <2>2, <2>4 DEF TasksCarries
      <3>2. parted' \subseteq Todos
        BY <2>4
      <3> QED
        BY <1>12, <1>18, <2>2, <2>4, <3>1, <3>2
    <2>5. CASE Ta!Req(q, new) /\ UNCHANGED parted
      <3>1. TasksKept(new, version) /\ \A u \in Todos : TasksCarries(request[q], u, mine[u]) => TasksCarries(new, u, mine[u])
        BY <2>1, <2>3 DEF TasksKept, TasksCarries
      <3> QED
        BY <1>12, <2>2, <2>3, <2>5, <3>1
    <2> QED
      BY <2>2, <2>4, <2>5
  (* A request that was on its way ends there, or leaves its task parted.  *)
  <1>27. ASSUME NEW q \in Changers, NEW new \in TasksRequestType, Ta!Req(q, new), TasksKept(new, version),
                NEW t \in Todos, t = request[q].todo, NEW v \in TasksVersions, v = request[q].value,
                UNCHANGED <<google, row, series, sync, mine, untold, version>>,
                errors' \in 0 .. MaxErrors, Ta!Serve(t, v) \/ UNCHANGED server,
                \/ Ta!Serve(t, v) /\ parted' = IF mine[t] > v THEN parted \cup {t} ELSE parted
                \/ parted' = parted \cup {t}
         PROVE  TasksInv'
    <2>1. server' \in [Todos -> TasksVersions] /\ \A u \in Todos \ {t} : server'[u] = server[u]
      BY <1>3, <1>27
    <2>2. t \in parted' \/ server'[t] >= mine'[t]
      <3>1. Ta!Serve(t, v) => server'[t] = v
        BY <1>3
      <3>2. v \in Nat /\ mine[t] \in Nat
        BY <1>11
      <3> QED
        BY <1>27, <3>1, <3>2
    <2>3. parted \subseteq parted' /\ parted' \subseteq Todos
      BY <1>27
    <2>4. \A u \in Todos \ {t} : ~TasksCarries(request[q], u, mine[u])
      BY <1>27 DEF TasksCarries
    <2>5. \A u \in Todos \ (parted' \cup untold') :
             \/ /\ u \notin parted \cup untold /\ server'[u] = server[u] /\ mine'[u] = mine[u]
                /\ ~TasksCarries(request[q], u, mine[u])
             \/ server'[u] >= mine'[u]
      BY <1>27, <2>1, <2>2, <2>3, <2>4
    <2>6. \A u \in Todos : mine'[u] = mine[u]
      BY <1>27
    <2> QED
      BY <1>12, <1>27, <2>1, <2>3, <2>5, <2>6
  <1>28. ASSUME NEW q \in Changers, Ta!WriteBack(q) PROVE TasksInv'
    <2>1. PICK t \in Todos, v \in TasksVersions : t = request[q].todo /\ v = request[q].value
      BY <1>13
    <2>2. /\ Ta!Req(q, Ta!NoRequest) /\ UNCHANGED <<google, row, series, sync, mine, untold, version>>
          /\ \/ /\ Ta!Serve(t, v) /\ UNCHANGED errors
                /\ parted' = IF mine[t] > v THEN parted \cup {t} ELSE parted
             \/ parted' = parted \cup {t} /\ UNCHANGED <<server, errors>>
             \/ Ta!Fails /\ parted' = parted \cup {t} /\ (Ta!Serve(t, v) \/ UNCHANGED server)
      BY <1>28, <2>1 DEF Ta!WriteBack, Ta!End, Ta!Written
    <2>3. errors' \in 0 .. MaxErrors
      BY <1>2, <2>2
    <2> QED
      BY <1>18, <1>27, <2>1, <2>2, <2>3
  <1>29. ASSUME NEW q \in Changers, Ta!TellGoogle(q) PROVE TasksInv'
    <2> DEFINE new == [request[q] EXCEPT !.step = "next"]
    <2>1. PICK t \in Todos, v \in TasksVersions : t = request[q].todo /\ v = request[q].value
      BY <1>13
    <2>2. /\ Ta!Req(q, new) /\ UNCHANGED <<google, row, series, sync, mine, untold, version>>
          /\ \/ /\ Ta!Serve(t, v) /\ UNCHANGED errors
                /\ parted' = IF mine[t] > v THEN parted \cup {t} ELSE parted
             \/ parted' = parted \cup {t} /\ UNCHANGED <<server, errors>>
             \/ Ta!Fails /\ parted' = parted \cup {t} /\ (Ta!Serve(t, v) \/ UNCHANGED server)
      BY <1>29, <2>1 DEF Ta!TellGoogle, Ta!Go
    <2>3. errors' \in 0 .. MaxErrors
      BY <1>2, <2>2
    <2>4. new \in TasksRequestType /\ new.step = "next"
      BY <1>14, <1>16
    <2> HIDE DEF new
    <2>5. TasksKept(new, version)
      BY <2>4 DEF TasksKept
    <2> QED
      BY <1>27, <2>1, <2>2, <2>3, <2>4, <2>5
  <1>30. ASSUME NEW q \in Changers, Ta!MarkDone(q) PROVE TasksInv'
    <2>1. PICK t \in Todos : t = request[q].todo
      BY <1>13
    <2>2. /\ request[q].step = "done" /\ Ta!NewVersion
          /\ UNCHANGED <<google, server, series, sync, errors>>
          /\ \/ UNCHANGED <<row, mine, untold, parted>>
             \/ /\ row' = [row EXCEPT ![t] = version + 1] /\ mine' = [mine EXCEPT ![t] = version + 1]
                /\ untold' = IF Ta!Told(t) THEN untold \ {t} ELSE untold \cup {t}
                /\ parted \subseteq parted' /\ parted' \subseteq Todos
      BY <1>30, <2>1 DEF Ta!MarkDone, Ta!Is
    <2>3. version' \in TasksVersions /\ version' = version + 1 /\ version + 1 \in TasksVersions
      BY <1>2, <2>2
    <2>4. PICK new \in TasksRequestType : /\ Ta!Req(q, new) /\ TasksKept(new, version')
                                          /\ Ta!Told(t) => new.step = "done write" /\ new.todo = t
      <3>1. CASE t \in series
        <4> DEFINE s == IF google THEN "done write" ELSE "next"
                   n == TasksAt(request[q], s, version + 1)
        <4>1. Ta!Req(q, n)
          BY <1>30, <2>1, <3>1 DEF Ta!MarkDone, TasksAt
        <4>2. n \in TasksRequestType /\ n.step = s /\ n.todo = t
          <5>1. s \in Ta!Steps
            BY <1>16
          <5> HIDE DEF s
          <5>2. n.step = s /\ n.todo = request[q].todo /\ n \in TasksRequestType
            BY <1>15, <2>3, <5>1
          <5> QED
            BY <2>1, <5>2
        <4>3. TasksKept(n, version') /\ (google => n.step = "done write")
          BY <4>2 DEF TasksKept
        <4> HIDE DEF n
        <4> QED
          BY <4>1, <4>2, <4>3 DEF Ta!Told
      <3>2. CASE t \notin series
        BY <1>18, <1>30, <2>1, <2>3, <3>2 DEF Ta!MarkDone, Ta!End, Ta!Told
      <3> QED
        BY <3>1, <3>2
    <2>5. \A u \in Todos : ~TasksCarries(request[q], u, mine[u])
      BY <2>2 DEF TasksCarries
    <2>6. CASE UNCHANGED <<row, mine, untold, parted>>
      BY <1>12, <2>2, <2>3, <2>4, <2>5, <2>6
    <2>7. CASE /\ row' = [row EXCEPT ![t] = version + 1] /\ mine' = [mine EXCEPT ![t] = version + 1]
               /\ untold' = IF Ta!Told(t) THEN untold \ {t} ELSE untold \cup {t}
               /\ parted \subseteq parted' /\ parted' \subseteq Todos
      <3>1. /\ row' \in [Todos -> TasksVersions] /\ mine' \in [Todos -> TasksVersions] /\ mine'[t] = version + 1
            /\ \A u \in Todos \ {t} : mine'[u] = mine[u]
        BY <2>3, <2>7
      <3>2. t \in untold' \/ TasksCarries(new, t, mine'[t])
        BY <2>4, <2>7 DEF TasksCarries
      <3>3. untold' \subseteq Todos /\ \A u \in Todos \ (parted' \cup untold') : u # t => u \notin parted \cup untold
        BY <2>7
      <3>4. \A u \in Todos : mine'[u] = mine[u] \/ mine'[u] <= version'
        BY <2>3, <3>1
      <3> QED
        BY <1>12, <2>2, <2>3, <2>4, <2>5, <2>7, <3>1, <3>2, <3>3, <3>4
    <2> QED
      BY <2>2, <2>6, <2>7
  <1>31. ASSUME NEW q \in Changers, Ta!Successor(q) PROVE TasksInv'
    <2> DEFINE new == [request[q] EXCEPT !.step = "create", !.todo = request[q].other]
    <2>1. /\ request[q].step = "next" /\ Ta!Req(q, new) /\ series' = series \cup {request[q].other}
          /\ UNCHANGED <<google, server, row, sync, mine, untold, parted, version, errors>>
      BY <1>31 DEF Ta!Successor, Ta!Is
    <2>2. request[q].other \in Todos /\ request[q] \in TasksRequestType
      BY <1>13
    <2>3. new \in TasksRequestType /\ new.step = "create"
      BY <2>2, TasksMoved
    <2> HIDE DEF new
    <2>4. TasksKept(new, version) /\ \A u \in Todos : ~TasksCarries(request[q], u, mine[u])
      BY <2>1, <2>3 DEF TasksKept, TasksCarries
    <2> QED
      BY <1>12, <2>1, <2>2, <2>3, <2>4
  (* A deletion, with the number it has kept. *)
  <1>32. ASSUME NEW q \in Changers, NEW t \in Todos, request[q].step \in {"delete", "drop", "twin", "drop twin"},
                NEW new \in TasksRequestType, Ta!Req(q, new), TasksKept(new, version),
                UNCHANGED <<google, series, sync, version>>, errors' \in 0 .. MaxErrors,
                row' \in [Todos -> TasksVersions], Ta!Serve(t, 0) \/ UNCHANGED server,
                Ta!Mine(q, t) \/ UNCHANGED mine,
                parted' \in {parted, parted \cup {t}}, untold' \in {untold, untold \cup {t}},
                t \in parted' \cup untold' \/ Ta!Serve(t, 0) \/ (UNCHANGED <<server, mine>>)
         PROVE  TasksInv'
    <2>1. /\ server' \in [Todos -> TasksVersions] /\ (Ta!Serve(t, 0) => server'[t] = 0)
          /\ \A u \in Todos \ {t} : server'[u] = server[u]
      BY <1>3, <1>32
    <2>2. /\ mine' \in [Todos -> TasksVersions]
          /\ \A u \in Todos : mine'[u] = mine[u] \/ mine'[u] <= version'
          /\ \A u \in Todos \ {t} : mine'[u] = mine[u]
      <3>1. request[q].value \in TasksVersions /\ request[q].value <= version
        BY <1>13, <1>32 DEF TasksKept
      <3> QED
        BY <1>32, <3>1 DEF Ta!Mine
    <2>3. \A u \in Todos : ~TasksCarries(request[q], u, mine[u])
      BY <1>32 DEF TasksCarries
    <2>4. /\ parted' \subseteq Todos /\ untold' \subseteq Todos
          /\ \A u \in Todos \ (parted' \cup untold') : u \notin parted \cup untold
      BY <1>32
    <2>5. version' \in {version, version + 1} /\ version' \in TasksVersions /\ version' = version
      BY <1>32
    <2>6. \A u \in Todos \ (parted' \cup untold') : (server'[u] = server[u] /\ mine'[u] = mine[u]) \/ server'[u] = 0
      BY <1>32, <2>1, <2>2
    <2> QED
      BY <1>12, <1>32, <2>1, <2>2, <2>3, <2>4, <2>5, <2>6
  <1>33. ASSUME NEW q \in Changers, Ta!loeschen(q) PROVE TasksInv'
    <2> DEFINE new == [request[q] EXCEPT !.step = "drop"]
    <2>1. PICK t \in Todos : t = request[q].todo
      BY <1>13
    <2>2. /\ request[q].step = "delete" /\ UNCHANGED <<google, row, series, sync, untold, parted, version>>
          /\ \/ Ta!Serve(t, 0) /\ Ta!Mine(q, t) /\ Ta!Req(q, new) /\ UNCHANGED errors
             \/ Ta!Fails /\ Ta!Req(q, Ta!NoRequest) /\ (Ta!Serve(t, 0) \/ UNCHANGED server) /\ UNCHANGED mine
      BY <1>33, <2>1 DEF Ta!loeschen, Ta!Is, Ta!End, Ta!Go
    <2>3. new \in TasksRequestType /\ new.step = "drop" /\ new.value = request[q].value
      BY <1>14, <1>16
    <2> HIDE DEF new
    <2>4. TasksKept(new, version) /\ errors' \in 0 .. MaxErrors
      BY <1>2, <1>13, <2>2, <2>3 DEF TasksKept
    <2> QED
      BY <1>18, <1>32, <2>2, <2>3, <2>4
  <1>34. ASSUME NEW t \in Todos, Ta!Remove(t) PROVE row' \in [Todos -> TasksVersions]
    BY <1>34 DEF Ta!Remove
  <1>35. ASSUME NEW q \in Changers, Ta!Drop(q) PROVE TasksInv'
    <2>1. PICK t \in Todos : t = request[q].todo
      BY <1>13
    <2>2. /\ request[q].step = "drop" /\ Ta!Req(q, Ta!NoRequest) /\ Ta!Remove(t)
          /\ UNCHANGED <<google, server, series, sync, parted, version, errors>>
          /\ (UNCHANGED <<mine, untold>>) \/ (Ta!Mine(q, t) /\ untold' = untold \cup {t})
      BY <1>35, <2>1 DEF Ta!Drop, Ta!Is, Ta!End
    <2> QED
      BY <1>18, <1>32, <1>34, <2>2
  <1>36. ASSUME NEW q \in Changers, Ta!DeleteTwin(q) PROVE TasksInv'
    <2> DEFINE new == [request[q] EXCEPT !.step = "drop twin"]
    <2>1. PICK t \in Todos : t = request[q].other
      BY <1>13
    <2>2. /\ request[q].step = "twin" /\ Ta!Req(q, new)
          /\ UNCHANGED <<google, row, series, sync, untold, version>>
          /\ \/ Ta!Serve(t, 0) /\ Ta!Mine(q, t) /\ UNCHANGED <<parted, errors>>
             \/ UNCHANGED <<server, mine, parted, errors>>
             \/ Ta!Fails /\ Ta!Mine(q, t) /\ parted' = parted \cup {t} /\ UNCHANGED server
      BY <1>36, <2>1 DEF Ta!DeleteTwin, Ta!Is, Ta!Go
    <2>3. new \in TasksRequestType /\ new.step = "drop twin" /\ new.value = request[q].value
      BY <1>14, <1>16
    <2> HIDE DEF new
    <2>4. TasksKept(new, version) /\ errors' \in 0 .. MaxErrors
      BY <1>2, <1>13, <2>2, <2>3 DEF TasksKept
    <2> QED
      BY <1>32, <2>2, <2>3, <2>4
  <1>37. ASSUME NEW q \in Changers, Ta!DropTwin(q) PROVE TasksInv'
    <2> DEFINE new == TasksAt(request[q], "fields", 0)
    <2>1. PICK t \in Todos : t = request[q].other
      BY <1>13
    <2>2. /\ request[q].step = "drop twin" /\ Ta!Remove(t)
          /\ UNCHANGED <<google, server, series, sync, parted, version, errors>>
          /\ (UNCHANGED <<mine, untold>>) \/ (Ta!Mine(q, t) /\ untold' = untold \cup {t})
          /\ Ta!Req(q, Ta!NoRequest) \/ Ta!Req(q, new)
      BY <1>37, <2>1 DEF Ta!DropTwin, Ta!Is, Ta!End, TasksAt
    <2>3. new \in TasksRequestType /\ new.step = "fields"
      <3>1. "fields" \in Ta!Steps
        BY <1>16
      <3> QED
        BY <1>15, <3>1
    <2> HIDE DEF new
    <2>4. TasksKept(new, version)
      BY <2>3 DEF TasksKept
    <2>5. PICK n \in TasksRequestType : Ta!Req(q, n) /\ TasksKept(n, version)
      BY <1>18, <2>2, <2>3, <2>4
    <2> QED
      BY <1>32, <1>34, <2>2, <2>5
  <1>38. ASSUME NEW t \in Todos, Ta!Elsewhere(t) PROVE TasksInv'
    <2>1. /\ Ta!NewVersion /\ (Ta!Serve(t, version + 1) \/ Ta!Serve(t, 0))
          /\ UNCHANGED <<google, row, series, sync, request, mine, untold, parted, errors>>
      BY <1>38 DEF Ta!Elsewhere
    <2>2. version' \in TasksVersions /\ version' = version + 1
      BY <1>2, <2>1
    <2>3. /\ server' \in [Todos -> TasksVersions]
          /\ \A u \in Todos : server'[u] \in {0, server[u], version + 1}
      BY <1>3, <2>1, <2>2
    <2>4. Ta!TypeOK'
      BY <2>1, <2>2, <2>3, TasksWhole
    <2>5. TasksNumbers'
      <3>1. \A q \in Changers : request[q].value \in Nat /\ TasksKept(request[q], version)
        BY <1>13
      <3> QED
        <4>1. version \in Nat /\ version' \in Nat /\ version <= version' /\ \A u \in Todos : mine[u] <= version'
          BY <1>11, <2>2
        <4>2. \A q \in Changers : TasksKept(request[q], version')
          BY <3>1, <4>1, TasksKeeps
        <4> QED
          BY <2>1, <4>1, <4>2 DEF TasksNumbers
    <2>6. ASSUME NEW u \in Todos \ (parted' \cup untold')
          PROVE  server'[u] = 0 \/ server'[u] >= mine'[u] \/ TasksOnItsWay(u)'
      <3>1. server[u] = 0 \/ server[u] >= mine[u] \/ TasksOnItsWay(u)
        BY <2>1 DEF TasksReached
      <3>2. TasksOnItsWay(u) => TasksOnItsWay(u)'
        BY <2>1 DEF TasksOnItsWay
      <3> QED
        BY <1>11, <2>1, <2>2, <2>3, <3>1, <3>2
    <2> QED
      BY <2>4, <2>5, <2>6 DEF TasksInv, TasksReached
  <1>39. ASSUME UNCHANGED Ta!vars PROVE TasksInv'
    <2>1. UNCHANGED <<google, server, row, series, sync, request, mine, untold, parted, version, errors>>
      BY <1>39 DEF Ta!vars
    <2>2. Ta!TypeOK'
      BY <2>1, TasksWhole
    <2>3. TasksNumbers' /\ TasksReached'
      BY <2>1 DEF TasksNumbers, TasksReached, TasksOnItsWay
    <2> QED
      BY <2>2, <2>3 DEF TasksInv
  <1>40. ASSUME NEW q \in Changers, NEW t \in Todos,
                Ta!quick_add_todo(q, t) \/ Ta!consolidate_todos(q, t) \/ Ta!delete_todo(q, t)
                  \/ \E other \in Todos : Ta!succeed_todo(q, t, other) \/ Ta!dedupe_todos(q, t, other)
         PROVE  TasksInv'
    <2>1. CASE Ta!quick_add_todo(q, t) \/ Ta!consolidate_todos(q, t)
      BY <1>16, <1>17, <2>1 DEF Ta!quick_add_todo, Ta!create_todo, Ta!consolidate_todos, Ta!toggle_todo
    <2>2. CASE Ta!delete_todo(q, t)
      BY <1>2, <1>16, <1>17, <2>2 DEF Ta!delete_todo
    <2>3. ASSUME NEW other \in Todos, Ta!succeed_todo(q, t, other) PROVE TasksInv'
      <3>1. row[t] \in TasksVersions
        OBVIOUS
      <3> QED
        BY <1>16, <1>17, <2>3, <3>1 DEF Ta!succeed_todo
    <2>4. ASSUME NEW other \in Todos, Ta!dedupe_todos(q, t, other) PROVE TasksInv'
      BY <1>2, <1>16, <1>17, <2>4 DEF Ta!dedupe_todos
    <2> QED
      BY <1>40, <2>1, <2>2, <2>3, <2>4
  <1>41. ASSUME NEW q \in Changers, Ta!Handle(q) PROVE TasksInv'
    BY <1>20, <1>21, <1>23, <1>24, <1>25, <1>26, <1>28, <1>29, <1>30, <1>31, <1>33, <1>35, <1>36, <1>37, <1>41
       DEF Ta!Handle
  <1>42. ASSUME NEW r \in Syncs, Ta!sync_todos(r) \/ Ta!Work(r) PROVE TasksInv'
    BY <1>5, <1>6, <1>7, <1>8, <1>9, <1>42 DEF Ta!Work
  <1> QED
    BY <1>38, <1>39, <1>40, <1>41, <1>42 DEF Ta!Next

(* With no request under way, no change is left on its way. *)
LEMMA TasksReaches == ASSUME TasksInv PROVE Ta!ChangesReachProvider
  <1> SUFFICES ASSUME \A q \in Changers : Ta!Is(q, "none"), NEW t \in Todos \ (parted \cup untold), server[t] # 0
               PROVE  server[t] >= mine[t]
    BY DEF Ta!ChangesReachProvider
  <1>1. ~TasksOnItsWay(t)
    BY DEF TasksOnItsWay, TasksCarries, Ta!Is
  <1> QED
    BY <1>1 DEF TasksInv, TasksReached

-----------------------------------------------------------------------------
(***************************************************************************)
(* Invitations: the status shown is that of the last answer (imip/).       *)
(***************************************************************************)
InvitationsMailType == [method : {"REQUEST", "REPLY", "CANCEL"}, from : In!Everyone, stat : In!Stats]
InvitationsRequestType == [step : {"none", "send", "rows", "put", "save", "reply", "mark", "queue"},
                           people : SUBSET People, todo : SUBSET People, decision : In!Decisions, queue : BOOLEAN]

(* Answers are mails of the people, announcements of the organiser. *)
InvitationsFromPeople == \A i \in 1 .. Len(mails) : mails[i].from \in People <=> mails[i].method = "REPLY"
(* The last mail of a person is the person's answer. *)
InvitationsLastAnswers == \A p \in People :
    /\ answer[p] = "none" => \A i \in 1 .. Len(mails) : mails[i].from # p
    /\ answer[p] # "none" => \E i \in 1 .. Len(mails) : /\ mails[i].from = p /\ mails[i].stat = answer[p]
                                                        /\ \A j \in 1 .. Len(mails) : mails[j].from = p => j <= i
(* The last mail handled is the status shown. *)
InvitationsLastHandled == \A p \in People \ crossed : \A i \in handled :
               mails[i].from = p /\ (\A j \in handled : mails[j].from = p => j <= i) => invitation[p] = mails[i].stat
(* The user's decision is shown once it was sent. *)
InvitationsSent == /\ request.step \in {"mark", "queue"} => request.decision \in replied
                   /\ invitation[Me] \in In!Decisions => own \/ invitation[Me] \in replied
InvitationsInv == In!TypeOK /\ InvitationsFromPeople /\ InvitationsLastAnswers /\ InvitationsLastHandled /\ InvitationsSent

LEMMA InvitationsSimple == /\ Me \in In!Everyone /\ People \subseteq In!Everyone
                           /\ In!Nobody \in [In!Everyone -> In!Stats] /\ In!Nobody[Me] = "none"
                           /\ In!NoRequest \in InvitationsRequestType /\ In!NoRequest.step = "none"
  BY DEF In!Everyone, In!Stats, In!Nobody, In!NoRequest, InvitationsRequestType, In!Decisions

LEMMA InvitationsEvents ==
    ASSUME In!InvitationsAssumption
    PROVE  In!NoEvent \in In!Event /\ In!MyEvent \in In!Event
  <1>1. 0 \in 0 .. MaxMails
    BY DEF In!InvitationsAssumption
  <1>2. In!NoEvent \in In!Event
    BY <1>1, InvitationsSimple DEF In!NoEvent, In!Event
  <1> QED
    BY <1>2 DEF In!MyEvent, In!Event

LEMMA InvitationsInitially == ASSUME In!InvitationsAssumption PROVE In!Init => InvitationsInv
  <1> SUFFICES ASSUME In!Init PROVE InvitationsInv
    OBVIOUS
  <1>1. /\ own \in BOOLEAN /\ event \in In!Event /\ server \in In!Event
        /\ invitation \in [In!Everyone -> In!Stats] /\ mails \in Seq(InvitationsMailType)
    BY InvitationsSimple, InvitationsEvents DEF In!Init
  <1>2. In!TypeOK
    BY <1>1, InvitationsSimple DEF In!Init, In!TypeOK, InvitationsMailType, InvitationsRequestType,
       In!InvitationsAssumption, In!Stats
  <1>3. InvitationsFromPeople /\ InvitationsLastAnswers /\ InvitationsLastHandled
    BY DEF In!Init, InvitationsFromPeople, InvitationsLastAnswers, InvitationsLastHandled
  <1>4. InvitationsSent
    BY InvitationsSimple DEF In!Init, InvitationsSent, In!Decisions
  <1> QED
    BY <1>2, <1>3, <1>4 DEF InvitationsInv

LEMMA InvitationsTyped ==
    ASSUME In!TypeOK
    PROVE  /\ own \in BOOLEAN /\ event \in In!Event /\ server \in In!Event
           /\ invitation \in [In!Everyone -> In!Stats]
           /\ mails \in Seq(InvitationsMailType) /\ handled \subseteq 1 .. Len(mails)
           /\ Len(mails) <= MaxMails
           /\ request \in InvitationsRequestType /\ invited \subseteq People
           /\ replied \subseteq In!Decisions
           /\ answer \in [People -> In!Stats] /\ crossed \subseteq People
           /\ errors \in 0 .. MaxErrors /\ requests \in 0 .. MaxRequests
  BY DEF In!TypeOK, InvitationsMailType, InvitationsRequestType

LEMMA InvitationsLimits ==
    ASSUME In!InvitationsAssumption, In!TypeOK
    PROVE  /\ MaxMails \in Nat /\ (In!Fails => errors' \in 0 .. MaxErrors)
           /\ (In!Asked => requests' \in 0 .. MaxRequests)
  BY InvitationsTyped DEF In!InvitationsAssumption, In!Fails, In!Asked

(* A mail more at the end. *)
LEMMA InvitationsOneMore ==
    ASSUME In!TypeOK, In!InvitationsAssumption, NEW mail \in InvitationsMailType, In!Arrives(mail)
    PROVE  /\ mails' \in Seq(InvitationsMailType) /\ Len(mails') = Len(mails) + 1
           /\ Len(mails') <= MaxMails
           /\ mails'[Len(mails) + 1] = mail /\ \A i \in 1 .. Len(mails) : mails'[i] = mails[i]
  <1>1. mails \in Seq(InvitationsMailType) /\ MaxMails \in Nat
    BY InvitationsTyped DEF In!InvitationsAssumption
  <1> QED
    BY <1>1 DEF In!Arrives

LEMMA InvitationsInductive ==
    ASSUME In!InvitationsAssumption, InvitationsInv, [In!Next]_In!vars
    PROVE  InvitationsInv'
  <1>1. /\ In!TypeOK /\ Len(mails) \in Nat
        /\ \A i \in 1 .. Len(mails) : mails[i] \in InvitationsMailType
    <2>1. mails \in Seq(InvitationsMailType)
      BY InvitationsTyped DEF InvitationsInv
    <2> QED
      BY <2>1 DEF InvitationsInv
  <1>2. request \in InvitationsRequestType /\ event \in In!Event /\ server \in In!Event
    BY <1>1, InvitationsTyped
  (* What leaves the mails alone and the invitations of the people. *)
  <1>3. ASSUME UNCHANGED <<own, mails, handled, answer>>, event' \in In!Event, server' \in In!Event,
               request' \in InvitationsRequestType,
               invitation' \in [In!Everyone -> In!Stats], invited' \subseteq People, replied \subseteq replied', replied' \subseteq In!Decisions,
               crossed \subseteq crossed', crossed' \subseteq People, errors' \in 0 .. MaxErrors, requests' \in 0 .. MaxRequests,
               \A p \in People \ crossed' : answer[p] # "none" => invitation'[p] = invitation[p],
               InvitationsSent'
        PROVE  InvitationsInv'
    <2>1. In!TypeOK'
      BY <1>1, <1>3, InvitationsTyped DEF In!TypeOK, InvitationsMailType, InvitationsRequestType
    <2>2. InvitationsFromPeople' /\ InvitationsLastAnswers'
      BY <1>3 DEF InvitationsInv, InvitationsFromPeople, InvitationsLastAnswers
    <2>3. InvitationsLastHandled'
      <3> SUFFICES ASSUME NEW p \in People \ crossed', NEW i \in handled, mails[i].from = p,
                          \A j \in handled : mails[j].from = p => j <= i
                   PROVE  invitation'[p] = mails[i].stat
        BY <1>3 DEF InvitationsLastHandled
      <3>1. i \in 1 .. Len(mails)
        BY <1>1, InvitationsTyped
      <3>2. answer[p] # "none" /\ invitation[p] = mails[i].stat
        BY <1>3, <3>1 DEF InvitationsInv, InvitationsLastAnswers, InvitationsLastHandled
      <3> QED
        BY <1>3, <3>2
    <2> QED
      BY <1>3, <2>1, <2>2, <2>3 DEF InvitationsInv
  (* A mail is sent. *)
  <1>4. ASSUME NEW mail \in InvitationsMailType, In!Arrives(mail),
               mail.from \in People <=> mail.method = "REPLY",
               answer' \in [People -> In!Stats],
               \A p \in People : IF mail.from = p THEN answer'[p] = mail.stat /\ mail.stat # "none" ELSE answer'[p] = answer[p],
               UNCHANGED <<own, event, server, invitation, handled, request, invited, replied, crossed, errors, requests>>
        PROVE  InvitationsInv'
    <2>1. /\ mails' \in Seq(InvitationsMailType) /\ Len(mails') = Len(mails) + 1
          /\ Len(mails') <= MaxMails
          /\ mails'[Len(mails) + 1] = mail /\ \A i \in 1 .. Len(mails) : mails'[i] = mails[i]
      BY <1>1, <1>4, InvitationsOneMore
    <2>2. handled \subseteq 1 .. Len(mails)
      BY <1>1, InvitationsTyped
    <2>3. In!TypeOK'
      <3>1. handled' \subseteq 1 .. Len(mails')
        BY <1>1, <1>4, <2>1, <2>2
      <3> QED
        BY <1>1, <1>4, <2>1, <3>1, InvitationsTyped DEF In!TypeOK, InvitationsMailType,
           InvitationsRequestType
    <2>4. \A i \in 1 .. Len(mails') : i \in 1 .. Len(mails) \/ i = Len(mails) + 1
      BY <1>1, <2>1
    <2>5. InvitationsFromPeople'
      BY <1>4, <2>1, <2>4 DEF InvitationsInv, InvitationsFromPeople
    <2>6. InvitationsLastAnswers'
      <3> SUFFICES ASSUME NEW p \in People
                   PROVE  /\ answer'[p] = "none" => \A i \in 1 .. Len(mails') : mails'[i].from # p
                          /\ answer'[p] # "none" => \E i \in 1 .. Len(mails') :
                                 /\ mails'[i].from = p /\ mails'[i].stat = answer'[p]
                                 /\ \A j \in 1 .. Len(mails') : mails'[j].from = p => j <= i
        BY DEF InvitationsLastAnswers
      <3>1. CASE mail.from = p
        <4>1. Len(mails) + 1 \in 1 .. Len(mails') /\ \A j \in 1 .. Len(mails') : j <= Len(mails) + 1
          BY <1>1, <2>1
        <4> QED
          BY <1>4, <2>1, <3>1, <4>1
      <3>2. CASE mail.from # p
        <4>1. answer'[p] = answer[p] /\ 1 .. Len(mails) \subseteq 1 .. Len(mails')
          BY <1>1, <1>4, <2>1, <3>2
        <4>2. CASE answer[p] = "none"
          BY <2>1, <2>4, <3>2, <4>1, <4>2 DEF InvitationsInv, InvitationsLastAnswers
        <4>3. CASE answer[p] # "none"
          <5>1. PICK i \in 1 .. Len(mails) : /\ mails[i].from = p /\ mails[i].stat = answer[p]
                                             /\ \A j \in 1 .. Len(mails) : mails[j].from = p => j <= i
            BY <4>3 DEF InvitationsInv, InvitationsLastAnswers
          <5>2. \A j \in 1 .. Len(mails') : mails'[j].from = p => j <= i
            BY <2>1, <2>4, <3>2, <5>1
          <5> QED
            BY <2>1, <4>1, <4>3, <5>1, <5>2
        <4> QED
          BY <4>2, <4>3
      <3> QED
        BY <3>1, <3>2
    <2>7. InvitationsLastHandled' /\ InvitationsSent'
      BY <1>4, <2>1, <2>2 DEF InvitationsInv, InvitationsLastHandled, InvitationsSent
    <2> QED
      BY <2>3, <2>5, <2>6, <2>7 DEF InvitationsInv
  <1>5. ASSUME NEW method \in {"REQUEST", "CANCEL"}, In!Announce(method) PROVE InvitationsInv'
    <2> DEFINE mail == [method |-> method, from |-> Me, stat |-> "none"]
    <2>1. mail \in InvitationsMailType /\ mail.from \notin People /\ mail.method # "REPLY"
      BY InvitationsSimple DEF InvitationsMailType, In!Stats, In!InvitationsAssumption
    <2>2. In!Arrives(mail)
      BY <1>5 DEF In!Announce
    <2> HIDE DEF mail
    <2> QED
      BY <1>1, <1>4, <1>5, <2>1, <2>2, InvitationsTyped DEF In!Announce
  <1>6. ASSUME NEW p \in People, NEW d \in In!Decisions, In!Answer(p, d) PROVE InvitationsInv'
    <2> DEFINE mail == [method |-> "REPLY", from |-> p, stat |-> d]
    <2>1. mail \in InvitationsMailType /\ mail.from = p /\ mail.method = "REPLY" /\ mail.stat = d
      BY InvitationsSimple DEF InvitationsMailType, In!Stats
    <2>2. In!Arrives(mail)
      BY <1>6 DEF In!Answer
    <2>3. answer \in [People -> In!Stats] /\ d \in In!Stats /\ d # "none"
      BY <1>1, InvitationsTyped DEF In!Stats, In!Decisions
    <2>4. /\ answer' \in [People -> In!Stats] /\ answer'[p] = d
          /\ \A q \in People \ {p} : answer'[q] = answer[q]
      BY <1>6, <2>3 DEF In!Answer
    <2> HIDE DEF mail
    <2> QED
      BY <1>4, <1>6, <2>1, <2>2, <2>3, <2>4 DEF In!Answer
  <1>7. ASSUME NEW i \in 1 .. Len(mails), In!process_inbound_ics(i), requests' \in 0 .. MaxRequests
        PROVE  InvitationsInv'
    <2>1. /\ handled' = handled \cup {i}
          /\ UNCHANGED <<own, mails, request, invited, replied, answer>>
          /\ mails[i] \in InvitationsMailType /\ handled \subseteq 1 .. Len(mails)
      BY <1>1, <1>7, InvitationsTyped DEF In!process_inbound_ics
    <2>2. ASSUME event' \in In!Event, server' \in In!Event,
                 invitation' \in [In!Everyone -> In!Stats], crossed \subseteq crossed',
                 crossed' \subseteq People, errors' \in 0 .. MaxErrors,
                 InvitationsSent', InvitationsLastHandled'
          PROVE  InvitationsInv'
      <3>1. In!TypeOK'
        BY <1>1, <1>7, <2>1, <2>2, InvitationsTyped DEF In!TypeOK, InvitationsMailType,
           InvitationsRequestType
      <3>2. InvitationsFromPeople' /\ InvitationsLastAnswers'
        BY <2>1 DEF InvitationsInv, InvitationsFromPeople, InvitationsLastAnswers
      <3> QED
        BY <2>2, <3>1, <3>2 DEF InvitationsInv
    <2>3. ASSUME mails[i].from \notin People, UNCHANGED crossed,
                 \A p \in People : invitation'[p] = invitation[p]
          PROVE  InvitationsLastHandled'
      BY <2>1, <2>3 DEF InvitationsInv, InvitationsLastHandled
    <2>4. CASE mails[i].method = "REQUEST"
      <3>1. In!handle_request(i) /\ mails[i].from \notin People
        BY <1>7, <2>4 DEF In!process_inbound_ics, InvitationsInv, InvitationsFromPeople
      <3> DEFINE new == [event EXCEPT !.there = TRUE, !.organized = TRUE, !.cancelled = FALSE, !.sequence = i]
      <3>2. i \in 0 .. MaxMails
        BY <1>1, InvitationsLimits, InvitationsTyped
      <3>3. new \in In!Event /\ [new EXCEPT !.url = TRUE] \in In!Event
        BY <1>1, <3>2, InvitationsTyped DEF In!Event
      <3>4. /\ event' = event \/ event' = new \/ event' = [new EXCEPT !.url = TRUE]
            /\ server' = server \/ server' = [new EXCEPT !.url = TRUE]
            /\ errors' \in 0 .. MaxErrors
        <4> HIDE DEF new
        <4>1. \/ /\ ~event.there /\ UNCHANGED errors
                 /\ server' = [new EXCEPT !.url = TRUE] /\ event' = [new EXCEPT !.url = TRUE]
              \/ /\ ~event.there /\ In!Fails /\ event' = new
                 /\ server' = [new EXCEPT !.url = TRUE] \/ UNCHANGED server
              \/ event.there /\ event' = new /\ UNCHANGED <<server, errors>>
              \/ UNCHANGED <<event, server, errors>>
          BY <3>1 DEF In!handle_request, In!StoreRequest, new
        <4> QED
          BY <1>1, <4>1, InvitationsLimits, InvitationsTyped
      <3>5. event' \in In!Event /\ server' \in In!Event /\ errors' \in 0 .. MaxErrors
        <4> HIDE DEF new
        <4> QED
          BY <1>1, <3>3, <3>4, InvitationsTyped
      <3>6. /\ invitation' \in [In!Everyone -> In!Stats]
            /\ \A p \in People : invitation'[p] = invitation[p]
            /\ invitation'[Me] = invitation[Me] \/ invitation'[Me] = "NEEDS-ACTION"
        BY <1>1, <3>1, InvitationsSimple, InvitationsTyped DEF In!handle_request, In!StoreRequest, In!Stats,
           In!InvitationsAssumption
      <3>7. InvitationsSent'
        BY <2>1, <3>6 DEF InvitationsInv, InvitationsSent, In!Decisions
      <3>8. UNCHANGED crossed
        BY <3>1 DEF In!handle_request
      <3> QED
        BY <1>1, <2>2, <2>3, <3>1, <3>5, <3>6, <3>7, <3>8, InvitationsTyped
    <2>5. CASE mails[i].method = "REPLY"
      <3> DEFINE p == mails[i].from
                 late == \E j \in handled : j >= i /\ mails[j].from = p
      <3>1. In!handle_reply(i) /\ p \in People /\ p # Me
        BY <1>7, <2>5 DEF In!process_inbound_ics, InvitationsInv, InvitationsFromPeople,
           In!InvitationsAssumption
      <3>2. invitation' = [invitation EXCEPT ![p] = mails[i].stat] /\ UNCHANGED <<server, errors>>
            /\ event' = (IF event.there /\ event.attendees[p] # "none"
                         THEN [event EXCEPT !.attendees[p] = mails[i].stat] ELSE event)
        BY <3>1, Zenon DEF In!handle_reply, In!Reply
      <3>3. crossed' = IF late THEN crossed \cup {p} ELSE crossed
        BY <3>1, Zenon DEF In!handle_reply
      <3>4. p \in In!Everyone /\ mails[i].stat \in In!Stats
        BY <2>1 DEF InvitationsMailType
      <3>5. /\ invitation' \in [In!Everyone -> In!Stats] /\ invitation'[p] = mails[i].stat
            /\ \A q \in In!Everyone \ {p} : invitation'[q] = invitation[q]
        BY <1>1, <3>2, <3>4, InvitationsTyped
      <3>6. event' \in In!Event
        <4>1. event.attendees \in [In!Everyone -> In!Stats]
          BY <1>2 DEF In!Event
        <4>2. [event.attendees EXCEPT ![p] = mails[i].stat] \in [In!Everyone -> In!Stats]
          BY <3>4, <4>1
        <4>3. [event EXCEPT !.attendees = [event.attendees EXCEPT ![p] = mails[i].stat]] \in In!Event
          BY <1>2, <4>2 DEF In!Event
        <4> QED
          BY <1>2, <3>2, <4>3
      <3>7. crossed \subseteq crossed' /\ crossed' \subseteq People
        <4> HIDE DEF late
        <4> QED
          BY <1>1, <3>1, <3>3, InvitationsTyped
      <3>8. InvitationsSent'
        BY <2>1, <3>1, <3>5, InvitationsSimple DEF InvitationsInv, InvitationsSent
      <3>9. InvitationsLastHandled'
        <4> SUFFICES ASSUME NEW q \in People \ crossed', NEW k \in handled', mails[k].from = q,
                            \A j \in handled' : mails[j].from = q => j <= k
                     PROVE  invitation'[q] = mails[k].stat
          BY <2>1 DEF InvitationsLastHandled
        <4>1. i \in handled' /\ handled \subseteq handled' /\ handled \subseteq 1 .. Len(mails)
          BY <2>1
        <4>2. CASE q = p
          <5>1. i <= k /\ ~late
            BY <3>3, <4>1, <4>2
          <5>2. k = i
            BY <1>1, <2>1, <4>1, <4>2, <5>1
          <5> QED
            BY <3>5, <4>2, <5>2
        <4>3. CASE q # p
          <5>1. k \in handled /\ q \notin crossed /\ q \in In!Everyone \ {p}
            BY <2>1, <3>7, <4>3, InvitationsSimple
          <5> QED
            BY <3>5, <4>1, <5>1 DEF InvitationsInv, InvitationsLastHandled
        <4> QED
          BY <4>2, <4>3
      <3> QED
        BY <1>1, <2>2, <3>2, <3>5, <3>6, <3>7, <3>8, <3>9, InvitationsTyped
    <2>6. CASE mails[i].method = "CANCEL"
      <3>1. In!handle_cancel(i) /\ mails[i].from \notin People
        BY <1>7, <2>6 DEF In!process_inbound_ics, InvitationsInv, InvitationsFromPeople
      <3>2. event' \in In!Event /\ UNCHANGED <<server, invitation, crossed, errors>>
        BY <1>1, <3>1, InvitationsTyped DEF In!handle_cancel, In!Event
      <3>3. InvitationsSent'
        BY <2>1, <3>2 DEF InvitationsInv, InvitationsSent
      <3> QED
        BY <1>1, <2>2, <2>3, <3>1, <3>2, <3>3, InvitationsTyped
    <2> QED
      BY <2>1, <2>4, <2>5, <2>6 DEF InvitationsMailType
  <1>8. ASSUME NEW i \in 1 .. Len(mails), In!Fetch(i) \/ In!FetchAgain(i) PROVE InvitationsInv'
    BY <1>1, <1>7, <1>8, InvitationsLimits, InvitationsTyped DEF In!Fetch, In!FetchAgain
  <1>9. ASSUME In!Sync PROVE InvitationsInv'
    <2>1. InvitationsSent'
      BY <1>9 DEF In!Sync, InvitationsInv, InvitationsSent
    <2> QED
      BY <1>1, <1>3, <1>9, <2>1, InvitationsTyped DEF In!Sync
  <1>10. ASSUME NEW who \in SUBSET People, In!invite_event(who) PROVE InvitationsInv'
    <2>1. request' \in InvitationsRequestType /\ request'.step = "send"
      BY <1>10, InvitationsSimple DEF In!invite_event, InvitationsRequestType
    <2>2. InvitationsSent'
      BY <1>10, <2>1 DEF In!invite_event, InvitationsInv, InvitationsSent
    <2> QED
      BY <1>1, <1>3, <1>10, <2>1, <2>2, InvitationsLimits, InvitationsTyped DEF In!invite_event
  <1>11. ASSUME NEW p \in People, In!send_invitation(p) PROVE InvitationsInv'
    <2>1. request' \in InvitationsRequestType /\ (request'.step = "send" \/ request'.step = "none")
      BY <1>2, <1>11, InvitationsSimple DEF In!send_invitation, InvitationsRequestType, In!End,
         In!Is
    <2>2. InvitationsSent'
      BY <1>11, <2>1 DEF In!send_invitation, InvitationsInv, InvitationsSent
    <2>3. errors' \in 0 .. MaxErrors /\ invited' \subseteq People
      BY <1>1, <1>11, InvitationsLimits, InvitationsTyped DEF In!send_invitation
    <2> QED
      BY <1>1, <1>3, <1>11, <2>1, <2>2, <2>3, InvitationsTyped DEF In!send_invitation
  <1>12. ASSUME In!upsert_invitations PROVE InvitationsInv'
    <2>1. request' \in InvitationsRequestType /\ request'.step = "put"
      BY <1>2, <1>12 DEF In!upsert_invitations, InvitationsRequestType, In!Go
    <2>2. /\ invitation' \in [In!Everyone -> In!Stats] /\ request.people \subseteq People
          /\ \A p \in In!Everyone \ request.people : invitation'[p] = invitation[p]
      BY <1>1, <1>2, <1>12, InvitationsTyped DEF In!upsert_invitations, InvitationsRequestType,
         In!Stats
    <2>3. invitation'[Me] = invitation[Me]
      BY <2>2, InvitationsSimple DEF In!InvitationsAssumption
    <2>4. InvitationsSent'
      BY <1>12, <2>1, <2>3 DEF In!upsert_invitations, InvitationsInv, InvitationsSent
    <2>5. /\ crossed \subseteq crossed' /\ crossed' \subseteq People
          /\ \A p \in People \ crossed' : answer[p] # "none" => invitation'[p] = invitation[p]
      BY <1>1, <1>12, <2>2, InvitationsSimple, InvitationsTyped DEF In!upsert_invitations
    <2> QED
      BY <1>1, <1>3, <1>12, <2>1, <2>2, <2>4, <2>5, InvitationsTyped DEF In!upsert_invitations
  <1>13. ASSUME NEW e \in In!Event PROVE In!WithPeople(e) \in In!Event
    BY <1>2 DEF In!WithPeople, In!Event, In!Stats
  <1>14. ASSUME In!persist_event PROVE InvitationsInv'
    <2>1. request' \in InvitationsRequestType /\ (request'.step = "save" \/ request'.step = "none")
      BY <1>2, <1>14, InvitationsSimple DEF In!persist_event, InvitationsRequestType, In!Go, In!End
    <2>2. InvitationsSent'
      BY <1>14, <2>1 DEF In!persist_event, InvitationsInv, InvitationsSent
    <2>3. errors' \in 0 .. MaxErrors /\ server' \in In!Event
      BY <1>1, <1>2, <1>13, <1>14, InvitationsLimits, InvitationsTyped DEF In!persist_event
    <2> QED
      BY <1>1, <1>3, <1>14, <2>1, <2>2, <2>3, InvitationsTyped DEF In!persist_event
  <1>15. ASSUME In!Save PROVE InvitationsInv'
    <2>1. request' \in InvitationsRequestType /\ request'.step = "none"
      BY <1>15, InvitationsSimple DEF In!Save, In!End
    <2>2. InvitationsSent'
      BY <1>15, <2>1 DEF In!Save, InvitationsInv, InvitationsSent
    <2> QED
      BY <1>1, <1>3, <1>2, <1>13, <1>15, <2>1, <2>2, InvitationsTyped DEF In!Save
  <1>16. ASSUME NEW d \in In!Decisions, NEW queue \in BOOLEAN, In!Rsvp(d, queue)
         PROVE  InvitationsInv'
    <2>1. request' \in InvitationsRequestType /\ request'.step = "reply"
      BY <1>16, InvitationsSimple DEF In!Rsvp, InvitationsRequestType
    <2>2. InvitationsSent'
      BY <1>16, <2>1 DEF In!Rsvp, InvitationsInv, InvitationsSent
    <2> QED
      BY <1>1, <1>3, <1>16, <2>1, <2>2, InvitationsLimits, InvitationsTyped DEF In!Rsvp
  <1>17. ASSUME In!send_rsvp PROVE InvitationsInv'
    <2>1. /\ request' \in InvitationsRequestType /\ request.decision \in In!Decisions
          /\ \/ request'.step = "none"
             \/ request'.step = "mark" /\ request'.decision = request.decision /\ request.decision \in replied'
      BY <1>2, <1>17, InvitationsSimple DEF In!send_rsvp, InvitationsRequestType, In!Go, In!NotSent,
         In!End
    <2>2. /\ replied \subseteq replied' /\ replied' \subseteq In!Decisions
          /\ errors' \in 0 .. MaxErrors
      BY <1>1, <1>17, <2>1, InvitationsLimits, InvitationsTyped DEF In!send_rsvp
    <2>3. InvitationsSent'
      BY <1>17, <2>1, <2>2 DEF In!send_rsvp, InvitationsInv, InvitationsSent
    <2> QED
      BY <1>1, <1>3, <1>17, <2>1, <2>2, <2>3, InvitationsTyped DEF In!send_rsvp
  <1>18. ASSUME In!update_rsvp_status PROVE InvitationsInv'
    <2>1. /\ request' \in InvitationsRequestType /\ request.decision \in In!Decisions
          /\ request.step = "mark"
          /\ request'.step = "none" \/ (request'.step = "queue" /\ request'.decision = request.decision)
      BY <1>2, <1>18, InvitationsSimple DEF In!update_rsvp_status, InvitationsRequestType, In!Go,
         In!End, In!Is
    <2>2. /\ invitation' \in [In!Everyone -> In!Stats]
          /\ \A p \in People : invitation'[p] = invitation[p]
          /\ invitation'[Me] = invitation[Me] \/ invitation'[Me] = request.decision
      BY <1>1, <1>18, <2>1, InvitationsSimple, InvitationsTyped DEF In!update_rsvp_status, In!Stats,
         In!InvitationsAssumption
    <2>3. event' \in In!Event
      BY <1>2, <1>18, <2>1, InvitationsSimple DEF In!update_rsvp_status, In!Event, In!Stats
    <2>4. InvitationsSent'
      BY <1>18, <2>1, <2>2 DEF In!update_rsvp_status, InvitationsInv, InvitationsSent
    <2> QED
      BY <1>1, <1>3, <1>18, <2>1, <2>2, <2>3, <2>4, InvitationsTyped DEF In!update_rsvp_status
  <1>19. ASSUME In!do_rsvp PROVE InvitationsInv'
    <2>1. /\ request' \in InvitationsRequestType /\ request'.step = "none"
          /\ request.decision \in In!Decisions /\ request.step = "queue"
      BY <1>2, <1>19, InvitationsSimple DEF In!do_rsvp, InvitationsRequestType, In!End, In!Is
    <2>2. /\ invitation' \in [In!Everyone -> In!Stats]
          /\ \A p \in In!Everyone : invitation'[p] = IF invitation[p] = "NEEDS-ACTION" THEN request.decision ELSE invitation[p]
      BY <1>1, <1>19, <2>1, InvitationsTyped DEF In!do_rsvp, In!Stats
    <2>3. InvitationsSent'
      BY <1>19, <2>1, <2>2, InvitationsSimple DEF In!do_rsvp, InvitationsInv, InvitationsSent
    <2>4. /\ crossed \subseteq crossed' /\ crossed' \subseteq People
          /\ \A p \in People \ crossed' : invitation'[p] = invitation[p]
      BY <1>1, <1>19, <2>2, InvitationsSimple, InvitationsTyped DEF In!do_rsvp
    <2> QED
      BY <1>1, <1>3, <1>19, <2>1, <2>2, <2>3, <2>4, InvitationsTyped DEF In!do_rsvp
  <1>20. ASSUME UNCHANGED In!vars PROVE InvitationsInv'
    <2>1. InvitationsSent'
      BY <1>20 DEF In!vars, InvitationsInv, InvitationsSent
    <2> QED
      BY <1>1, <1>3, <1>2, <1>20, <2>1, InvitationsTyped DEF In!vars
  <1>21. In!Decisions = {"ACCEPTED", "DECLINED"}
    BY DEF In!Decisions
  <1> QED
    BY <1>5, <1>6, <1>8, <1>9, <1>10, <1>11, <1>12, <1>14, <1>15, <1>16, <1>17, <1>18, <1>19, <1>20,
       <1>21
    DEF In!Next, In!accept_invitation, In!decline_invitation, In!rsvp_event

(* The last answer read is the last one sent, or on its way. *)
LEMMA InvitationsAnswered == ASSUME InvitationsInv PROVE In!StatusAsAnswered
  BY DEF InvitationsInv, InvitationsLastAnswers, InvitationsLastHandled, InvitationsSent,
     In!StatusAsAnswered

-----------------------------------------------------------------------------
(***************************************************************************)
(* Insilo's meetings: what the user removed stays away (sync/insilo.rs,    *)
(* api/meetings.rs).                                                       *)
(***************************************************************************)
MeetingsInv == Mt!TypeOK /\ Mt!RemovedStaysAway

LEMMA MeetingsInitially == ASSUME Mt!MeetingsAssumption PROVE Mt!Init => MeetingsInv
  BY DEF Mt!MeetingsAssumption, Mt!Init, MeetingsInv, Mt!TypeOK, Mt!RemovedStaysAway, Mt!NoFile,
     Mt!Files, Mt!Kinds, Mt!Rows, Mt!Idle

(* What a scan makes of a row is a row. *)
LEMMA MeetingsUpsertedRow ==
    ASSUME Mt!TypeOK, NEW s \in Scans, NEW m \in Memos
    PROVE  /\ Mt!Upserted(s, m) \in Mt!Rows
           /\ m \in ignored => Mt!Upserted(s, m) = row[m]
  BY DEF Mt!TypeOK, Mt!Upserted, Mt!Ignored, Mt!Files, Mt!Rows

LEMMA MeetingsTypes == ASSUME Mt!MeetingsAssumption, Mt!TypeOK, [Mt!Next]_Mt!vars PROVE Mt!TypeOK'
  <1> USE DEF Mt!MeetingsAssumption, Mt!TypeOK
  <1>1. /\ Mt!NoFile \in Mt!Files
        /\ Mt!Idle \in [step : {"idle", "store"}, found : [Memos -> Mt!Files], seen : SUBSET (Memos \X {1, 2})]
    BY DEF Mt!NoFile, Mt!Files, Mt!Kinds, Mt!Idle
  <1>2. ASSUME NEW m \in Memos, NEW kind \in Mt!Kinds, Mt!Export(m, kind) PROVE Mt!TypeOK'
    <2>1. file[m].name \in {1, 2} /\ version + 1 \in 0 .. MaxMemos
      BY <1>2 DEF Mt!Export, Mt!Files
    <2>2. [kind |-> kind, version |-> version + 1, name |-> file[m].name, fresh |-> TRUE] \in Mt!Files
      BY <2>1 DEF Mt!Files
    <2> QED
      BY <1>2, <2>1, <2>2 DEF Mt!Export, Mt!Insilo
  <1>3. ASSUME NEW m \in Memos, Mt!Rename(m) PROVE Mt!TypeOK'
    <2>1. [file[m] EXCEPT !.name = 3 - @] \in Mt!Files
      <3>1. file[m] \in Mt!Files /\ 3 - file[m].name \in {1, 2}
        BY DEF Mt!Files
      <3> QED
        BY <3>1 DEF Mt!Files
    <2> QED
      BY <1>3, <2>1 DEF Mt!Rename, Mt!Insilo
  <1>4. ASSUME NEW m \in Memos, Mt!Remove(m) \/ Mt!Settle(m) PROVE Mt!TypeOK'
    <2>1. [file[m] EXCEPT !.fresh = FALSE] \in Mt!Files
      <3>1. file[m] \in Mt!Files
        OBVIOUS
      <3> QED
        BY <3>1 DEF Mt!Files
    <2>2. CASE Mt!Remove(m)
      BY <1>1, <2>2 DEF Mt!Remove, Mt!Insilo
    <2>3. CASE Mt!Settle(m)
      BY <2>1, <2>3 DEF Mt!Settle, Mt!Insilo
    <2> QED
      BY <1>4, <2>2, <2>3
  <1>5. ASSUME NEW m \in Memos, Mt!delete_meeting(m) PROVE Mt!TypeOK'
    BY <1>5 DEF Mt!delete_meeting, Mt!Rows
  <1>6. ASSUME NEW s \in Scans, Mt!ReadDrop(s) PROVE Mt!TypeOK'
    <2> DEFINE found == [m \in Memos |-> IF file[m].kind = "meeting" /\ ~file[m].fresh THEN file[m] ELSE Mt!NoFile]
               seen == {<<m, file[m].name>> : m \in {x \in Memos : file[x].kind # "none"
                                                                  /\ ~(file[x].kind = "idea" /\ ~file[x].fresh)}}
    <2>1. found \in [Memos -> Mt!Files]
      BY <1>1
    <2>2. seen \subseteq Memos \X {1, 2}
      BY DEF Mt!Files
    <2>3. scan' = [scan EXCEPT ![s] = [step |-> "store", found |-> found, seen |-> seen]]
      BY <1>6 DEF Mt!ReadDrop
    <2> HIDE DEF found, seen
    <2> QED
      BY <1>6, <2>1, <2>2, <2>3 DEF Mt!ReadDrop
  <1>7. ASSUME NEW s \in Scans, Mt!run_insilo_scan(s) PROVE Mt!TypeOK'
    <2>1. row' \in [Memos -> Mt!Rows]
      <3> SUFFICES ASSUME NEW m \in Memos
                   PROVE  LET new == Mt!Upserted(s, m)
                          IN [new EXCEPT !.deleted = @ \/ <<m, new.name>> \notin scan[s].seen] \in Mt!Rows
        BY <1>7 DEF Mt!run_insilo_scan
      <3>1. Mt!Upserted(s, m) \in Mt!Rows
        BY MeetingsUpsertedRow
      <3>2. ASSUME NEW r \in Mt!Rows, NEW b \in BOOLEAN
            PROVE  [r EXCEPT !.deleted = @ \/ b] \in Mt!Rows
        BY DEF Mt!Rows
      <3> QED
        BY <3>1, <3>2
    <2> QED
      BY <1>1, <1>7, <2>1 DEF Mt!run_insilo_scan
  <1> QED
    BY <1>2, <1>3, <1>4, <1>5, <1>6, <1>7 DEF Mt!Next, Mt!vars

LEMMA MeetingsStaysAway ==
    ASSUME Mt!TypeOK, Mt!RemovedStaysAway, [Mt!Next]_Mt!vars
    PROVE  Mt!RemovedStaysAway'
  <1> USE DEF Mt!RemovedStaysAway
  <1>1. ASSUME NEW m \in Memos, Mt!delete_meeting(m) PROVE Mt!RemovedStaysAway'
    BY <1>1 DEF Mt!delete_meeting, Mt!TypeOK, Mt!Rows
  <1>2. ASSUME NEW s \in Scans, Mt!run_insilo_scan(s) PROVE Mt!RemovedStaysAway'
    <2> SUFFICES ASSUME NEW m \in ignored PROVE row'[m].deleted
      BY <1>2 DEF Mt!run_insilo_scan
    <2>1. m \in Memos /\ row[m].deleted /\ row[m] \in Mt!Rows /\ Mt!Upserted(s, m) = row[m]
      BY MeetingsUpsertedRow DEF Mt!TypeOK
    <2>2. row'[m] = [row[m] EXCEPT !.deleted = @ \/ <<m, row[m].name>> \notin scan[s].seen]
      BY <1>2, <2>1 DEF Mt!run_insilo_scan
    <2> QED
      BY <2>1, <2>2 DEF Mt!Rows
  <1>3. ASSUME row' = row, ignored' = ignored PROVE Mt!RemovedStaysAway'
    BY <1>3
  <1> QED
    BY <1>1, <1>2, <1>3 DEF Mt!Next, Mt!vars, Mt!Export, Mt!Rename, Mt!Remove, Mt!Settle, Mt!Insilo,
       Mt!ReadDrop

-----------------------------------------------------------------------------
(***************************************************************************)
(* The sign-in at Google: without a race, tokens on disk and in memory are *)
(* of one sign-in (google/mod.rs).                                         *)
(***************************************************************************)
(* Of the behaviours without a race: sign-ins and sign-outs come one after *)
(* the other ...                                                           *)
SignInOneAtATime == /\ signout.step # "none" => Go!Returning = {}
                    /\ \A s, t \in Go!Returning : s = t
                    /\ ~there => Go!Returning = {} /\ signout.step = "none" /\ setting = 0 /\ KONTEN = 0

(* ... a refresh under way is of the sign-in in memory ...                 *)
SignInRefreshesCurrent == \A u \in Go!Refreshing : user[u].of = KONTEN /\ KONTEN # 0

(* ... and each step has changed the places the code changes before it.    *)
SignInAtRest == signout.step \in {"none", "begun"} /\ \A s \in Go!Returning : back[s] = "code"
SignInPlaces == /\ SignInAtRest => setting = KONTEN /\ ZUGAENGE.of \in {0, KONTEN}
                /\ \A s \in Go!Returning : /\ back[s] \in {"stored", "known"} => setting = s
                                           /\ back[s] = "known" => KONTEN = s
                /\ signout.step \in {"access", "setting", "revoke"} => KONTEN = 0
                /\ signout.step \in {"setting", "revoke"} => ZUGAENGE.of = 0
                /\ signout.step = "revoke" => setting = 0

SignInInOrder == SignInOneAtATime /\ SignInRefreshesCurrent /\ SignInPlaces
SignInInv == Go!TypeOK /\ (~excused => SignInInOrder)


-----------------------------------------------------------------------------
SignInSignOuts == [step : {"none", "begun", "access", "setting", "revoke"}, of : Go!Tokens, delete : BOOLEAN]

(* What the steps of a sign-out make of its record. *)
LEMMA SignInSignOutSteps ==
    ASSUME Go!SignInAssumption, Go!TypeOK
    PROVE  /\ signout \in SignInSignOuts /\ Go!NoSignOut \in SignInSignOuts /\ 0 \in Go!Tokens
           /\ [signout EXCEPT !.step = "revoke"] \in SignInSignOuts
           /\ [signout EXCEPT !.step = "revoke"].step = "revoke"
           /\ [signout EXCEPT !.step = "revoke", !.of = 0] \in SignInSignOuts
           /\ [signout EXCEPT !.step = "revoke", !.of = 0].step = "revoke"
  <1>1. signout \in SignInSignOuts /\ 0 \in Go!Tokens
    BY DEF Go!TypeOK, Go!Tokens, Go!SignInAssumption, SignInSignOuts
  <1> QED
    BY <1>1 DEF Go!NoSignOut, SignInSignOuts

(* The variables keep their types. *)
LEMMA SignInTypes == ASSUME Go!SignInAssumption, Go!TypeOK, [Go!Next]_Go!vars PROVE Go!TypeOK'
  <1> USE DEF Go!TypeOK, Go!SignIns, Go!Tokens, Go!Known, Go!Bounds, Go!Else, Go!SignInAssumption
  <1>1. CASE Go!app_setzen
    BY <1>1 DEF Go!app_setzen
  <1>2. CASE Go!start
    BY <1>2 DEF Go!start
  <1>3. ASSUME NEW s \in Go!SignIns, Go!Expire(s) PROVE Go!TypeOK'
    BY <1>3 DEF Go!Expire
  <1>4. ASSUME NEW s \in Go!SignIns, Go!google_rueckweg(s) PROVE Go!TypeOK'
    BY <1>4 DEF Go!google_rueckweg
  <1>5. ASSUME NEW s \in Go!SignIns, Go!rueckweg(s) PROVE Go!TypeOK'
    <2>1. CASE Go!NoCode(s)
      BY <2>1 DEF Go!NoCode, Go!Fails
    <2>2. CASE Go!StoreRefresh(s)
      BY <2>2 DEF Go!StoreRefresh
    <2>3. CASE Go!KnowRefresh(s)
      BY <2>3 DEF Go!KnowRefresh
    <2>4. CASE Go!KnowAccess(s)
      BY <2>4 DEF Go!KnowAccess
    <2> QED
      BY <1>5, <2>1, <2>2, <2>3, <2>4 DEF Go!rueckweg
  <1>6. ASSUME NEW delete \in BOOLEAN, Go!SignOut(delete) PROVE Go!TypeOK'
    BY <1>6 DEF Go!SignOut
  <1>7. CASE Go!trennen
    <2>1. CASE Go!ForgetRefresh
      <3>1. signout' = [step |-> "access", of |-> KONTEN, delete |-> signout.delete]
        BY <2>1 DEF Go!ForgetRefresh
      <3> QED
        BY <2>1, <3>1 DEF Go!ForgetRefresh
    <2>2. CASE Go!ForgetAccess
      BY <2>2 DEF Go!ForgetAccess, Go!WithoutAccess, Go!NoAccess
    <2>3. CASE Go!ForgetSetting
      <3>1. errors' \in 0 .. MaxErrors /\ setting' \in Go!Tokens /\ excused' \in BOOLEAN
        <4>1. CASE setting' = 0 /\ UNCHANGED <<errors, excused>>
          BY <4>1
        <4>2. CASE Go!Fails /\ excused' = TRUE /\ UNCHANGED setting
          BY <4>2 DEF Go!Fails
        <4> QED
          BY <2>3, <4>1, <4>2 DEF Go!ForgetSetting
      <3>2. signout' \in SignInSignOuts
        BY <2>3, SignInSignOutSteps DEF Go!ForgetSetting
      <3> QED
        BY <2>3, <3>1, <3>2 DEF Go!ForgetSetting, SignInSignOuts
    <2>4. CASE Go!Revoke
      <3>1. errors' \in 0 .. MaxErrors /\ there' \in BOOLEAN
        BY <2>4 DEF Go!Revoke, Go!Fails
      <3>2. revoked' \subseteq Go!SignIns
        <4>1. {signout.of} \ {0} \subseteq Go!SignIns
          BY SignInSignOutSteps DEF SignInSignOuts
        <4> QED
          BY <2>4, <4>1 DEF Go!Revoke
      <3> QED
        BY <2>4, <3>1, <3>2 DEF Go!Revoke, Go!NoSignOut
    <2> QED
      BY <1>7, <2>1, <2>2, <2>3, <2>4 DEF Go!trennen
  <1>8. ASSUME NEW u \in Users, Go!zugang(u) PROVE Go!TypeOK'
    <2>1. CASE Go!Call(u)
      <3>1. ZUGAENGE.of \in Go!Tokens /\ 0 \in Go!Tokens
        OBVIOUS
      <3>2. \E of \in Go!Tokens, stage \in {"send", "wait"} : Go!To(u, stage, of)
        BY <2>1, <3>1 DEF Go!Call
      <3> QED
        BY <2>1, <3>2 DEF Go!Call, Go!To
    <2>2. CASE Go!Lock(u)
      BY <2>2 DEF Go!Lock, Go!To
    <2>3. CASE Go!Look(u)
      <3>1. ZUGAENGE.of \in Go!Tokens /\ 0 \in Go!Tokens
        OBVIOUS
      <3>2. \E of \in Go!Tokens, stage \in {"send", "asked"} : Go!To(u, stage, of)
        BY <2>3, <3>1 DEF Go!Look
      <3> QED
        BY <2>3, <3>2 DEF Go!Look, Go!To
    <2>4. CASE Go!Refreshed(u)
      BY <2>4 DEF Go!Refreshed, Go!To
    <2>5. CASE Go!NotRefreshed(u)
      <3>1. errors' \in 0 .. MaxErrors
        BY <2>5 DEF Go!NotRefreshed, Go!Fails
      <3> QED
        BY <2>5, <3>1 DEF Go!NotRefreshed, Go!To
    <2> QED
      BY <1>8, <2>1, <2>2, <2>3, <2>4, <2>5 DEF Go!zugang
  <1>9. ASSUME NEW u \in Users, Go!send(u) PROVE Go!TypeOK'
    BY <1>9 DEF Go!send, Go!Idle
  <1>10. CASE Go!Age
    BY <1>10 DEF Go!Age
  <1>11. CASE Go!Restart
    BY <1>11 DEF Go!Restart, Go!NoAccess, Go!NoSignOut, Go!Idle
  <1>12. CASE UNCHANGED Go!vars
    BY <1>12 DEF Go!vars
  <1> QED
    BY <1>1, <1>2, <1>3, <1>4, <1>5, <1>6, <1>7, <1>8, <1>9, <1>10, <1>11, <1>12 DEF Go!Next

(* Without a race, what was in order stays so. *)
LEMMA SignInSignInSteps ==
    ASSUME Go!SignInAssumption, Go!TypeOK, SignInInOrder, NEW s \in Go!SignIns, ~excused',
           Go!google_rueckweg(s) \/ Go!rueckweg(s)
    PROVE  SignInInOrder'
  <1> USE DEF SignInInOrder, SignInOneAtATime, SignInRefreshesCurrent, SignInPlaces, SignInAtRest,
              Go!Returning, Go!Refreshing, Go!TypeOK, Go!Known, Go!Bounds
  <1>1. CASE Go!google_rueckweg(s)
    BY <1>1 DEF Go!google_rueckweg
  <1>2. CASE Go!NoCode(s)
    BY <1>2 DEF Go!NoCode
  <1>3. CASE Go!StoreRefresh(s)
    BY <1>3 DEF Go!StoreRefresh
  <1>4. CASE Go!KnowRefresh(s)
    BY <1>4 DEF Go!KnowRefresh
  <1>5. CASE Go!KnowAccess(s)
    BY <1>5 DEF Go!KnowAccess
  <1> QED
    BY <1>1, <1>2, <1>3, <1>4, <1>5 DEF Go!rueckweg

LEMMA SignInSignOutInOrder ==
    ASSUME Go!SignInAssumption, Go!TypeOK, SignInInOrder, ~excused',
           Go!trennen \/ \E delete \in BOOLEAN : Go!SignOut(delete)
    PROVE  SignInInOrder'
  <1> USE DEF SignInInOrder, SignInOneAtATime, SignInRefreshesCurrent, SignInPlaces, SignInAtRest,
              Go!Returning, Go!Refreshing, Go!TypeOK, Go!Known, Go!Bounds
  <1>1. ASSUME NEW delete \in BOOLEAN, Go!SignOut(delete) PROVE SignInInOrder'
    BY <1>1 DEF Go!SignOut
  <1>2. CASE Go!ForgetRefresh
    BY <1>2 DEF Go!ForgetRefresh
  <1>3. CASE Go!ForgetAccess
    BY <1>3 DEF Go!ForgetAccess, Go!WithoutAccess, Go!NoAccess
  <1>4. CASE Go!ForgetSetting
    BY <1>4 DEF Go!ForgetSetting
  <1>5. CASE Go!Revoke
    BY <1>5 DEF Go!Revoke, Go!NoSignOut
  <1> QED
    BY <1>1, <1>2, <1>3, <1>4, <1>5 DEF Go!trennen

LEMMA SignInAccessSteps ==
    ASSUME Go!SignInAssumption, Go!TypeOK, SignInInOrder, NEW u \in Users,
           Go!zugang(u) \/ Go!send(u)
    PROVE  SignInInOrder'
  <1> USE DEF SignInInOrder, SignInOneAtATime, SignInRefreshesCurrent, SignInPlaces, SignInAtRest,
              Go!Returning, Go!Refreshing, Go!TypeOK, Go!Else, Go!To
  <1>1. CASE Go!Call(u)
    BY <1>1 DEF Go!Call
  <1>2. CASE Go!Lock(u)
    BY <1>2 DEF Go!Lock
  <1>3. CASE Go!Look(u)
    BY <1>3 DEF Go!Look
  <1>4. CASE Go!Refreshed(u)
    BY <1>4 DEF Go!Refreshed
  <1>5. CASE Go!NotRefreshed(u)
    BY <1>5 DEF Go!NotRefreshed
  <1>6. CASE Go!send(u)
    BY <1>6 DEF Go!send, Go!Idle
  <1> QED
    BY <1>1, <1>2, <1>3, <1>4, <1>5, <1>6 DEF Go!zugang

LEMMA SignInOtherSteps ==
    ASSUME Go!SignInAssumption, Go!TypeOK, SignInInOrder,
           Go!app_setzen \/ Go!start \/ Go!Age \/ UNCHANGED Go!vars \/ \E s \in Go!SignIns : Go!Expire(s)
    PROVE  SignInInOrder'
  <1> USE DEF SignInInOrder, SignInOneAtATime, SignInRefreshesCurrent, SignInPlaces, SignInAtRest,
              Go!Returning, Go!Refreshing, Go!TypeOK
  <1>1. /\ UNCHANGED <<there, setting, KONTEN, back, signout, user, excused>>
        /\ ZUGAENGE'.of = ZUGAENGE.of
    BY DEF Go!app_setzen, Go!start, Go!Age, Go!Expire, Go!Known, Go!Bounds, Go!Else, Go!vars
  <1> QED
    BY <1>1

(* A restart puts everything in order, unless the account is gone. *)
LEMMA SignInRestartStep ==
    ASSUME Go!SignInAssumption, Go!TypeOK, ~excused => SignInInOrder, Go!Restart, ~excused'
    PROVE  SignInInOrder'
  <1>1. ~there => ~excused /\ setting = 0
    BY DEF Go!Restart, SignInInOrder, SignInOneAtATime, Go!TypeOK
  <1> QED
    BY <1>1 DEF Go!Restart, SignInInOrder, SignInOneAtATime, SignInRefreshesCurrent, SignInPlaces,
       SignInAtRest, Go!Returning, Go!Refreshing,
                Go!NoAccess, Go!NoSignOut, Go!Idle, Go!TypeOK

LEMMA SignInInductive ==
    ASSUME Go!SignInAssumption
    PROVE  SignInInv /\ [Go!Next]_Go!vars => SignInInv'
  <1> SUFFICES ASSUME SignInInv, [Go!Next]_Go!vars PROVE SignInInv'
    OBVIOUS
  <1>1. Go!TypeOK'
    BY SignInTypes DEF SignInInv
  <1>2. ASSUME ~excused' PROVE SignInInOrder'
    <2>1. CASE Go!Restart
      BY <2>1, <1>2, SignInRestartStep DEF SignInInv
    <2>2. CASE ~Go!Restart
      <3>1. ~excused
        BY <1>2, <2>2 DEF Go!Next, Go!vars, Go!app_setzen, Go!start, Go!Age, Go!Expire,
           Go!google_rueckweg, Go!rueckweg, Go!NoCode, Go!StoreRefresh,
                          Go!KnowRefresh, Go!KnowAccess, Go!SignOut, Go!trennen, Go!ForgetRefresh, Go!ForgetAccess, Go!ForgetSetting,
                          Go!Revoke, Go!zugang, Go!Call, Go!Lock, Go!Look, Go!Refreshed, Go!NotRefreshed, Go!send, Go!Else
      <3>2. SignInInOrder /\ Go!TypeOK
        BY <3>1 DEF SignInInv
      <3> QED
        BY <1>2, <2>2, <3>2, SignInSignInSteps, SignInSignOutInOrder, SignInAccessSteps,
           SignInOtherSteps DEF Go!Next
    <2> QED
      BY <2>1, <2>2
  <1> QED
    BY <1>1, <1>2 DEF SignInInv

LEMMA SignInInitially == ASSUME Go!SignInAssumption PROVE Go!Init => SignInInv
  <1> SUFFICES ASSUME Go!Init PROVE SignInInv
    OBVIOUS
  <1>1. Go!TypeOK
    <2>1. 0 \in Go!Tokens /\ 0 \in 0 .. MaxErrors /\ 0 \in 0 .. MaxCrashes
      BY DEF Go!Tokens, Go!SignInAssumption
    <2>2. Go!NoSignOut \in SignInSignOuts /\ Go!NoAccess \in [of : Go!Tokens, fresh : BOOLEAN]
      BY <2>1 DEF Go!NoSignOut, SignInSignOuts, Go!NoAccess
    <2>3. user \in [Users -> [step : {"idle", "wait", "look", "asked", "send"}, of : Go!Tokens]]
      BY <2>1 DEF Go!Init, Go!Idle
    <2> QED
      BY <2>1, <2>2, <2>3 DEF Go!Init, Go!TypeOK, SignInSignOuts
  <1>2. SignInInOrder
    BY DEF Go!Init, SignInInOrder, SignInOneAtATime, SignInRefreshesCurrent, SignInPlaces,
       SignInAtRest, Go!Returning, Go!Refreshing,
           Go!NoAccess, Go!NoSignOut, Go!Idle
  <1> QED
    BY <1>1, <1>2 DEF SignInInv

-----------------------------------------------------------------------------
(* In order means of one sign-in. *)
LEMMA SignInSameSignIn == ASSUME SignInInv PROVE Go!OneSignIn
  BY DEF SignInInv, SignInInOrder, SignInOneAtATime, SignInPlaces, SignInAtRest, Go!OneSignIn,
     Go!Settled

-----------------------------------------------------------------------------
(***************************************************************************)
(* Calendars: what is stored is a version some event has had               *)
(* (api/calendars.rs, dav/scheduler.rs).                                   *)
(***************************************************************************)
CalendarsVersions == 0 .. MaxVersion
CalendarsSyncType == [step : {"idle", "discover", "fetch", "collections"}, todo : SUBSET Events,
                      got : [Events -> CalendarsVersions]]
CalendarsSteps == {"none", "create", "update", "import", "save", "delete", "drop", "off"}
CalendarsRequestType == [step : CalendarsSteps, event : Events, version : CalendarsVersions, url : BOOLEAN]

LEMMA CalendarsTyped ==
    Ca!TypeOK <=> /\ server \in [Events -> CalendarsVersions] /\ row \in [Events -> CalendarsVersions]
                  /\ urlless \subseteq Events /\ collection \in BOOLEAN /\ account \in BOOLEAN
                  /\ sync \in [Runs -> CalendarsSyncType] /\ request \in CalendarsRequestType
                  /\ served \in [Events -> SUBSET (1 .. MaxVersion)]
                  /\ version \in CalendarsVersions
                  /\ switches \in 0 .. MaxSwitches /\ errors \in 0 .. MaxErrors
  BY DEF Ca!TypeOK, CalendarsVersions, CalendarsSyncType, CalendarsRequestType, CalendarsSteps

LEMMA CalendarsWhole ==
    Ca!TypeOK' <=> /\ server' \in [Events -> CalendarsVersions] /\ row' \in [Events -> CalendarsVersions]
                   /\ urlless' \subseteq Events /\ collection' \in BOOLEAN /\ account' \in BOOLEAN
                   /\ sync' \in [Runs -> CalendarsSyncType] /\ request' \in CalendarsRequestType
                   /\ served' \in [Events -> SUBSET (1 .. MaxVersion)]
                   /\ version' \in CalendarsVersions
                   /\ switches' \in 0 .. MaxSwitches /\ errors' \in 0 .. MaxErrors
  BY DEF Ca!TypeOK, CalendarsVersions, CalendarsSyncType, CalendarsRequestType, CalendarsSteps

LEMMA CalendarsNothing ==
    ASSUME Ca!CalendarsAssumption
    PROVE  /\ 0 \in CalendarsVersions /\ CalendarsVersions \subseteq Nat
           /\ 0 \in 0 .. MaxErrors /\ 0 \in 0 .. MaxSwitches
           /\ Ca!NoEvents \in [Events -> CalendarsVersions]
           /\ Ca!Idle \in CalendarsSyncType /\ [Ca!Idle EXCEPT !.step = "discover"] \in CalendarsSyncType
           /\ Ca!NoRequest \in CalendarsRequestType
           /\ [Ca!NoRequest EXCEPT !.step = "off"] \in CalendarsRequestType
  <1>1. /\ 0 \in CalendarsVersions /\ CalendarsVersions \subseteq Nat
        /\ 0 \in 0 .. MaxErrors /\ 0 \in 0 .. MaxSwitches
    BY DEF Ca!CalendarsAssumption, CalendarsVersions
  <1>2. Ca!NoEvents \in [Events -> CalendarsVersions]
    BY <1>1 DEF Ca!NoEvents
  <1>3. /\ Ca!Idle \in CalendarsSyncType /\ [Ca!Idle EXCEPT !.step = "discover"] \in CalendarsSyncType
    BY <1>2 DEF Ca!Idle, CalendarsSyncType
  <1>4. (CHOOSE e \in Events : TRUE) \in Events
    BY DEF Ca!CalendarsAssumption
  <1>5. Ca!NoRequest \in CalendarsRequestType
    BY <1>1, <1>4 DEF Ca!NoRequest, CalendarsRequestType, CalendarsSteps
  <1>6. [Ca!NoRequest EXCEPT !.step = "off"] \in CalendarsRequestType
    BY <1>5 DEF CalendarsRequestType, CalendarsSteps
  <1> QED
    BY <1>1, <1>2, <1>3, <1>5, <1>6

LEMMA CalendarsInitially == ASSUME Ca!CalendarsAssumption PROVE Ca!Init => Ca!TypeOK
  BY CalendarsNothing, CalendarsTyped DEF Ca!Init

(* A request changed in part. *)
LEMMA CalendarsAsked ==
    ASSUME NEW r \in CalendarsRequestType
    PROVE  /\ r.step \in CalendarsSteps /\ r.event \in Events /\ r.version \in CalendarsVersions
           /\ r.url \in BOOLEAN
           /\ \A s \in CalendarsSteps : /\ [r EXCEPT !.step = s] \in CalendarsRequestType
                                        /\ [r EXCEPT !.step = s].step = s
           /\ [r EXCEPT !.step = "save", !.url = FALSE] \in CalendarsRequestType
           /\ [r EXCEPT !.step = "save", !.url = FALSE].step = "save"
  BY DEF CalendarsRequestType, CalendarsSteps

LEMMA CalendarsInductive ==
    ASSUME Ca!CalendarsAssumption, Ca!TypeOK, [Ca!Next]_Ca!vars PROVE Ca!TypeOK'
  <1>1. /\ server \in [Events -> CalendarsVersions] /\ row \in [Events -> CalendarsVersions]
        /\ urlless \subseteq Events /\ collection \in BOOLEAN /\ account \in BOOLEAN
        /\ sync \in [Runs -> CalendarsSyncType] /\ request \in CalendarsRequestType
        /\ served \in [Events -> SUBSET (1 .. MaxVersion)]
        /\ version \in CalendarsVersions /\ switches \in 0 .. MaxSwitches /\ errors \in 0 .. MaxErrors
        /\ 0 \in CalendarsVersions /\ CalendarsVersions \subseteq Nat
        /\ MaxVersion \in Nat /\ MaxSwitches \in Nat /\ MaxErrors \in Nat
    <2>1. /\ 0 \in CalendarsVersions /\ CalendarsVersions \subseteq Nat
      BY CalendarsNothing
    <2>2. MaxVersion \in Nat /\ MaxSwitches \in Nat /\ MaxErrors \in Nat
      BY DEF Ca!CalendarsAssumption
    <2> QED
      BY <2>1, <2>2, CalendarsTyped
  <1> USE <1>1
  <1>2. /\ Ca!NewVersion => version' \in CalendarsVersions /\ version' = version + 1
        /\ version < MaxVersion => version + 1 \in CalendarsVersions
        /\ Ca!Fails => errors' \in 0 .. MaxErrors
        /\ switches < MaxSwitches => switches + 1 \in 0 .. MaxSwitches
    BY DEF Ca!NewVersion, Ca!Fails, CalendarsVersions
  <1>3. ASSUME NEW e \in Events, NEW v \in CalendarsVersions, Ca!Serve(e, v)
        PROVE  /\ server' \in [Events -> CalendarsVersions]
               /\ served' \in [Events -> SUBSET (1 .. MaxVersion)]
    <2>1. v # 0 => v \in 1 .. MaxVersion
      BY DEF CalendarsVersions
    <2> QED
      BY <1>3, <2>1 DEF Ca!Serve
  (* What a synchronisation does but store does not touch the rows. *)
  <1>4. ASSUME NEW r \in Runs, NEW s \in CalendarsSyncType, sync' = [sync EXCEPT ![r] = s],
               errors' \in 0 .. MaxErrors,
               UNCHANGED <<server, row, urlless, collection, account, request, served, version, switches>>
        PROVE  Ca!TypeOK'
    <2>1. sync' \in [Runs -> CalendarsSyncType]
      BY <1>4
    <2> QED
      BY <1>4, <2>1, CalendarsWhole
  <1>5. ASSUME NEW r \in Runs
        PROVE  Ca!Starts(r) => sync' \in [Runs -> CalendarsSyncType]
    BY CalendarsNothing DEF Ca!Starts
  (* A request goes on without a change of the rows. *)
  <1>6. ASSUME request' \in CalendarsRequestType,
               server' \in [Events -> CalendarsVersions],
               served' \in [Events -> SUBSET (1 .. MaxVersion)],
               version' \in CalendarsVersions, errors' \in 0 .. MaxErrors,
               UNCHANGED <<row, urlless, collection, account, sync, switches>>
        PROVE  Ca!TypeOK'
    BY <1>6, CalendarsWhole
  <1>7. /\ Ca!End => request' \in CalendarsRequestType
        /\ \A s \in {"save", "drop"} : Ca!To(s) => request' \in CalendarsRequestType
        /\ Ca!Failed => request' \in CalendarsRequestType
    <2>1. /\ Ca!NoRequest \in CalendarsRequestType
          /\ [request EXCEPT !.step = "save", !.url = FALSE] \in CalendarsRequestType
          /\ \A s \in {"save", "drop"} : [request EXCEPT !.step = s] \in CalendarsRequestType
      BY CalendarsNothing, CalendarsAsked DEF CalendarsSteps
    <2> QED
      BY <2>1 DEF Ca!End, Ca!To, Ca!Failed
  <1>8. ASSUME NEW e \in Events, Ca!Elsewhere(e) PROVE Ca!TypeOK'
    <2>1. PICK v \in {0, version + 1} : Ca!NewVersion /\ Ca!Serve(e, v)
      BY <1>8 DEF Ca!Elsewhere
    <2>2. v \in CalendarsVersions /\ version' \in CalendarsVersions
      BY <1>2, <2>1 DEF Ca!NewVersion
    <2>3. UNCHANGED <<row, urlless, collection, account, sync, request, switches, errors>>
      BY <1>8 DEF Ca!Elsewhere
    <2> QED
      BY <1>3, <1>6, <2>1, <2>2, <2>3
  (* Requests begin. *)
  <1>9. ASSUME NEW st \in CalendarsSteps, NEW e \in Events, NEW v \in CalendarsVersions,
               NEW url \in BOOLEAN, Ca!Begin(st, e, v, url),
               version' \in CalendarsVersions
        PROVE  Ca!TypeOK'
    <2>1. request' \in CalendarsRequestType
      BY <1>9 DEF Ca!Begin, CalendarsRequestType
    <2>2. UNCHANGED <<server, row, urlless, collection, account, sync, served, switches, errors>>
      BY <1>9 DEF Ca!Begin
    <2> QED
      BY <1>6, <1>9, <2>1, <2>2
  <1>10. ASSUME NEW e \in Events, Ca!create_event(e) \/ Ca!import_events(e) \/ Ca!update_event(e)
         PROVE  Ca!TypeOK'
    <2>1. PICK st \in {"create", "import", "update"}, url \in BOOLEAN :
             Ca!NewVersion /\ Ca!Begin(st, e, version + 1, url)
      BY <1>10 DEF Ca!create_event, Ca!import_events, Ca!update_event
    <2>2. version + 1 \in CalendarsVersions /\ version' \in CalendarsVersions
      BY <1>2, <2>1 DEF Ca!NewVersion
    <2> QED
      BY <1>9, <2>1, <2>2 DEF CalendarsSteps
  <1>11. ASSUME NEW e \in Events, Ca!delete_event(e) PROVE Ca!TypeOK'
    <2>1. Ca!Begin("delete", e, 0, e \notin urlless) /\ version' = version
      BY <1>11 DEF Ca!delete_event
    <2> QED
      BY <1>9, <2>1 DEF CalendarsSteps
  <1>12. ASSUME NEW r \in Runs, Ca!start_caldav_sync(r) PROVE Ca!TypeOK'
    BY <1>4, <1>12, CalendarsNothing DEF Ca!start_caldav_sync, Ca!Starts, Ca!counters
  <1>13. ASSUME NEW r \in Runs, Ca!discover_calendars(r) PROVE Ca!TypeOK'
    <2>1. [sync[r] EXCEPT !.step = "fetch", !.todo = {e \in Events : server[e] # 0}] \in CalendarsSyncType
      BY DEF CalendarsSyncType
    <2>2. \/ /\ sync' = [sync EXCEPT ![r] = [sync[r] EXCEPT !.step = "fetch",
                                                             !.todo = {e \in Events : server[e] # 0}]]
             /\ UNCHANGED errors
          \/ Ca!Fails /\ sync' = [sync EXCEPT ![r] = Ca!Idle]
      BY <1>13 DEF Ca!discover_calendars
    <2> QED
      BY <1>2, <1>4, <1>13, <2>1, <2>2, CalendarsNothing DEF Ca!discover_calendars
  <1>14. ASSUME NEW r \in Runs, NEW e \in Events, Ca!fetch_event(r, e) PROVE Ca!TypeOK'
    <2>1. /\ [sync[r] EXCEPT !.todo = @ \ {e}, !.got[e] = server[e]] \in CalendarsSyncType
          /\ [sync[r] EXCEPT !.todo = @ \ {e}] \in CalendarsSyncType
      BY DEF CalendarsSyncType
    <2>2. \/ /\ sync' = [sync EXCEPT ![r] = [sync[r] EXCEPT !.todo = @ \ {e}, !.got[e] = server[e]]]
             /\ UNCHANGED errors
          \/ Ca!Fails /\ sync' = [sync EXCEPT ![r] = [sync[r] EXCEPT !.todo = @ \ {e}]]
      BY <1>14 DEF Ca!fetch_event
    <2>3. /\ errors' \in 0 .. MaxErrors
          /\ UNCHANGED <<server, row, urlless, collection, account, request, served, version, switches>>
      BY <1>2, <1>14 DEF Ca!fetch_event
    <2> QED
      BY <1>4, <2>1, <2>2, <2>3
  <1>15. ASSUME NEW r \in Runs, Ca!Fetched(r) PROVE Ca!TypeOK'
    <2>1. [sync[r] EXCEPT !.step = "collections"] \in CalendarsSyncType
      BY DEF CalendarsSyncType
    <2>2. sync' = [sync EXCEPT ![r] = [sync[r] EXCEPT !.step = "collections"]]
      BY <1>15 DEF Ca!Fetched
    <2> QED
      BY <1>4, <1>15, <2>1, <2>2 DEF Ca!Fetched, Ca!counters
  <1>16. ASSUME NEW r \in Runs, Ca!Store(r) PROVE Ca!TypeOK'
    <2>1. sync' \in [Runs -> CalendarsSyncType] /\ errors' \in 0 .. MaxErrors
      BY <1>2, <1>16, CalendarsNothing DEF Ca!Store
    <2>2. sync[r].got \in [Events -> CalendarsVersions]
      BY DEF CalendarsSyncType
    <2>3. /\ row' \in [Events -> CalendarsVersions] /\ urlless' \subseteq Events
          /\ collection' \in BOOLEAN
      BY <1>16, <2>2 DEF Ca!Store, Ca!save_event
    <2> QED
      BY <1>16, <2>1, <2>3, CalendarsWhole DEF Ca!Store
  <1>17. ASSUME Ca!Put PROVE Ca!TypeOK'
    <2>1. /\ request.event \in Events /\ request.version \in CalendarsVersions
          /\ UNCHANGED <<row, urlless, collection, account, sync, version, switches>>
      BY <1>17, CalendarsAsked DEF Ca!Put
    <2>2. errors' \in 0 .. MaxErrors
      BY <1>2, <1>17 DEF Ca!Put
    <2>3. UNCHANGED <<server, served>> \/ Ca!Serve(request.event, request.version)
      BY <1>17 DEF Ca!Put
    <2>4. /\ server' \in [Events -> CalendarsVersions]
          /\ served' \in [Events -> SUBSET (1 .. MaxVersion)]
      BY <1>3, <2>1, <2>3
    <2>5. Ca!End \/ Ca!Failed \/ Ca!To("save")
      BY <1>17 DEF Ca!Put
    <2> QED
      BY <1>6, <1>7, <2>1, <2>2, <2>4, <2>5
  <1>18. ASSUME Ca!save_event_row PROVE Ca!TypeOK'
    <2>1. request.event \in Events /\ request.version \in CalendarsVersions
      BY CalendarsAsked
    <2>2. row' \in [Events -> CalendarsVersions] /\ urlless' \subseteq Events
      BY <1>18, <2>1 DEF Ca!save_event_row
    <2> QED
      BY <1>7, <1>18, <2>2, CalendarsWhole DEF Ca!save_event_row, Ca!counters
  <1>19. ASSUME Ca!Delete PROVE Ca!TypeOK'
    <2>1. /\ request.event \in Events
          /\ UNCHANGED <<row, urlless, collection, account, sync, version, switches>>
      BY <1>19, CalendarsAsked DEF Ca!Delete
    <2>2. errors' \in 0 .. MaxErrors
      BY <1>2, <1>19 DEF Ca!Delete
    <2>3. UNCHANGED <<server, served>> \/ Ca!Serve(request.event, 0)
      BY <1>19 DEF Ca!Delete
    <2>4. /\ server' \in [Events -> CalendarsVersions]
          /\ served' \in [Events -> SUBSET (1 .. MaxVersion)]
      BY <1>3, <2>1, <2>3
    <2>5. Ca!End \/ Ca!To("drop")
      BY <1>19 DEF Ca!Delete
    <2> QED
      BY <1>6, <1>7, <2>1, <2>2, <2>4, <2>5
  <1>20. ASSUME Ca!Drop PROVE Ca!TypeOK'
    <2>1. row' \in [Events -> CalendarsVersions] /\ urlless' \subseteq Events
      BY <1>20, CalendarsAsked DEF Ca!Drop
    <2> QED
      BY <1>7, <1>20, <2>1, CalendarsWhole DEF Ca!Drop, Ca!counters
  <1>21. ASSUME Ca!delete_caldav_account PROVE Ca!TypeOK'
    <2>1. request' \in CalendarsRequestType
      BY <1>21, CalendarsNothing DEF Ca!delete_caldav_account
    <2> QED
      BY <1>2, <1>21, <2>1, CalendarsNothing, CalendarsWhole DEF Ca!delete_caldav_account
  <1>22. ASSUME Ca!store_accounts PROVE Ca!TypeOK'
    BY <1>7, <1>22, CalendarsWhole DEF Ca!store_accounts, Ca!counters
  <1>23. ASSUME NEW r \in Runs, Ca!schalten(r) PROVE Ca!TypeOK'
    BY <1>2, <1>5, <1>23, CalendarsWhole DEF Ca!schalten
  <1>24. ASSUME UNCHANGED Ca!vars PROVE Ca!TypeOK'
    BY <1>24, CalendarsWhole DEF Ca!vars, Ca!counters
  <1> QED
    BY <1>8, <1>10, <1>11, <1>12, <1>13, <1>14, <1>15, <1>16, <1>17, <1>18, <1>19, <1>20, <1>21,
       <1>22, <1>23, <1>24 DEF Ca!Next, Ca!Work, Ca!Handle
=============================================================================
