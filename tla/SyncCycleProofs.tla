-------------------------- MODULE SyncCycleProofs --------------------------
(***************************************************************************)
(* Theorems about the round and its task queue, for any accounts, batches, *)
(* bounds and numbers of retries (up to four).                             *)
(***************************************************************************)
EXTENDS SyncCycle, FiniteSetTheorems, SequenceTheorems, TLAPS

IsFetch(t) == t.type = "FetchNew"

(* A fetch in the queue or in hand is the open one of its account, and its *)
(* priority tells how often it failed; everything else comes after it.     *)
OpenFetch(t) == /\ t.account \in Accounts \ waiting
                /\ outcome[t.account] = "open" /\ failed[t.account] = t.retries
                /\ t.retries <= FetchRetries /\ t.priority = 10 - t.retries
Sound(t) == t \in Task /\ (IsFetch(t) => OpenFetch(t)) /\ (~IsFetch(t) => t.priority <= 5)

(* Each account has one fetch at most. *)
Single(h) == \A i, j \in DOMAIN h : IsFetch(h[i]) /\ IsFetch(h[j]) /\ h[i].account = h[j].account => i = j

Queue == /\ heap \in Seq(Task)
         /\ \A i \in DOMAIN heap : Sound(heap[i])
         /\ \A t \in cur : Sound(t)
         /\ Single(heap)
         /\ \A t \in cur, i \in DOMAIN heap : IsFetch(t) /\ IsFetch(heap[i])
                                               => heap[i].account # t.account
         /\ MailFirst

(* What the steps of the round have left behind.                           *)
Steps == /\ at \in {"idle", "drain", "work", "jobs", "ops", "marked", "unlisted", "listed",
                     "flush", "expunge", "erledigt", "sleep"}
         /\ at = "work" => (\E t : cur = {t}) /\ older \in 0 .. Len(heap)
         /\ at # "work" => cur = {} /\ older = 0
         /\ waiting \subseteq Accounts /\ (at # "idle" => waiting = {})
         /\ at \notin {"idle", "drain", "work"} => \A i \in DOMAIN heap : ~IsFetch(heap[i])

(* An account is still waited for, has its fetch in the queue or in hand,  *)
(* or is through with it.                                                  *)
Queued(a) == \E i \in DOMAIN heap : IsFetch(heap[i]) /\ heap[i].account = a
InHand(a) == \E t \in cur : IsFetch(t) /\ t.account = a
Through(a) == outcome[a] # "open" \/ failed[a] = FetchRetries + 1
Served == /\ outcome \in [Accounts -> {"open", "unreachable", "fetched"}]
          /\ failed \in [Accounts -> 0 .. FetchRetries + 1]
          /\ \A a \in waiting : outcome[a] = "open" /\ failed[a] = 0
          /\ \A a \in Accounts \ waiting : Through(a) \/ Queued(a) \/ InHand(a)

Round == Queue /\ Steps /\ Served

Ages == never \subseteq Jobs /\ \A j \in Jobs : age[j] \in 0 .. Every[j]
Counts == /\ events \in 0 .. MaxEvents /\ diffs \in 0 .. events
          /\ raw \in [Accounts -> 0 .. MaxRaw]
Flags == /\ op \in {"none", "delete", "delete_mid"} /\ llm \in BOOLEAN
         /\ flagged \in BOOLEAN /\ pending \in BOOLEAN /\ listed \in BOOLEAN /\ lost \in BOOLEAN
Others == Ages /\ Counts /\ Flags

-----------------------------------------------------------------------------
(* A set of numbers has a least one. *)
LEMMA Smallest ==
    ASSUME NEW T, T \subseteq Nat, T # {} PROVE \E x \in T : \A y \in T : x <= y
  <1>1. PICK x \in T : \A y \in T : ~(<<y, x>> \in OpToRel(<, Nat))
    BY NatLessThanWellFounded, WFMin
  <1>2. \A y \in T : ~(y < x)
    BY <1>1 DEF OpToRel
  <1> QED
    BY <1>2

(* RemoveAt leaves the other tasks in their order. *)
LEMMA Removed ==
    ASSUME NEW S, NEW s \in Seq(S), NEW i \in DOMAIN s
    PROVE  /\ RemoveAt(s, i) \in Seq(S) /\ Len(RemoveAt(s, i)) = Len(s) - 1
           /\ \A j \in 1 .. Len(s) - 1 : RemoveAt(s, i)[j] = IF j < i THEN s[j] ELSE s[j + 1]
  <1> DEFINE p == SubSeq(s, 1, i - 1)
             q == SubSeq(s, i + 1, Len(s))
  <1>1. p \in Seq(S) /\ Len(p) = i - 1 /\ \A j \in 1 .. i - 1 : p[j] = s[j]
    BY SubSeqProperties
  <1>2. q \in Seq(S) /\ Len(q) = Len(s) - i /\ \A j \in 1 .. Len(s) - i : q[j] = s[i + j]
    BY SubSeqProperties
  <1>3. RemoveAt(s, i) = p \o q
    BY DEF RemoveAt
  <1> HIDE DEF p, q
  <1> QED
    BY <1>1, <1>2, <1>3, ConcatProperties

(* InsertAt puts one task among the others. *)
LEMMA Inserted ==
    ASSUME NEW S, NEW s \in Seq(S), NEW i \in 1 .. Len(s) + 1, NEW e \in S
    PROVE  /\ InsertAt(s, i, e) \in Seq(S) /\ Len(InsertAt(s, i, e)) = Len(s) + 1
           /\ \A j \in 1 .. Len(s) + 1 :
                InsertAt(s, i, e)[j] = IF j < i THEN s[j] ELSE IF j = i THEN e ELSE s[j - 1]
  <1>i. i \in Nat /\ Len(s) \in Nat
    BY LenProperties
  <1>p. PICK p : p = SubSeq(s, 1, i - 1)
    OBVIOUS
  <1>q. PICK q : q = SubSeq(s, i, Len(s))
    OBVIOUS
  <1>e. PICK x : x = <<e>>
    OBVIOUS
  <1>m. PICK m : m = p \o x
    OBVIOUS
  <1>g. PICK g : g = m \o q
    OBVIOUS
  <1>1. p \in Seq(S) /\ Len(p) = i - 1 /\ \A j \in 1 .. i - 1 : p[j] = s[j]
    BY <1>p, SubSeqProperties
  <1>2. q \in Seq(S) /\ Len(q) = Len(s) - i + 1 /\ \A j \in 1 .. Len(s) - i + 1 : q[j] = s[i + j - 1]
    BY <1>q, SubSeqProperties
  <1>3. x \in Seq(S) /\ Len(x) = 1 /\ x[1] = e
    BY <1>e
  <1>4. /\ m \in Seq(S) /\ Len(m) = Len(p) + Len(x)
        /\ \A j \in 1 .. Len(p) + Len(x) : m[j] = IF j <= Len(p) THEN p[j] ELSE x[j - Len(p)]
    <2>1. p \in Seq(S) /\ x \in Seq(S)
      BY <1>1, <1>3
    <2> QED
      BY <2>1, <1>m, ConcatProperties
  <1>5. /\ g \in Seq(S) /\ Len(g) = Len(m) + Len(q)
        /\ \A j \in 1 .. Len(m) + Len(q) : g[j] = IF j <= Len(m) THEN m[j] ELSE q[j - Len(m)]
    <2>1. m \in Seq(S) /\ q \in Seq(S)
      BY <1>2, <1>4
    <2> QED
      BY <2>1, <1>g, ConcatProperties
  <1>6. g = InsertAt(s, i, e)
    BY <1>p, <1>q, <1>e, <1>m, <1>g DEF InsertAt
  <1>7. Len(m) = i /\ Len(g) = Len(s) + 1
    BY <1>i, <1>1, <1>2, <1>3, <1>4, <1>5
  <1>8. ASSUME NEW j \in 1 .. Len(s) + 1
        PROVE  g[j] = IF j < i THEN s[j] ELSE IF j = i THEN e ELSE s[j - 1]
    <2>1. CASE j < i
      <3>1. g[j] = m[j] /\ m[j] = p[j]
        BY <1>i, <1>1, <1>3, <1>4, <1>5, <1>7, <2>1
      <3> QED
        BY <1>i, <1>1, <2>1, <3>1
    <2>2. CASE j = i
      <3>1. g[i] = m[i] /\ m[i] = x[i - (i - 1)]
        BY <1>i, <1>1, <1>3, <1>4, <1>5, <1>7, <2>2
      <3>2. i - (i - 1) = 1
        BY <1>i
      <3> QED
        BY <1>3, <2>2, <3>1, <3>2
    <2>3. CASE i < j
      <3>1. g[j] = q[j - i] /\ q[j - i] = s[i + (j - i) - 1]
        BY <1>i, <1>2, <1>5, <1>7, <2>3
      <3>2. i + (j - i) - 1 = j - 1
        BY <1>i
      <3> QED
        BY <1>i, <2>3, <3>1, <3>2
    <2> QED
      BY <1>i, <2>1, <2>2, <2>3
  <1> QED
    BY <1>5, <1>6, <1>7, <1>8

(* The sequence of a finite set is made of its members. *)
LEMMA InSequence ==
    ASSUME NEW S, IsFiniteSet(S)
    PROVE  Cardinality(S) \in Nat /\ \A i \in 1 .. Cardinality(S) : SetToSeq(S)[i] \in S
  <1>1. Cardinality(S) \in Nat /\ \E f \in [1 .. Cardinality(S) -> S] : IsInjective(f)
    BY FS_CardinalityType DEF ExistsBijection, Bijection, Injection, IsInjective
  <1> QED
    BY <1>1 DEF SetToSeq
-----------------------------------------------------------------------------
(* One task more in the heap. *)
PutIn(k, u) == /\ k \in 1 .. Len(heap) + 1
               /\ heap' \in Seq(Task) /\ Len(heap') = Len(heap) + 1
               /\ \A j \in 1 .. Len(heap) + 1 :
                     heap'[j] = IF j < k THEN heap[j] ELSE IF j = k THEN u ELSE heap[j - 1]

(* Append and InsertAt put one task in. *)
LEMMA PutsIn ==
    ASSUME heap \in Seq(Task), NEW u \in Task
    PROVE  /\ heap' = Append(heap, u) => PutIn(Len(heap) + 1, u)
           /\ \A k \in 1 .. Len(heap) + 1 : heap' = InsertAt(heap, k, u) => PutIn(k, u)
  <1>1. ASSUME heap' = Append(heap, u) PROVE PutIn(Len(heap) + 1, u)
    BY <1>1, AppendProperties DEF PutIn
  <1>2. ASSUME NEW k \in 1 .. Len(heap) + 1, heap' = InsertAt(heap, k, u) PROVE PutIn(k, u)
    BY <1>2, Inserted DEF PutIn
  <1> QED
    BY <1>1, <1>2

(* Where the tasks of the heap go when one is put in; the fetches stay the *)
(* only ones of their accounts.                                            *)
LEMMA Elements ==
    ASSUME heap \in Seq(Task), NEW k, NEW u, PutIn(k, u)
    PROVE  /\ k \in DOMAIN heap' /\ heap'[k] = u
           /\ \A i \in DOMAIN heap' : i = k \/ \E j \in DOMAIN heap : heap'[i] = heap[j]
           /\ \A j \in DOMAIN heap : \E i \in DOMAIN heap' : heap'[i] = heap[j]
           /\ (IsFetch(u) => \A j \in DOMAIN heap : IsFetch(heap[j]) => heap[j].account # u.account)
              /\ Single(heap) => Single(heap')
  <1>1. /\ DOMAIN heap' = 1 .. Len(heap) + 1 /\ DOMAIN heap = 1 .. Len(heap) /\ Len(heap) \in Nat
        /\ k \in 1 .. Len(heap) + 1
    BY DEF PutIn
  <1>2. heap'[k] = u
    BY <1>1 DEF PutIn
  <1>3. ASSUME NEW i \in DOMAIN heap', i # k
        PROVE  \E j \in DOMAIN heap : heap'[i] = heap[j] /\ (i < k => j = i) /\ (i > k => j = i - 1)
    <2>1. CASE i < k
      BY <1>1, <2>1 DEF PutIn
    <2>2. CASE i > k
      <3>1. heap'[i] = heap[i - 1]
        BY <1>1, <1>3, <2>2 DEF PutIn
      <3>2. i - 1 \in DOMAIN heap /\ ~(i < k)
        BY <1>1, <2>2
      <3> QED
        BY <3>1, <3>2
    <2> QED
      BY <1>1, <1>3, <2>1, <2>2
  <1>4. ASSUME NEW j \in DOMAIN heap PROVE \E i \in DOMAIN heap' : heap'[i] = heap[j]
    <2>1. CASE j < k
      BY <1>1, <2>1 DEF PutIn
    <2>2. CASE ~(j < k)
      <3>1. j + 1 \in 1 .. Len(heap) + 1 /\ (j + 1) - 1 = j /\ ~(j + 1 < k) /\ j + 1 # k
        BY <1>1, <2>2
      <3>2. heap'[j + 1] = heap[(j + 1) - 1]
        BY <3>1 DEF PutIn
      <3> QED
        BY <1>1, <3>1, <3>2
    <2> QED
      BY <2>1, <2>2
  <1>5. ASSUME IsFetch(u) => \A j \in DOMAIN heap : IsFetch(heap[j]) => heap[j].account # u.account,
               Single(heap), NEW i \in DOMAIN heap', NEW j \in DOMAIN heap',
               IsFetch(heap'[i]), IsFetch(heap'[j]), heap'[i].account = heap'[j].account
        PROVE  i = j
    <2>1. CASE i = k \/ j = k
      BY <1>2, <1>3, <1>5, <2>1
    <2>2. CASE i # k /\ j # k
      <3>1. PICK m \in DOMAIN heap : heap'[i] = heap[m] /\ (i < k => m = i) /\ (i > k => m = i - 1)
        BY <1>3, <2>2
      <3>2. PICK n \in DOMAIN heap : heap'[j] = heap[n] /\ (j < k => n = j) /\ (j > k => n = j - 1)
        BY <1>3, <2>2
      <3>3. m = n
        BY <1>5, <3>1, <3>2 DEF Single
      <3> QED
        BY <1>1, <2>2, <3>1, <3>2, <3>3
    <2> QED
      BY <2>1, <2>2
  <1> QED
    BY <1>1, <1>2, <1>3, <1>4, <1>5 DEF Single

(* A task that is no fetch changes nothing for the fetches. *)
LEMMA OneMore ==
    ASSUME Queue, NEW k, NEW u \in Task, ~IsFetch(u), u.priority <= 5, PutIn(k, u), UNCHANGED round,
           cur' = cur \/ cur' = {}, UNCHANGED at \/ at' = "drain"
    PROVE  Queue' /\ \A a : Queued(a) => Queued(a)'
  <1>1. /\ k \in DOMAIN heap' /\ heap'[k] = u
        /\ \A i \in DOMAIN heap' : i = k \/ \E j \in DOMAIN heap : heap'[i] = heap[j]
        /\ \A j \in DOMAIN heap : \E i \in DOMAIN heap' : heap'[i] = heap[j]
        /\ Single(heap')
    BY Elements DEF Queue
  <1>2. \A t : Sound(t)' <=> Sound(t)
    BY DEF Sound, OpenFetch, round
  <1>3. \A i \in DOMAIN heap' : Sound(heap'[i])
    BY <1>1 DEF Queue, Sound
  <1>4. MailFirst'
    BY <1>1 DEF Queue, MailFirst, IsFetch
  <1>5. \A t \in cur, i \in DOMAIN heap' : IsFetch(t) /\ IsFetch(heap'[i]) => heap'[i].account # t.account
    BY <1>1 DEF Queue
  <1>6. Queue'
    BY <1>1, <1>2, <1>3, <1>4, <1>5 DEF Queue, PutIn
  <1> QED
    BY <1>1, <1>6 DEF Queued

(* A background task comes into the queue, while the round is anywhere or  *)
(* because the one in hand leads to it.                                    *)
LEMMA Background ==
    ASSUME Round, NEW k, NEW u \in Task, ~IsFetch(u), u.priority <= 5, PutIn(k, u), UNCHANGED round,
           \/ UNCHANGED <<at, cur, older>>
           \/ at = "work" /\ Finished /\ \A t \in cur : ~IsFetch(t)
    PROVE  Round'
  <1>1. Queue' /\ \A a : Queued(a) => Queued(a)'
    BY OneMore DEF Round, Finished
  <1>2. Steps'
    <2>1. at \notin {"idle", "drain", "work"} => \A i \in DOMAIN heap' : ~IsFetch(heap'[i])
      <3>1. ASSUME at \notin {"idle", "drain", "work"}, NEW i \in DOMAIN heap', IsFetch(heap'[i]) PROVE FALSE
        <4>1. \A j \in DOMAIN heap : ~IsFetch(heap[j])
          BY <3>1 DEF Round, Steps
        <4>2. heap'[k] = u /\ (i = k \/ \E j \in DOMAIN heap : heap'[i] = heap[j])
          BY Elements DEF Round, Queue
        <4> QED
          BY <3>1, <4>1, <4>2
      <3> QED
        BY <3>1
    <2>2. Len(heap') = Len(heap) + 1 /\ Len(heap) \in Nat
      BY DEF PutIn, Round, Queue
    <2>3. CASE UNCHANGED <<at, cur, older>>
      <3>1. at' = "work" => (\E t : cur' = {t}) /\ older' \in 0 .. Len(heap')
        <4>1. ASSUME at' = "work" PROVE \E t : cur' = {t}
          BY <2>3, <4>1 DEF Round, Steps
        <4>2. ASSUME at' = "work" PROVE older' \in 0 .. Len(heap')
          <5>1. older' \in 0 .. Len(heap)
            BY <2>3, <4>2 DEF Round, Steps
          <5> QED
            BY <2>2, <5>1
        <4> QED
          BY <4>1, <4>2
      <3>2. waiting' = waiting /\ at' = at /\ cur' = cur /\ older' = older
        BY <2>3 DEF round
      <3> QED
        BY <2>1, <3>1, <3>2 DEF Round, Steps
    <2>4. CASE at = "work" /\ Finished
      BY <2>2, <2>4 DEF Round, Steps, Finished, round
    <2> QED
      BY <2>3, <2>4
  <1>3. \A a : InHand(a) => InHand(a)'
    BY DEF InHand, Finished
  <1>4. Served'
    BY <1>1, <1>3 DEF Round, Served, Through, round
  <1> QED
    BY <1>1, <1>2, <1>4 DEF Round

(* Nothing changes for the tasks. *)
LEMMA NoTask ==
    ASSUME Round, UNCHANGED <<heap, cur, older, round>>,
           at' \in {"jobs", "ops", "marked", "unlisted", "listed", "flush", "expunge", "erledigt", "sleep"},
           \/ at \notin {"idle", "drain", "work"}
           \/ at = "drain" /\ heap = <<>>
    PROVE  Round'
  <1>1. \A t : Sound(t)' <=> Sound(t)
    BY DEF Sound, OpenFetch, round
  <1>2. cur = {} /\ older = 0 /\ waiting = {} /\ \A i \in DOMAIN heap : ~IsFetch(heap[i])
    BY DEF Round, Steps
  <1>3. Queue'
    BY <1>1, <1>2 DEF Round, Queue, MailFirst
  <1>4. Steps'
    BY <1>2 DEF Round, Steps, round
  <1>5. Served'
    BY DEF Round, Served, Through, Queued, InHand, round
  <1> QED
    BY <1>3, <1>4, <1>5 DEF Round

(* A new round finds no fetch in the queue. *)
LEMMA FromTheStart ==
    ASSUME NewRound, cur' = {}, older' = 0,
           \/ heap' = <<>>
           \/ Round /\ at = "sleep" /\ heap' = heap
    PROVE  Round'
  <1>1. /\ heap' \in Seq(Task)
        /\ \A i \in DOMAIN heap' : ~IsFetch(heap'[i]) /\ heap'[i] \in Task /\ heap'[i].priority <= 5
    <2>1. CASE heap' = <<>>
      BY <2>1
    <2>2. CASE Round /\ at = "sleep" /\ heap' = heap
      BY <2>2 DEF Round, Queue, Steps, Sound
    <2> QED
      BY <2>1, <2>2
  <1>2. Queue'
    BY <1>1 DEF Queue, Sound, MailFirst, NewRound, Single
  <1>3. Steps'
    BY <1>1 DEF Steps, NewRound
  <1>4. Served'
    BY RetriesAssumption DEF Served, NewRound
  <1> QED
    BY <1>2, <1>3, <1>4 DEF Round

(* An account's wait is over. *)
LEMMA WaitOver == ASSUME Round, NEW a \in Accounts, idle_wait(a) PROVE Round'
  <1>1. /\ at = "idle" /\ cur = {} /\ older = 0 /\ a \in waiting /\ waiting' = waiting \ {a}
        /\ at' = at /\ cur' = cur /\ older' = older /\ failed' = failed
        /\ outcome[a] = "open" /\ failed[a] = 0
    BY DEF idle_wait, Round, Steps, Served
  <1>2. CASE heap' = Append(heap, Tasked(a, "FetchNew", 10)) /\ outcome' = outcome
    <2>1. PICK u : u = Tasked(a, "FetchNew", 10)
      OBVIOUS
    <2>2. u \in Task /\ u.account = a /\ u.type = "FetchNew" /\ u.retries = 0 /\ u.priority = 10
      BY <2>1 DEF Tasked, Task, Types
    <2>3. /\ heap' \in Seq(Task) /\ DOMAIN heap' = 1 .. Len(heap) + 1 /\ DOMAIN heap = 1 .. Len(heap)
          /\ Len(heap) \in Nat /\ heap'[Len(heap) + 1] = u /\ \A i \in 1 .. Len(heap) : heap'[i] = heap[i]
      BY <1>2, <2>1, <2>2, AppendProperties DEF Round, Queue
    <2>4. \A i \in DOMAIN heap : IsFetch(heap[i]) => heap[i].account # a
      BY <1>1 DEF Round, Queue, Sound, OpenFetch
    <2>5. \A t : Sound(t) /\ (IsFetch(t) => t.account # a) => Sound(t)'
      BY <1>1, <1>2 DEF Sound, OpenFetch
    <2>6. Sound(u)'
      BY <1>1, <1>2, <2>2, RetriesAssumption DEF Sound, OpenFetch, IsFetch
    <2>7. ASSUME NEW i \in DOMAIN heap' PROVE Sound(heap[i])'
      <3>1. CASE i = Len(heap) + 1
        BY <2>3, <2>6, <3>1
      <3>2. CASE i \in 1 .. Len(heap)
        BY <2>3, <2>4, <2>5, <3>2 DEF Round, Queue
      <3> QED
        BY <2>3, <2>7, <3>1, <3>2
    <2>8. ASSUME NEW i \in DOMAIN heap', NEW j \in DOMAIN heap', IsFetch(heap'[i]), IsFetch(heap'[j]),
                 heap'[i].account = heap'[j].account
          PROVE  i = j
      BY <2>2, <2>3, <2>4, <2>8 DEF Round, Queue, Single
    <2>9. Queue'
      BY <1>1, <2>3, <2>7, <2>8 DEF Queue, MailFirst, Single
    <2>10. Steps'
      BY <1>1 DEF Round, Steps
    <2>11. Queued(a)'
      BY <2>2, <2>3 DEF Queued, IsFetch
    <2>12. \A b : Queued(b) => Queued(b)'
      BY <2>3 DEF Queued
    <2>13. Served'
      BY <1>1, <1>2, <2>11, <2>12 DEF Round, Served, Through, InHand
    <2> QED
      BY <2>9, <2>10, <2>13 DEF Round
  <1>3. CASE heap' = heap /\ outcome' = [outcome EXCEPT ![a] = "unreachable"]
    <2>1. \A t : Sound(t) /\ (IsFetch(t) => t.account # a) => Sound(t)'
      BY <1>1, <1>3 DEF Sound, OpenFetch, Round, Served
    <2>2. \A i \in DOMAIN heap : IsFetch(heap[i]) => heap[i].account # a
      BY <1>1 DEF Round, Queue, Sound, OpenFetch
    <2>3. Queue'
      BY <1>1, <1>3, <2>1, <2>2 DEF Round, Queue, MailFirst
    <2>4. Steps'
      BY <1>1, <1>3 DEF Round, Steps
    <2>5. Served'
      BY <1>1, <1>3 DEF Round, Served, Through, InHand, Queued
    <2> QED
      BY <2>3, <2>4, <2>5 DEF Round
  <1> QED
    BY <1>2, <1>3 DEF idle_wait

(* A background task is through. *)
LEMMA TaskDone ==
    ASSUME Round, at = "work", Finished, \A t \in cur : ~IsFetch(t), UNCHANGED <<heap, round>>
    PROVE  Round'
  <1>1. \A t : Sound(t)' <=> Sound(t)
    BY DEF Sound, OpenFetch, round
  <1>2. Queue'
    BY <1>1 DEF Round, Queue, MailFirst, Finished
  <1>3. Steps'
    BY DEF Round, Steps, Finished, round
  <1>4. Served'
    BY DEF Round, Served, Through, Queued, InHand, round
  <1> QED
    BY <1>2, <1>3, <1>4 DEF Round

(* The fetch in hand and the others. *)
LEMMA FetchInHand ==
    ASSUME Round, at = "work", NEW t \in cur, IsFetch(t)
    PROVE  /\ cur = {t} /\ t \in Task /\ OpenFetch(t)
           /\ older \in 0 .. Len(heap) /\ waiting = {} /\ waiting \subseteq Accounts
           /\ \A i \in DOMAIN heap : IsFetch(heap[i]) => heap[i].account # t.account
  BY DEF Round, Steps, Queue, Sound

(* Fetches of other accounts stay as they are. *)
LEMMA OtherFetch ==
    ASSUME Served, NEW a, NEW t, Sound(t), IsFetch(t) => t.account # a, waiting' = waiting,
           \A b \in Accounts : b # a => outcome'[b] = outcome[b] /\ failed'[b] = failed[b]
    PROVE  Sound(t)'
  BY DEF Sound, OpenFetch

(* The fetch in hand succeeds. *)
LEMMA Fetched == ASSUME Round, at = "work", NEW t \in cur, FetchNew(t) PROVE Round'
  <1>1. IsFetch(t) /\ Finished /\ UNCHANGED <<heap, waiting, failed>>
        /\ outcome' = [outcome EXCEPT ![t.account] = "fetched"]
    BY DEF FetchNew, IsFetch
  <1>2. /\ cur = {t} /\ t.account \in Accounts /\ waiting = {} /\ waiting \subseteq Accounts
        /\ \A i \in DOMAIN heap : IsFetch(heap[i]) => heap[i].account # t.account
    BY <1>1, FetchInHand DEF OpenFetch
  <1>3. outcome' \in [Accounts -> {"open", "unreachable", "fetched"}]
        /\ \A b \in Accounts : b # t.account => outcome'[b] = outcome[b]
    BY <1>1 DEF Round, Served
  <1>4. \A i \in DOMAIN heap : Sound(heap[i])'
    BY <1>1, <1>2, <1>3, OtherFetch DEF Round, Queue
  <1>5. Queue'
    BY <1>1, <1>2, <1>4 DEF Round, Queue, MailFirst, Finished
  <1>6. Steps'
    BY <1>1, <1>2 DEF Round, Steps, Finished
  <1>7. Served'
    BY <1>1, <1>2, <1>3 DEF Round, Served, Through, Queued, InHand, Finished
  <1> QED
    BY <1>5, <1>6, <1>7 DEF Round

(* The fetch in hand fails, and comes back unless it failed too often. *)
LEMMA FetchFails == ASSUME Round, at = "work", NEW t \in cur, IsFetch(t), Fails(t) PROVE Round'
  <1> DEFINE a == t.account
  <1>1. Finished /\ UNCHANGED <<waiting, outcome>> /\ failed' = [failed EXCEPT ![a] = @ + 1]
    BY DEF Fails, IsFetch
  <1>2. /\ cur = {t} /\ t \in Task /\ a \in Accounts /\ waiting = {} /\ waiting \subseteq Accounts
        /\ outcome[a] = "open" /\ failed[a] = t.retries /\ t.retries \in 0 .. FetchRetries
        /\ t.priority = 10 - t.retries /\ older \in 0 .. Len(heap)
        /\ \A i \in DOMAIN heap : IsFetch(heap[i]) => heap[i].account # a
    BY FetchInHand, RetriesAssumption DEF OpenFetch, Task
  <1>3. /\ failed' \in [Accounts -> 0 .. FetchRetries + 1] /\ failed'[a] = t.retries + 1
        /\ \A b \in Accounts : b # a => failed'[b] = failed[b]
    BY <1>1, <1>2, RetriesAssumption DEF Round, Served
  <1>4. ASSUME NEW s, Sound(s), IsFetch(s) => s.account # a PROVE Sound(s)'
    BY <1>1, <1>3, <1>4, OtherFetch DEF Round
  <1>5. Again(t) <=> t.retries < FetchRetries
    BY DEF Again, MaxRetries, IsFetch, Types
  <1> HIDE DEF a
  <1>6. CASE ~Again(t)
    <2>1. heap' = heap /\ failed'[a] = FetchRetries + 1
      BY <1>2, <1>3, <1>5, <1>6, RetriesAssumption DEF Fails
    <2>2. Queue'
      <3>1. \A i \in DOMAIN heap : Sound(heap[i])'
        BY <1>2, <1>4, <2>1 DEF Round, Queue
      <3> QED
        BY <1>1, <1>2, <2>1, <3>1 DEF Round, Queue, MailFirst, Finished
    <2>3. Steps'
      BY <1>1, <1>2, <2>1 DEF Round, Steps, Finished
    <2>4. Served'
      BY <1>1, <1>2, <1>3, <2>1 DEF Round, Served, Through, Queued, InHand, Finished, a
    <2> QED
      BY <2>2, <2>3, <2>4 DEF Round
  <1>7. CASE Again(t)
    <2>1. PICK u : u = [t EXCEPT !.retries = @ + 1, !.priority = IF @ = 0 THEN 0 ELSE @ - 1]
      OBVIOUS
    <2>2. /\ u \in Task /\ IsFetch(u) /\ u.account = a
          /\ u.retries = t.retries + 1 /\ u.priority = 10 - u.retries
      <3>1. t.priority \in 6 .. 10 /\ t.retries \in Nat /\ t.retries + 1 \in Nat
        BY <1>2, RetriesAssumption
      <3>2. PICK p : p = IF t.priority = 0 THEN 0 ELSE t.priority - 1
        OBVIOUS
      <3>p. p \in 0 .. 10 /\ p = 10 - (t.retries + 1)
        BY <1>2, <3>1, <3>2
      <3>3. u = [t EXCEPT !.retries = t.retries + 1, !.priority = p]
        BY <2>1, <3>2
      <3>4. t \in [account : Accounts \cup {Global}, type : Types, retries : Nat, priority : 0 .. 10]
        BY <1>2 DEF Task
      <3>5. /\ u \in [account : Accounts \cup {Global}, type : Types, retries : Nat, priority : 0 .. 10]
            /\ u.account = t.account /\ u.type = t.type /\ u.retries = t.retries + 1 /\ u.priority = p
        BY <3>1, <3>p, <3>3, <3>4
      <3> QED
        BY <3>p, <3>5 DEF Task, IsFetch, a
    <2>3. PutIn(older + 1, u)
      <3>1. heap' = InsertAt(heap, older + 1, u)
        BY <1>7, <2>1 DEF Fails
      <3>2. older + 1 \in 1 .. Len(heap) + 1 /\ heap \in Seq(Task)
        BY <1>2 DEF Round, Queue
      <3> QED
        BY <2>2, <3>1, <3>2, PutsIn
    <2>4. Sound(u)'
      <3>1. u.retries <= FetchRetries
        BY <1>2, <1>5, <1>7, <2>2, RetriesAssumption
      <3> QED
        BY <1>1, <1>2, <1>3, <2>2, <3>1 DEF Sound, OpenFetch
    <2>5. PICK k : /\ k \in DOMAIN heap' /\ heap'[k] = u
                   /\ \A i \in DOMAIN heap' : i = k \/ \E j \in DOMAIN heap : heap'[i] = heap[j]
                   /\ \A j \in DOMAIN heap : \E i \in DOMAIN heap' : heap'[i] = heap[j]
                   /\ Single(heap')
      BY <1>2, <2>2, <2>3, Elements DEF Round, Queue
    <2>6. ASSUME NEW i \in DOMAIN heap' PROVE Sound(heap[i])'
      <3>1. CASE i = k
        BY <2>4, <2>5, <3>1
      <3>2. CASE i # k
        <4>1. PICK j \in DOMAIN heap : heap'[i] = heap[j]
          BY <2>5, <3>2
        <4>2. Sound(heap[j]) /\ (IsFetch(heap[j]) => heap[j].account # a)
          BY <1>2 DEF Round, Queue
        <4>3. PICK s : s = heap[j]
          OBVIOUS
        <4>4. Sound(s)'
          BY <1>4, <4>2, <4>3
        <4> QED
          BY <4>1, <4>3, <4>4
      <3> QED
        BY <3>1, <3>2
    <2>8. Queue'
      BY <1>1, <2>3, <2>5, <2>6 DEF Queue, MailFirst, Finished, PutIn
    <2>9. Steps'
      BY <1>1, <1>2 DEF Round, Steps, Finished
    <2>10. Queued(a)'
      BY <2>2, <2>5 DEF Queued
    <2>11. ASSUME NEW b, Queued(b) PROVE Queued(b)'
      BY <2>5, <2>11 DEF Queued
    <2>12. Served'
      BY <1>1, <1>2, <1>3, <2>10, <2>11 DEF Round, Served, Through, InHand, a
    <2> QED
      BY <2>8, <2>9, <2>12 DEF Round
  <1> QED
    BY <1>6, <1>7

(* The background tasks of the round follow the fetches. *)
LEMMA TasksFollow == ASSUME Round, EnqueueBackground PROVE Round'
  <1> DEFINE Low == {t \in Task : ~IsFetch(t) /\ t.priority <= 5}
             F == [i \in 1 .. Cardinality(Accounts) |-> Tasked(SetToSeq(Accounts)[i], "FetchBodies", 5)]
             G == <<Tasked(Global, "AnalyzeDiff", 3), Tasked(Global, "RefreshFingerprint", 2)>>
  <1>1. F \in Seq(Low)
    <2>1. ASSUME NEW a \in Accounts PROVE Tasked(a, "FetchBodies", 5) \in Low
      BY DEF Tasked, Task, Types, IsFetch
    <2>2. Cardinality(Accounts) \in Nat /\ \A i \in 1 .. Cardinality(Accounts) : F[i] \in Low
      BY <2>1, BoundsAssumption, InSequence
    <2> HIDE DEF Low
    <2> QED
      BY <2>2
  <1>2. G \in Seq(Low)
    <2>1. Tasked(Global, "AnalyzeDiff", 3) \in Low /\ Tasked(Global, "RefreshFingerprint", 2) \in Low
      BY DEF Tasked, Task, Types, IsFetch
    <2> HIDE DEF Low
    <2> QED
      BY <2>1
  <1>3. /\ heap' = heap \o F \o G /\ UNCHANGED <<cur, older, round>>
        /\ at = "idle" /\ at' = "drain" /\ waiting = {}
    BY DEF EnqueueBackground
  <1>4. Low \subseteq Task /\ \A t \in Low : Sound(t) /\ ~IsFetch(t)
    BY DEF Sound
  <1> HIDE DEF Low, F, G
  <1>5. PICK h : h = heap \o F
    OBVIOUS
  <1>6. /\ h \in Seq(Task) /\ Len(h) = Len(heap) + Len(F) /\ Len(heap) \in Nat /\ Len(F) \in Nat
        /\ \A i \in 1 .. Len(h) : h[i] = IF i <= Len(heap) THEN heap[i] ELSE F[i - Len(heap)]
    BY <1>1, <1>4, <1>5, SeqMonotonic, ConcatProperties DEF Round, Queue
  <1>7. /\ heap' \in Seq(Task) /\ Len(heap') = Len(h) + Len(G) /\ Len(G) \in Nat
        /\ \A i \in 1 .. Len(heap') : heap'[i] = IF i <= Len(h) THEN h[i] ELSE G[i - Len(h)]
    BY <1>2, <1>3, <1>4, <1>5, <1>6, SeqMonotonic, ConcatProperties
  <1>8. /\ DOMAIN heap = 1 .. Len(heap) /\ DOMAIN heap \subseteq DOMAIN heap'
        /\ \A i \in DOMAIN heap : heap'[i] = heap[i]
    BY <1>6, <1>7 DEF Round, Queue
  <1>9. ASSUME NEW i \in DOMAIN heap', i \notin DOMAIN heap PROVE heap'[i] \in Low
    <2>1. i \in 1 .. Len(heap') /\ ~(i <= Len(heap))
      BY <1>7, <1>8, <1>9
    <2>2. CASE i <= Len(h)
      <3>1. heap'[i] = F[i - Len(heap)] /\ i - Len(heap) \in 1 .. Len(F)
        BY <1>6, <1>7, <2>1, <2>2
      <3> QED
        BY <1>1, <3>1
    <2>3. CASE ~(i <= Len(h))
      <3>1. heap'[i] = G[i - Len(h)] /\ i - Len(h) \in 1 .. Len(G)
        BY <1>6, <1>7, <2>1, <2>3
      <3> QED
        BY <1>2, <3>1
    <2> QED
      BY <2>2, <2>3
  <1>10. \A t : Sound(t)' <=> Sound(t)
    BY <1>3 DEF Sound, OpenFetch, round
  <1>11. \A i \in DOMAIN heap' : Sound(heap'[i]) /\ (IsFetch(heap'[i]) => i \in DOMAIN heap)
    BY <1>4, <1>8, <1>9 DEF Round, Queue
  <1>12. Single(heap')
    BY <1>8, <1>11 DEF Round, Queue, Single
  <1>13. Queue'
    BY <1>3, <1>7, <1>8, <1>10, <1>11, <1>12 DEF Round, Queue, MailFirst
  <1>14. Steps'
    BY <1>3 DEF Round, Steps, round
  <1>15. \A a : Queued(a) => Queued(a)'
    BY <1>8 DEF Queued
  <1>16. Served'
    BY <1>3, <1>15 DEF Round, Served, Through, InHand, round
  <1> QED
    BY <1>13, <1>14, <1>16 DEF Round

(* dequeue has a task to take: one of the highest priority. *)
LEMMA BestFirst ==
    ASSUME Queue, heap # <<>>
    PROVE  Best \in DOMAIN heap /\ \A j \in DOMAIN heap : heap[j].priority <= heap[Best].priority
  <1>1. /\ DOMAIN heap = 1 .. Len(heap) /\ Len(heap) \in Nat \ {0}
        /\ \A i \in DOMAIN heap : heap[i].priority \in 0 .. 10
    BY DEF Queue, Sound, Task
  <1>2. PICK m \in DOMAIN heap : \A j \in DOMAIN heap : heap[j].priority <= heap[m].priority
    <2> DEFINE P == {10 - heap[i].priority : i \in DOMAIN heap}
    <2>1. P \subseteq Nat
      BY <1>1
    <2>2. 1 \in DOMAIN heap
      BY <1>1
    <2>3. P # {}
      BY <2>2
    <2>4. \E p \in P : \A q \in P : p <= q
      <3> HIDE DEF P
      <3> QED
        BY <2>1, <2>3, Smallest
    <2>5. PICK m \in DOMAIN heap : \A q \in P : 10 - heap[m].priority <= q
      BY <2>4
    <2>6. ASSUME NEW j \in DOMAIN heap PROVE heap[j].priority <= heap[m].priority
      <3>1. 10 - heap[m].priority <= 10 - heap[j].priority
        BY <2>5
      <3>2. heap[j].priority \in 0 .. 10 /\ heap[m].priority \in 0 .. 10
        BY <1>1
      <3> QED
        BY <3>1, <3>2
    <2> QED
      BY <2>6
  <1>3. PICK i \in DOMAIN heap : /\ heap[i].priority = heap[m].priority
                               /\ \A j \in DOMAIN heap : heap[j].priority = heap[m].priority => i <= j
    <2> DEFINE I == {i \in DOMAIN heap : heap[i].priority = heap[m].priority}
    <2>1. I \subseteq Nat /\ I # {}
      BY <1>1
    <2>2. \E i \in I : \A j \in I : i <= j
      <3> HIDE DEF I
      <3> QED
        BY <2>1, Smallest
    <2> QED
      BY <2>2
  <1> DEFINE Goes(k) == \A j \in DOMAIN heap : \/ heap[k].priority > heap[j].priority
                                               \/ heap[k].priority = heap[j].priority /\ k <= j
  <1>4. Goes(i)
    <2>1. ASSUME NEW j \in DOMAIN heap
          PROVE  \/ heap[i].priority > heap[j].priority
                 \/ heap[i].priority = heap[j].priority /\ i <= j
      <3>1. /\ heap[j].priority \in 0 .. 10 /\ heap[i].priority \in 0 .. 10
            /\ heap[j].priority <= heap[i].priority
        BY <1>1, <1>2, <1>3
      <3> QED
        BY <1>3, <3>1
    <2> QED
      BY <2>1
  <1>5. Best \in DOMAIN heap /\ Goes(Best)
    <2>1. Best = CHOOSE k \in DOMAIN heap : Goes(k)
      BY DEF Best
    <2>2. \E k \in DOMAIN heap : Goes(k)
      BY <1>4
    <2> HIDE DEF Goes
    <2> QED
      BY <2>1, <2>2
  <1>6. ASSUME NEW j \in DOMAIN heap PROVE heap[j].priority <= heap[Best].priority
    <2>1. heap[j].priority \in 0 .. 10 /\ heap[Best].priority \in 0 .. 10
      BY <1>1, <1>5
    <2>2. heap[Best].priority > heap[j].priority \/ heap[Best].priority = heap[j].priority
      BY <1>5
    <2> QED
      BY <2>1, <2>2
  <1> QED
    BY <1>5, <1>6

(* A task is taken out of the queue: of the fetches none stays behind. *)
LEMMA Taken == ASSUME Round, dequeue PROVE Round'
  <1>1. /\ at = "drain" /\ at' = "work" /\ heap # <<>> /\ cur' = {heap[Best]} /\ older' = Best - 1
        /\ heap' = RemoveAt(heap, Best) /\ UNCHANGED round
    BY DEF dequeue
  <1>2. PICK b : b = Best
    OBVIOUS
  <1>3. /\ b \in DOMAIN heap /\ DOMAIN heap = 1 .. Len(heap) /\ Len(heap) \in Nat
        /\ \A j \in DOMAIN heap : heap[j].priority <= heap[b].priority
    BY <1>1, <1>2, BestFirst DEF Round, Queue
  <1>4. /\ heap' \in Seq(Task) /\ Len(heap') = Len(heap) - 1
        /\ \A j \in 1 .. Len(heap) - 1 : heap'[j] = IF j < b THEN heap[j] ELSE heap[j + 1]
    BY <1>1, <1>2, <1>3, Removed DEF Round, Queue
  <1>5. DOMAIN heap' = 1 .. Len(heap) - 1
    BY <1>4
  <1>6. ASSUME NEW i \in DOMAIN heap'
        PROVE  \E j \in DOMAIN heap : /\ j # b /\ heap'[i] = heap[j]
                                     /\ (i < b => j = i) /\ (~(i < b) => j = i + 1)
    <2>1. CASE i < b
      BY <1>3, <1>4, <1>5, <2>1
    <2>2. CASE ~(i < b)
      <3>1. heap'[i] = heap[i + 1] /\ i + 1 \in DOMAIN heap /\ i + 1 # b
        BY <1>3, <1>4, <1>5, <2>2
      <3> QED
        BY <2>2, <3>1
    <2> QED
      BY <2>1, <2>2
  <1>7. ASSUME NEW j \in DOMAIN heap, j # b PROVE \E i \in DOMAIN heap' : heap'[i] = heap[j]
    <2>1. CASE j < b
      BY <1>3, <1>4, <1>5, <2>1
    <2>2. CASE ~(j < b)
      <3>1. j - 1 \in DOMAIN heap' /\ ~(j - 1 < b) /\ (j - 1) + 1 = j
        BY <1>3, <1>5, <1>7, <2>2
      <3>2. heap'[j - 1] = heap[(j - 1) + 1]
        BY <1>4, <1>5, <3>1
      <3> QED
        BY <3>1, <3>2
    <2> QED
      BY <2>1, <2>2
  <1>8. \A t : Sound(t)' <=> Sound(t)
    BY <1>1 DEF Sound, OpenFetch, round
  <1>9. \A i \in DOMAIN heap' : Sound(heap'[i])
    BY <1>6 DEF Round, Queue
  <1>10. Single(heap')
    <2>1. ASSUME NEW i \in DOMAIN heap', NEW j \in DOMAIN heap', IsFetch(heap'[i]), IsFetch(heap'[j]),
                 heap'[i].account = heap'[j].account
          PROVE  i = j
      <3>1. PICK m \in DOMAIN heap : heap'[i] = heap[m] /\ (i < b => m = i) /\ (~(i < b) => m = i + 1)
        BY <1>6
      <3>2. PICK n \in DOMAIN heap : heap'[j] = heap[n] /\ (j < b => n = j) /\ (~(j < b) => n = j + 1)
        BY <1>6
      <3>3. m = n
        BY <2>1, <3>1, <3>2 DEF Round, Queue, Single
      <3> QED
        BY <1>3, <1>5, <3>1, <3>2, <3>3
    <2> QED
      BY <2>1 DEF Single
  <1>11. \A i \in DOMAIN heap' : IsFetch(heap[b]) /\ IsFetch(heap'[i]) => heap'[i].account # heap[b].account
    BY <1>3, <1>6 DEF Round, Queue, Single
  <1>12. ASSUME ~IsFetch(heap[b]), NEW i \in DOMAIN heap' PROVE ~IsFetch(heap'[i])
    <2>1. PICK j \in DOMAIN heap : heap'[i] = heap[j]
      BY <1>6
    <2>2. heap[j].priority <= heap[b].priority
      BY <1>3
    <2>3. heap[b] \in Task /\ heap[b].priority <= 5
      BY <1>3, <1>12 DEF Round, Queue, Sound
    <2>4. /\ heap[j] \in Task
          /\ IsFetch(heap[j]) => heap[j].retries <= FetchRetries /\ heap[j].priority = 10 - heap[j].retries
      BY DEF Round, Queue, Sound, OpenFetch
    <2>5. heap[b].priority \in Nat /\ heap[j].priority \in Nat /\ heap[j].retries \in Nat
      BY <2>3, <2>4 DEF Task
    <2>6. IsFetch(heap[j]) => heap[j].priority >= 6
      BY <2>4, <2>5, RetriesAssumption
    <2> QED
      BY <2>1, <2>2, <2>3, <2>5, <2>6
  <1>13. MailFirst'
    BY <1>1, <1>2, <1>12 DEF MailFirst, IsFetch
  <1>14. Queue'
    BY <1>1, <1>2, <1>3, <1>4, <1>8, <1>9, <1>10, <1>11, <1>13 DEF Round, Queue
  <1>15. Steps'
    <2>1. older' \in 0 .. Len(heap')
      BY <1>1, <1>2, <1>3, <1>4
    <2> QED
      BY <1>1, <2>1 DEF Round, Steps, round
  <1>16. ASSUME NEW a, Queued(a) PROVE Queued(a)' \/ InHand(a)'
    BY <1>1, <1>2, <1>7, <1>16 DEF Queued, InHand
  <1>17. Served'
    <2>1. cur = {}
      BY <1>1 DEF Round, Steps
    <2> QED
      BY <1>1, <1>16, <2>1 DEF Round, Served, Through, InHand, round
  <1> QED
    BY <1>14, <1>15, <1>17 DEF Round

(* A background task in hand ends, or comes back into the queue. *)
LEMMA BackgroundEnds ==
    ASSUME Round, at = "work", NEW t \in cur, ~IsFetch(t), process_sync_task
    PROVE  Round'
  <1>1. /\ cur = {t} /\ t \in Task /\ t.priority \in 0 .. 5
        /\ older + 1 \in 1 .. Len(heap) + 1 /\ heap \in Seq(Task)
    <2>1. cur = {t} /\ Sound(t) /\ older \in 0 .. Len(heap) /\ heap \in Seq(Task)
      BY DEF Round, Steps, Queue
    <2>2. t \in Task /\ t.priority <= 5
      BY <2>1 DEF Sound
    <2>3. t.priority \in 0 .. 10
      BY <2>2 DEF Task
    <2> QED
      BY <2>1, <2>2, <2>3
  <1>2. ASSUME NEW u \in Task, ~IsFetch(u), u.priority <= 5, Finished, UNCHANGED round,
               \/ heap' = Append(heap, u)
               \/ heap' = InsertAt(heap, older + 1, u)
               \/ heap' = heap
        PROVE  Round'
    <2>1. CASE heap' = heap
      BY <1>1, <1>2, <2>1, TaskDone
    <2>2. CASE heap' = Append(heap, u) \/ heap' = InsertAt(heap, older + 1, u)
      <3>1. PICK k : PutIn(k, u)
        BY <1>1, <2>2, PutsIn
      <3> QED
        BY <1>1, <1>2, <3>1, Background
    <2> QED
      BY <1>2, <2>1, <2>2
  <1>3. CASE FetchNew(t)
    BY <1>3 DEF FetchNew, IsFetch
  <1>4. CASE Simple(t)
    BY <1>1, <1>4, TaskDone DEF Simple
  <1>5. CASE AnalyzeDiff(t)
    <2>1. PICK u : u = [t EXCEPT !.retries = 1, !.priority = 3]
      OBVIOUS
    <2>2. u \in Task /\ ~IsFetch(u) /\ u.priority = 3
      <3>1. t \in [account : Accounts \cup {Global}, type : Types, retries : Nat, priority : 0 .. 10]
        BY <1>1 DEF Task
      <3>2. /\ u \in [account : Accounts \cup {Global}, type : Types, retries : Nat, priority : 0 .. 10]
            /\ u.type = t.type /\ u.priority = 3
        <4>1. PICK r, p : r = 1 /\ p = 3
          OBVIOUS
        <4>2. r \in Nat /\ p \in 0 .. 10 /\ u = [t EXCEPT !.retries = r, !.priority = p]
          BY <2>1, <4>1
        <4>3. /\ u \in [account : Accounts \cup {Global}, type : Types, retries : Nat, priority : 0 .. 10]
              /\ u.type = t.type /\ u.priority = p
          BY <3>1, <4>2
        <4> QED
          BY <4>1, <4>3
      <3> QED
        BY <3>2 DEF Task, IsFetch
    <2>3. (heap' = Append(heap, u) \/ heap' = heap) /\ Finished /\ UNCHANGED round
      BY <1>5, <2>1 DEF AnalyzeDiff
    <2> QED
      BY <1>2, <2>2, <2>3
  <1>6. CASE BackfillEmails(t)
    <2>1. PICK u : u = Tasked(t.account, "BackfillEmails", 3)
      OBVIOUS
    <2>2. u \in Task /\ ~IsFetch(u) /\ u.priority = 3
      BY <1>1, <2>1 DEF Task, IsFetch, Tasked, Types
    <2>3. (heap' = Append(heap, u) \/ heap' = heap) /\ Finished /\ UNCHANGED round
      BY <1>6, <2>1 DEF BackfillEmails
    <2> QED
      BY <1>2, <2>2, <2>3
  <1>7. CASE Fails(t)
    <2>1. PICK u : u = [t EXCEPT !.retries = @ + 1, !.priority = IF @ = 0 THEN 0 ELSE @ - 1]
      OBVIOUS
    <2>2. u \in Task /\ ~IsFetch(u) /\ u.priority <= 5
      <3>1. PICK p : p = IF t.priority = 0 THEN 0 ELSE t.priority - 1
        OBVIOUS
      <3>2. p \in 0 .. 10 /\ p <= 5
        BY <1>1, <3>1
      <3>3. t \in [account : Accounts \cup {Global}, type : Types, retries : Nat, priority : 0 .. 10]
        BY <1>1 DEF Task
      <3>4. u = [t EXCEPT !.retries = t.retries + 1, !.priority = p] /\ t.retries + 1 \in Nat
        BY <2>1, <3>1, <3>3
      <3>5. /\ u \in [account : Accounts \cup {Global}, type : Types, retries : Nat, priority : 0 .. 10]
            /\ u.type = t.type /\ u.priority = p
        BY <3>2, <3>3, <3>4
      <3> QED
        BY <3>2, <3>5 DEF Task, IsFetch
    <2>3. (heap' = InsertAt(heap, older + 1, u) \/ heap' = heap) /\ Finished /\ UNCHANGED round
      BY <1>7, <2>1 DEF Fails, IsFetch, round
    <2> QED
      BY <1>2, <2>2, <2>3
  <1> QED
    BY <1>1, <1>3, <1>4, <1>5, <1>6, <1>7 DEF process_sync_task

(* The invariant of round and queue holds for good. *)
LEMMA RoundStays == ASSUME Round, [Next]_vars PROVE Round'
  <1>1. ASSUME NEW u \in Task, ~IsFetch(u), u.priority <= 5, heap' = Append(heap, u),
               UNCHANGED <<at, cur, older, round>>
        PROVE  Round'
    <2>1. PutIn(Len(heap) + 1, u)
      BY <1>1, PutsIn DEF Round, Queue
    <2> QED
      BY <1>1, <2>1, Background
  <1>2. CASE UNCHANGED <<heap, at, cur, older, round>>
    BY <1>2 DEF Round, Queue, Sound, OpenFetch, Single, MailFirst, Steps, Served, Through, Queued,
       InHand, round
  <1>3. CASE Api
    <2>1. ASSUME NEW a \in Accounts, update_account(a) PROVE Round'
      <3>1. Tasked(a, "BackfillEmails", 3) \in Task /\ ~IsFetch(Tasked(a, "BackfillEmails", 3))
            /\ Tasked(a, "BackfillEmails", 3).priority <= 5
        BY DEF Tasked, Task, Types, IsFetch
      <3> QED
        BY <1>1, <2>1, <3>1 DEF update_account
    <2>2. ASSUME NEW a \in Accounts, trigger_folder_summaries(a) PROVE Round'
      <3>1. Tasked(a, "GenerateAiSummary", 5) \in Task /\ ~IsFetch(Tasked(a, "GenerateAiSummary", 5))
            /\ Tasked(a, "GenerateAiSummary", 5).priority <= 5
        BY DEF Tasked, Task, Types, IsFetch
      <3> QED
        BY <1>1, <2>2, <3>1 DEF trigger_folder_summaries
    <2>3. CASE queue_diff \/ ModelChanges \/ \E kind \in {"delete", "delete_mid"} : enqueue_delete(kind)
      BY <1>2, <2>3 DEF queue_diff, ModelChanges, enqueue_delete
    <2> QED
      BY <1>3, <2>1, <2>2, <2>3 DEF Api
  <1>4. CASE \E a \in Accounts : idle_wait(a)
    BY <1>4, WaitOver
  <1>5. CASE EnqueueBackground \/ dequeue
    BY <1>5, TasksFollow, Taken
  <1>6. CASE process_sync_task
    <2>1. at = "work"
      BY <1>6 DEF process_sync_task
    <2>2. PICK t \in cur :
             cur = {t} /\ (FetchNew(t) \/ Simple(t) \/ AnalyzeDiff(t) \/ BackfillEmails(t) \/ Fails(t))
      BY <1>6, <2>1 DEF process_sync_task, Round, Steps
    <2>3. CASE ~IsFetch(t)
      BY <1>6, <2>1, <2>3, BackgroundEnds
    <2>4. CASE IsFetch(t)
      <3>1. FetchNew(t) \/ Fails(t)
        BY <2>2, <2>4 DEF Simple, AnalyzeDiff, BackfillEmails, IsFetch
      <3> QED
        BY <2>1, <2>4, <3>1, Fetched, FetchFails
    <2> QED
      BY <2>3, <2>4
  <1>7. CASE Drained \/ RunJobs \/ MarkDeleted \/ NoOps \/ mark_done \/ expunge_vormerken
             \/ FlushDue \/ expunge_folder \/ expunge_erledigt
    BY <1>7, NoTask
       DEF Drained, RunJobs, MarkDeleted, NoOps, mark_done, expunge_vormerken, FlushDue,
           expunge_folder, expunge_erledigt
  <1>8. CASE Sleep
    <2>1. cur = {} /\ older = 0
      BY <1>8 DEF Sleep, Round, Steps
    <2> QED
      BY <1>8, <2>1, FromTheStart DEF Sleep
  <1>9. CASE Restart
    BY <1>9, FromTheStart DEF Restart
  <1>10. CASE UNCHANGED vars
    BY <1>2, <1>10 DEF vars
  <1> QED
    BY <1>3, <1>4, <1>5, <1>6, <1>7, <1>8, <1>9, <1>10 DEF Next, Loop

(* What is left of the bound. *)
LEMMA Spent == ASSUME Counts, Event PROVE events' \in 0 .. MaxEvents /\ events' = events + 1 /\ events \in Nat
  BY BoundsAssumption DEF Counts, Event

(* The times since the jobs ran stay within their periods. *)
LEMMA AgesStay == ASSUME Ages, [Next]_vars PROVE Ages'
  <1> USE DEF jobs
  <1>1. ASSUME NEW some, Run(some) PROVE Ages'
    <2>1. never' \subseteq never /\ \A j \in Jobs : age'[j] = age[j] \/ age'[j] = 0
      BY <1>1 DEF Run
    <2>2. \A j \in Jobs : Every[j] \in Nat \ {0}
      BY JobsAssumption
    <2>3. ASSUME NEW j \in Jobs PROVE age'[j] \in 0 .. Every[j]
      BY <2>1, <2>2 DEF Ages
    <2> QED
      BY <2>1, <2>3 DEF Ages
  <1>2. CASE Sleep
    <2>1. ASSUME NEW j \in Jobs PROVE age'[j] \in 0 .. Every[j]
      <3>1. Every[j] \in Nat \ {0} /\ age[j] \in 0 .. Every[j]
        BY JobsAssumption DEF Ages
      <3>2. age'[j] = IF j \in never THEN 0 ELSE IF age[j] + 1 < Every[j] THEN age[j] + 1 ELSE Every[j]
        BY <1>2 DEF Sleep, Least
      <3> QED
        BY <3>1, <3>2
    <2> QED
      BY <1>2, <2>1 DEF Sleep, Ages
  <1>3. CASE Restart
    <2>1. \A j \in Jobs : Every[j] \in Nat \ {0}
      BY JobsAssumption
    <2> QED
      BY <1>3, <2>1 DEF Restart, Ages
  <1>4. CASE RunJobs \/ FlushDue
    BY <1>1, <1>4 DEF RunJobs, FlushDue
  <1>5. ASSUME UNCHANGED jobs PROVE Ages'
    BY <1>5 DEF Ages
  <1>6. CASE Api
    BY <1>5, <1>6 DEF Api, queue_diff, ModelChanges, enqueue_delete, update_account, trigger_folder_summaries
  <1>7. CASE \E a \in Accounts : idle_wait(a)
    BY <1>5, <1>7 DEF idle_wait
  <1>8. CASE process_sync_task
    BY <1>5, <1>8 DEF process_sync_task, FetchNew, Simple, AnalyzeDiff, BackfillEmails, Fails
  <1>9. CASE EnqueueBackground \/ dequeue \/ Drained
    BY <1>5, <1>9 DEF EnqueueBackground, dequeue, Drained
  <1>10. CASE MarkDeleted \/ NoOps \/ mark_done \/ expunge_vormerken \/ expunge_folder \/ expunge_erledigt
    BY <1>5, <1>10 DEF MarkDeleted, NoOps, mark_done, expunge_vormerken, expunge_folder, expunge_erledigt
  <1>11. CASE UNCHANGED vars
    BY <1>5, <1>11 DEF vars
  <1> QED
    BY <1>2, <1>3, <1>4, <1>6, <1>7, <1>8, <1>9, <1>10, <1>11 DEF Next, Loop

(* So do what users and failures did, the drafts and the mails without a   *)
(* file.                                                                   *)
LEMMA CountsStay == ASSUME Counts, [Next]_vars PROVE Counts'
  <1> USE DEF work
  <1>1. ASSUME UNCHANGED work, UNCHANGED events \/ Event PROVE Counts'
    BY <1>1, Spent DEF Counts
  <1>2. CASE Api
    <2>1. CASE queue_diff
      BY <2>1, Spent DEF Counts, queue_diff
    <2> QED
      BY <1>1, <1>2, <2>1 DEF Api, ModelChanges, enqueue_delete, update_account, trigger_folder_summaries
  <1>3. CASE \E a \in Accounts : idle_wait(a)
    BY <1>1, <1>3 DEF idle_wait
  <1>4. CASE process_sync_task
    <2>1. PICK t \in cur : FetchNew(t) \/ Simple(t) \/ AnalyzeDiff(t) \/ BackfillEmails(t) \/ Fails(t)
      BY <1>4 DEF process_sync_task
    <2>2. CASE FetchNew(t)
      <3>1. CASE UNCHANGED <<raw, events>>
        BY <1>1, <2>2, <3>1 DEF FetchNew
      <3>2. CASE Event /\ raw' = [raw EXCEPT ![t.account] = MaxRaw]
        <4>1. raw' \in [Accounts -> 0 .. MaxRaw]
          <5>1. MaxRaw \in 0 .. MaxRaw
            BY BoundsAssumption
          <5> QED
            BY <3>2, <5>1 DEF Counts
        <4>2. diffs' = diffs /\ events' \in 0 .. MaxEvents /\ events' = events + 1 /\ events \in Nat
          BY <2>2, <3>2, Spent DEF FetchNew
        <4>3. diffs' \in 0 .. events'
          BY <4>2 DEF Counts
        <4> QED
          BY <4>1, <4>2, <4>3 DEF Counts
      <3> QED
        BY <2>2, <3>1, <3>2 DEF FetchNew
    <2>3. CASE Simple(t) \/ Fails(t)
      BY <1>1, <2>3 DEF Simple, Fails
    <2>4. CASE AnalyzeDiff(t)
      <3>1. PICK most : most = IF llm THEN Least(diffs, DiffBatch) ELSE 0
        OBVIOUS
      <3>2. /\ \/ diffs' = diffs - most /\ UNCHANGED events
               \/ most > 0 /\ Event /\ diffs' = diffs - (most - 1)
            /\ UNCHANGED raw
        BY <2>4, <3>1 DEF AnalyzeDiff
      <3>3. most \in 0 .. diffs /\ diffs \in Nat
        BY <3>1, BatchAssumption DEF Least, Counts
      <3>4. events' \in 0 .. MaxEvents /\ events' >= events /\ events \in Nat
        BY <3>2, Spent DEF Counts
      <3>5. diffs' \in 0 .. diffs
        BY <3>2, <3>3
      <3> QED
        BY <3>2, <3>3, <3>4, <3>5 DEF Counts
    <2>5. CASE BackfillEmails(t)
      <3>1. PICK a, most : a = t.account /\ most = Least(raw[a], MailBatch)
        OBVIOUS
      <3>2. /\ \/ raw' = [raw EXCEPT ![a] = @ - most] /\ UNCHANGED events
               \/ most > 0 /\ Event /\ raw' = [raw EXCEPT ![a] = @ - (most - 1)]
            /\ UNCHANGED diffs
        BY <2>5, <3>1 DEF BackfillEmails
      <3>3. events' \in 0 .. MaxEvents /\ events' >= events /\ events \in Nat
        BY <3>2, Spent DEF Counts
      <3>4. CASE a \in Accounts
        <4>1. raw[a] \in 0 .. MaxRaw /\ MaxRaw \in Nat
          BY <3>4, BoundsAssumption DEF Counts
        <4>2. most \in 0 .. raw[a]
          BY <3>1, <4>1, BatchAssumption DEF Least
        <4>3. PICK n : n \in 0 .. MaxRaw /\ raw' = [raw EXCEPT ![a] = n]
          <5>1. raw[a] - most \in 0 .. MaxRaw /\ (most > 0 => raw[a] - (most - 1) \in 0 .. MaxRaw)
            BY <4>1, <4>2
          <5> QED
            BY <3>2, <5>1
        <4> QED
          <5>1. raw' \in [Accounts -> 0 .. MaxRaw]
            BY <4>3 DEF Counts
          <5>2. diffs' \in 0 .. events'
            BY <3>2, <3>3 DEF Counts
          <5> QED
            BY <3>3, <5>1, <5>2 DEF Counts
      <3>5. CASE a \notin Accounts
        <4>1. raw' = raw
          BY <3>2, <3>5 DEF Counts
        <4> QED
          BY <1>1, <3>2, <4>1
      <3> QED
        BY <3>4, <3>5
    <2> QED
      BY <2>1, <2>2, <2>3, <2>4, <2>5
  <1>5. CASE EnqueueBackground \/ dequeue \/ Drained \/ RunJobs \/ FlushDue
    BY <1>1, <1>5 DEF EnqueueBackground, dequeue, Drained, RunJobs, FlushDue
  <1>6. CASE MarkDeleted \/ NoOps \/ mark_done \/ expunge_vormerken \/ expunge_folder \/ expunge_erledigt
    BY <1>1, <1>6 DEF MarkDeleted, NoOps, mark_done, expunge_vormerken, expunge_folder, expunge_erledigt
  <1>7. CASE Sleep \/ Restart
    BY <1>1, <1>7 DEF Sleep, Restart
  <1>8. CASE UNCHANGED vars
    BY <1>1, <1>8 DEF vars
  <1> QED
    BY <1>2, <1>3, <1>4, <1>5, <1>6, <1>7, <1>8 DEF Next, Loop

(* And the kinds of op and what is true or false. *)
LEMMA FlagsStay == ASSUME Flags, [Next]_vars PROVE Flags'
  <1> USE DEF expunge
  <1>1. ASSUME UNCHANGED <<llm, expunge>> PROVE Flags'
    BY <1>1 DEF Flags
  <1>2. CASE Api
    BY <1>2, <1>1, Zenon
       DEF Flags, Api, queue_diff, ModelChanges, enqueue_delete, update_account, trigger_folder_summaries
  <1>3. CASE \E a \in Accounts : idle_wait(a)
    BY <1>1, <1>3 DEF idle_wait
  <1>4. CASE process_sync_task
    BY <1>1, <1>4 DEF process_sync_task, FetchNew, Simple, AnalyzeDiff, BackfillEmails, Fails
  <1>5. CASE EnqueueBackground \/ dequeue \/ Drained \/ RunJobs \/ NoOps \/ Sleep
    BY <1>1, <1>5 DEF EnqueueBackground, dequeue, Drained, RunJobs, NoOps, Sleep
  <1>6. CASE MarkDeleted \/ mark_done \/ expunge_vormerken
    BY <1>6 DEF Flags, MarkDeleted, mark_done, expunge_vormerken, InTable
  <1>7. CASE FlushDue \/ expunge_folder \/ expunge_erledigt
    BY <1>7 DEF Flags, FlushDue, expunge_folder, expunge_erledigt
  <1>8. CASE Restart
    BY <1>8 DEF Flags, Restart
  <1>9. CASE UNCHANGED vars
    BY <1>1, <1>9 DEF vars
  <1> QED
    BY <1>2, <1>3, <1>4, <1>5, <1>6, <1>7, <1>8, <1>9 DEF Next, Loop

-----------------------------------------------------------------------------
(* Invariant: the queue holds one fetch at most for each account, with the *)
(* number of failures in its priority; accounts not waited for have one or *)
(* are through with it.                                                    *)
THEOREM Invariant == Spec => [](Round /\ Others)
  <1>1. Init => Round /\ Others
    <2>1. Init => Round
      BY RetriesAssumption
         DEF Init, Round, Queue, Single, MailFirst, Steps, Served
    <2>2. Init => Others
      <3>1. \A j \in Jobs : Every[j] \in Nat \ {0}
        BY JobsAssumption
      <3>2. Init => Ages
        BY <3>1 DEF Init, Ages
      <3>3. Init => Counts
        BY BoundsAssumption DEF Init, Counts
      <3>4. Init => Flags
        BY DEF Init, Flags
      <3> QED
        BY <3>2, <3>3, <3>4 DEF Others
    <2> QED
      BY <2>1, <2>2
  <1>2. Round /\ Others /\ [Next]_vars => (Round /\ Others)'
    BY RoundStays, AgesStay, CountsStay, FlagsStay DEF Others
  <1> QED
    BY <1>1, <1>2, PTL DEF Spec

(* Types and bounds (TypeOK); no fetch fails more often than it is tried.  *)
THEOREM TypeCorrect == Spec => []TypeOK
  <1>1. Round /\ Others => TypeOK
    <2> SUFFICES ASSUME Round, Others PROVE TypeOK
      OBVIOUS
    <2>1. heap \in Seq(Task) /\ cur \subseteq Task /\ older \in Nat
      BY DEF Round, Queue, Steps, Sound
    <2>2. diffs \in 0 .. MaxEvents
      BY BoundsAssumption DEF Others, Counts
    <2> QED
      BY <2>1, <2>2 DEF Round, Steps, Served, Others, Ages, Counts, Flags, TypeOK
  <1> QED
    BY <1>1, Invariant, PTL

(* A round leaves no account out (NoAccountLeftOut): when the tasks are    *)
(* done each account was fetched, or could not be reached, or its fetch    *)
(* failed as often as it may (do_sync_cycle, SyncQueue::requeue).          *)
THEOREM NobodyLeftOut == Spec => []NoAccountLeftOut
  <1>1. Round => NoAccountLeftOut
    <2> SUFFICES ASSUME Round, at = "jobs", NEW a \in Accounts PROVE Through(a)
      BY DEF NoAccountLeftOut, Through
    <2>1. waiting = {} /\ cur = {} /\ \A i \in DOMAIN heap : ~IsFetch(heap[i])
      BY DEF Round, Steps
    <2> QED
      BY <2>1 DEF Round, Served, Queued, InHand
  <1> QED
    BY <1>1, Invariant, PTL

(* New mail comes first (MailFirst): no background task is begun while a   *)
(* fetch, the first or a repeated one, waits in the queue.                 *)
THEOREM FetchFirst == Spec => []MailFirst
  <1>1. Round => MailFirst
    BY DEF Round, Queue
  <1> QED
    BY <1>1, Invariant, PTL
=============================================================================
