--------------------------- MODULE TransferProofs ---------------------------
(***************************************************************************)
(* What sending, import and migration keep true: the inductive invariant   *)
(* of each holds at first and every step keeps it, for any mails, runs,    *)
(* folders and bounds.                                                     *)
(***************************************************************************)
EXTENDS Transfer, FiniteSetTheorems, SequenceTheorems, TLAPS

-----------------------------------------------------------------------------
(***************************************************************************)
(* Mails on their way out (routes/+page.svelte, api/send.rs).              *)
(***************************************************************************)
(* What the proofs need of the types. *)
OutgoingSent == {"learn", "row", "file", "append", "saved", "unsaved"}
OutgoingSteps == {"none", "smtp", "error"} \cup OutgoingSent
OutgoingRecords == /\ outbox \in Seq(Messages) /\ list \in [Runs -> Seq(Messages)]
                   /\ request \in [Ou!Callers -> [mail : Messages \cup {Absent}, step : OutgoingSteps]]
                   /\ delivered \in [Messages -> Nat] /\ disturbed \in BOOLEAN
                   /\ answer \in [Messages -> {"none", "saved", "unsaved"}]

(* A run is at the first mail of its list, and what the server does after  *)
(* SMTP it does for a mail the provider took.                              *)
OutgoingRequests ==
    /\ \A c \in Ou!Callers : /\ request[c].mail = Absent <=> request[c].step = "none"
                             /\ request[c].step \in OutgoingSent => delivered[request[c].mail] > 0
    /\ \A r \in Runs : request[r].mail # Absent => list[r] # <<>> /\ request[r].mail = Head(list[r])

(* Undisturbed, one run works at a time, through mails of the outbox; each *)
(* mail is in one place only, and what the provider took is in the outbox  *)
(* no longer than until its answer comes.                                  *)
OutgoingOneRun == \A r, o \in Runs : list[r] # <<>> /\ list[o] # <<>> => r = o
OutgoingFromOutbox == /\ Ou!IsInjective(outbox) /\ request["page"].mail \notin Ou!Range(outbox)
                      /\ \A m \in Ou!Range(outbox) : answer[m] = "none"
                      /\ \A r \in Runs : Ou!IsInjective(list[r]) /\ Ou!Range(list[r]) \subseteq Ou!Range(outbox)
OutgoingInOnePlace == \A c, d \in Ou!Callers : request[c].mail = request[d].mail /\ request[c].mail # Absent => c = d
OutgoingTakenOnce ==
    /\ \A m \in Messages : /\ delivered[m] <= 1
                        /\ \/ delivered[m] = 0 \/ answer[m] # "none"
                           \/ \E c \in Ou!Callers : request[c].mail = m /\ request[c].step \in OutgoingSent
    /\ \A c \in Ou!Callers : /\ request[c].mail # Absent => answer[request[c].mail] = "none"
                             /\ request[c].step \in {"smtp", "error"} => delivered[request[c].mail] = 0
OutgoingUndisturbed == ~disturbed => OutgoingOneRun /\ OutgoingFromOutbox /\ OutgoingInOnePlace /\ OutgoingTakenOnce

-----------------------------------------------------------------------------
LEMMA OutgoingRange == ASSUME NEW S, NEW s \in Seq(S) PROVE Ou!Range(s) \subseteq S
  BY DEF Ou!Range

(* The outbox with a mail more. *)
LEMMA OutgoingAppended ==
    ASSUME NEW S, NEW s \in Seq(S), NEW x \in S
    PROVE  /\ Append(s, x) \in Seq(S) /\ Ou!Range(Append(s, x)) = Ou!Range(s) \cup {x}
           /\ Ou!IsInjective(s) /\ x \notin Ou!Range(s) => Ou!IsInjective(Append(s, x))
  <1>1. /\ Append(s, x) \in Seq(S) /\ DOMAIN Append(s, x) = 1 .. Len(s) + 1
        /\ Append(s, x)[Len(s) + 1] = x /\ DOMAIN s = 1 .. Len(s)
        /\ \A i \in 1 .. Len(s) : Append(s, x)[i] = s[i]
        /\ Len(s) \in Nat
    BY AppendProperties
  <1> QED
    BY <1>1 DEF Ou!Range, Ou!IsInjective

(* The outbox without one of its mails: only that one has left it. *)
LEMMA OutgoingRemoved ==
    ASSUME NEW S, NEW s \in Seq(S), NEW i \in DOMAIN s
    PROVE  /\ Ou!RemoveAt(s, i) \in Seq(S)
           /\ Ou!Range(s) \ {s[i]} \subseteq Ou!Range(Ou!RemoveAt(s, i))
           /\ Ou!Range(Ou!RemoveAt(s, i)) \subseteq Ou!Range(s)
           /\ Ou!IsInjective(s) => Ou!IsInjective(Ou!RemoveAt(s, i)) /\ s[i] \notin Ou!Range(Ou!RemoveAt(s, i))
  <1> DEFINE n == Len(s)
  <1> DEFINE r == Ou!RemoveAt(s, i)
  <1>1. n \in Nat /\ DOMAIN s = 1 .. n /\ i \in 1 .. n
    BY LenProperties
  <1>2. /\ SubSeq(s, 1, i - 1) \in Seq(S) /\ Len(SubSeq(s, 1, i - 1)) = i - 1
        /\ \A j \in 1 .. i - 1 : SubSeq(s, 1, i - 1)[j] = s[j]
    BY <1>1, SMT
  <1>3. /\ SubSeq(s, i + 1, n) \in Seq(S) /\ Len(SubSeq(s, i + 1, n)) = n - i
        /\ \A j \in 1 .. n - i : SubSeq(s, i + 1, n)[j] = s[i + j]
    BY <1>1, SMT
  <1>4. r = SubSeq(s, 1, i - 1) \o SubSeq(s, i + 1, n)
    BY DEF Ou!RemoveAt
  <1>5. /\ r \in Seq(S) /\ DOMAIN r = 1 .. n - 1
        /\ \A j \in 1 .. n - 1 : r[j] = IF j < i THEN s[j] ELSE s[j + 1]
    <2> DEFINE before == SubSeq(s, 1, i - 1)
    <2> DEFINE after == SubSeq(s, i + 1, n)
    <2>1. /\ r \in Seq(S) /\ Len(r) = n - 1
          /\ \A j \in 1 .. n - 1 : r[j] = IF j <= i - 1 THEN before[j] ELSE after[j - (i - 1)]
      <3>1. /\ r \in Seq(S) /\ Len(r) = Len(before) + Len(after)
            /\ \A j \in 1 .. Len(before) + Len(after) :
                  r[j] = IF j <= Len(before) THEN before[j] ELSE after[j - Len(before)]
        BY <1>2, <1>3, <1>4, ConcatProperties
      <3>2. Len(before) = i - 1 /\ Len(before) + Len(after) = n - 1
        BY <1>1, <1>2, <1>3
      <3> QED
        BY <3>1, <3>2
    <2>2. ASSUME NEW j \in 1 .. n - 1 PROVE r[j] = IF j < i THEN s[j] ELSE s[j + 1]
      <3>1. /\ r[j] = IF j <= i - 1 THEN before[j] ELSE after[j - (i - 1)]
            /\ j \in 1 .. i - 1 => before[j] = s[j]
            /\ j - (i - 1) \in 1 .. n - i => after[j - (i - 1)] = s[i + (j - (i - 1))]
        BY <2>1, <1>2, <1>3
      <3> HIDE DEF n, r, before, after
      <3>2. i \in Nat /\ n \in Nat /\ j \in Nat /\ i + (j - (i - 1)) = j + 1
        BY <1>1
      <3>3. CASE j < i
        BY <3>1, <3>2, <3>3
      <3>4. CASE ~(j < i)
        BY <3>1, <3>2, <3>4
      <3> QED
        BY <3>3, <3>4
    <2>3. DOMAIN r = 1 .. n - 1
      <3> HIDE DEF n, r
      <3> QED
        BY <2>1, <1>1, LenProperties
    <2> QED
      BY <2>1, <2>2, <2>3
  <1> HIDE DEF n, r
  <1>6. Ou!Range(s) \ {s[i]} \subseteq Ou!Range(r)
    <2>1. ASSUME NEW j \in 1 .. n, s[j] # s[i] PROVE \E k \in 1 .. n - 1 : r[k] = s[j]
      <3>1. CASE j < i
        BY <3>1, <1>1, <1>5
      <3>2. CASE j > i
        <4>1. j - 1 \in 1 .. n - 1 /\ r[j - 1] = s[j]
          BY <3>2, <1>1, <1>5
        <4> QED
          BY <4>1
      <3> QED
        BY <2>1, <3>1, <3>2, <1>1
    <2>2. \A x \in Ou!Range(s) : \E j \in 1 .. n : x = s[j]
      BY <1>1 DEF Ou!Range
    <2>3. \A k \in 1 .. n - 1 : r[k] \in Ou!Range(r)
      BY <1>5 DEF Ou!Range
    <2> QED
      BY <2>1, <2>2, <2>3
  <1>7. ASSUME NEW j \in 1 .. n - 1 PROVE \E k \in 1 .. n : r[j] = s[k] /\ k # i
    <2>1. CASE j < i
      BY <2>1, <1>1, <1>5
    <2>2. CASE ~(j < i)
      <3>1. r[j] = s[j + 1] /\ j + 1 \in 1 .. n /\ j + 1 # i
        BY <2>2, <1>1, <1>5
      <3> QED
        BY <3>1
    <2> QED
      BY <2>1, <2>2
  <1>8. Ou!Range(r) \subseteq Ou!Range(s)
    <2>1. \A x \in Ou!Range(r) : \E j \in 1 .. n - 1 : x = r[j]
      BY <1>5 DEF Ou!Range
    <2>2. \A k \in 1 .. n : s[k] \in Ou!Range(s)
      BY <1>1 DEF Ou!Range
    <2> QED
      BY <2>1, <2>2, <1>7
  <1>9. ASSUME Ou!IsInjective(s) PROVE Ou!IsInjective(r) /\ s[i] \notin Ou!Range(r)
    <2>1. \A j \in 1 .. n - 1 : r[j] # s[i]
      <3>1. \A k \in 1 .. n : s[k] = s[i] => k = i
        BY <1>9, <1>1 DEF Ou!IsInjective
      <3> QED
        BY <3>1, <1>7
    <2>2. ASSUME NEW j \in 1 .. n - 1, NEW k \in 1 .. n - 1, r[j] = r[k] PROVE j = k
      <3>1. PICK p \in 1 .. n : r[j] = s[p] /\ p = IF j < i THEN j ELSE j + 1
        BY <1>1, <1>5
      <3>2. PICK q \in 1 .. n : r[k] = s[q] /\ q = IF k < i THEN k ELSE k + 1
        BY <1>1, <1>5
      <3>3. p = q
        BY <1>9, <1>1, <2>2, <3>1, <3>2 DEF Ou!IsInjective
      <3> QED
        BY <1>1, <3>1, <3>2, <3>3
    <2> QED
      BY <2>1, <2>2, <1>5 DEF Ou!IsInjective, Ou!Range
  <1> QED
    BY <1>5, <1>6, <1>8, <1>9 DEF r

(* What a run has left once it is done with the first. *)
LEMMA OutgoingRest ==
    ASSUME NEW S, NEW s \in Seq(S), s # <<>>
    PROVE  /\ Head(s) \in Ou!Range(s) /\ Head(s) \in S
           /\ Tail(s) \in Seq(S) /\ Ou!Range(Tail(s)) \subseteq Ou!Range(s)
           /\ Ou!IsInjective(s) => Ou!IsInjective(Tail(s)) /\ Head(s) \notin Ou!Range(Tail(s))
  <1>1. /\ Tail(s) \in Seq(S) /\ Len(s) \in Nat \ {0} /\ DOMAIN s = 1 .. Len(s) /\ Head(s) = s[1]
        /\ DOMAIN Tail(s) = 1 .. Len(s) - 1
        /\ \A i \in 1 .. Len(s) - 1 : Tail(s)[i] = s[i + 1]
    BY HeadTailProperties, LenProperties, EmptySeq
  <1>2. s[1] \in S /\ 1 \in DOMAIN s
    BY <1>1, ElementOfSeq
  <1> QED
    BY <1>1, <1>2 DEF Ou!Range, Ou!IsInjective

-----------------------------------------------------------------------------
(* A request that goes on. *)
LEMMA OutgoingGoing ==
    ASSUME OutgoingRecords, NEW c \in Ou!Callers, NEW s \in OutgoingSteps, Ou!Goes(c, s)
    PROVE  /\ request' \in [Ou!Callers -> [mail : Messages \cup {Absent}, step : OutgoingSteps]]
           /\ \A d \in Ou!Callers : /\ request'[d].mail = request[d].mail
                                    /\ request'[d].step = IF d = c THEN s ELSE request[d].step
  <1>1. request \in [Ou!Callers -> [mail : Messages \cup {Absent}, step : OutgoingSteps]]
    BY DEF OutgoingRecords
  <1>2. request' = [request EXCEPT ![c] = [request[c] EXCEPT !.step = s]]
    BY <1>1 DEF Ou!Goes
  <1>3. /\ [request[c] EXCEPT !.step = s] \in [mail : Messages \cup {Absent}, step : OutgoingSteps]
        /\ [request[c] EXCEPT !.step = s].mail = request[c].mail
        /\ [request[c] EXCEPT !.step = s].step = s
    BY <1>1
  <1> QED
    BY <1>1, <1>2, <1>3

(* A request made. *)
LEMMA OutgoingPosting ==
    ASSUME OutgoingRecords, NEW c \in Ou!Callers, NEW m \in Messages, Ou!Post(c, m)
    PROVE  /\ request' \in [Ou!Callers -> [mail : Messages \cup {Absent}, step : OutgoingSteps]]
           /\ request'[c].mail = m /\ request'[c].step = "smtp"
           /\ \A d \in Ou!Callers \ {c} : request'[d] = request[d]
  BY DEF OutgoingRecords, Ou!Post, OutgoingSteps

(* A request ended: the run goes on with the rest of its list. *)
LEMMA OutgoingEnding ==
    ASSUME OutgoingRecords, OutgoingRequests, NEW c \in Ou!Callers, request[c].mail # Absent,
           Ou!Done(c)
    PROVE  /\ request' \in [Ou!Callers -> [mail : Messages \cup {Absent}, step : OutgoingSteps]]
           /\ request'[c].mail = Absent /\ request'[c].step = "none"
           /\ \A d \in Ou!Callers \ {c} : request'[d] = request[d]
           /\ list' \in [Runs -> Seq(Messages)]
           /\ c \in Runs => list'[c] = Tail(list[c]) /\ list[c] # <<>>
           /\ \A r \in Runs \ {c} : list'[r] = list[r]
  <1>1. /\ request' \in [Ou!Callers -> [mail : Messages \cup {Absent}, step : OutgoingSteps]]
        /\ request'[c].mail = Absent /\ request'[c].step = "none"
        /\ \A d \in Ou!Callers \ {c} : request'[d] = request[d]
    BY DEF OutgoingRecords, Ou!Done, Ou!NoRequest, OutgoingSteps
  <1>2. list' = [r \in Runs |-> IF r = c THEN Tail(list[r]) ELSE list[r]]
    BY DEF Ou!Done
  <1>3. c \in Runs => list[c] # <<>> /\ Tail(list[c]) \in Seq(Messages)
    BY OutgoingRest DEF OutgoingRecords, OutgoingRequests
  <1>4. list' \in [Runs -> Seq(Messages)]
    BY <1>2, <1>3 DEF OutgoingRecords
  <1> QED
    BY <1>1, <1>2, <1>3, <1>4

(* What follows SMTP changes nothing the proofs look at but its own step.  *)
LEMMA OutgoingFollowing ==
    ASSUME NEW c \in Ou!Callers,
           Ou!Learn(c) \/ Ou!GesendetRow(c) \/ Ou!GesendetFile(c) \/ Ou!append_message(c)
    PROVE  /\ request[c].step \in OutgoingSent /\ \E s \in OutgoingSent : Ou!Goes(c, s)
           /\ UNCHANGED <<outbox, list, delivered, answer, disturbed>>
  BY DEF Ou!Learn, Ou!GesendetRow, Ou!GesendetFile, Ou!append_message, Ou!CopyStep, OutgoingSent,
     Ou!history

(* The mail a run or the page forgets is the one it had an answer for. *)
LEMMA OutgoingForgetting ==
    ASSUME OutgoingRecords, NEW m \in Messages, Ou!Forget(m)
    PROVE  /\ outbox' \in Seq(Messages) /\ Ou!Range(outbox') \subseteq Ou!Range(outbox)
           /\ Ou!Range(outbox) \ {m} \subseteq Ou!Range(outbox')
           /\ Ou!IsInjective(outbox) => Ou!IsInjective(outbox') /\ m \notin Ou!Range(outbox')
  <1>1. CASE m \in Ou!Range(outbox)
    <2>1. Ou!IdOf(m) \in DOMAIN outbox /\ outbox[Ou!IdOf(m)] = m
      BY <1>1 DEF Ou!IdOf, Ou!Range
    <2> QED
      BY <1>1, <2>1, OutgoingRemoved DEF OutgoingRecords, Ou!Forget
  <1>2. CASE m \notin Ou!Range(outbox)
    BY <1>2 DEF OutgoingRecords, Ou!Forget
  <1> QED
    BY <1>1, <1>2

-----------------------------------------------------------------------------
(* At first nothing is on its way. *)
LEMMA OutgoingInitially == Ou!Init => OutgoingRecords /\ OutgoingRequests /\ OutgoingUndisturbed
  <1> SUFFICES ASSUME Ou!Init PROVE OutgoingRecords /\ OutgoingRequests /\ OutgoingUndisturbed
    OBVIOUS
  <1>1. /\ outbox = <<>> /\ <<>> \in Seq(Messages) /\ Ou!Range(<<>>) = {} /\ Ou!IsInjective(<<>>)
        /\ \A r \in Runs : list[r] = <<>>
    BY DEF Ou!Init, Ou!Range, Ou!IsInjective
  <1>2. \A c \in Ou!Callers : request[c].mail = Absent /\ request[c].step = "none"
    BY DEF Ou!Init, Ou!NoRequest
  <1>3. OutgoingRecords
    BY <1>1 DEF Ou!Init, OutgoingRecords, Ou!NoRequest, OutgoingSteps
  <1>4. OutgoingRequests
    BY <1>2 DEF OutgoingRequests, OutgoingSent, Ou!Callers
  <1>5. OutgoingOneRun /\ OutgoingFromOutbox /\ OutgoingInOnePlace
    BY <1>1, <1>2 DEF OutgoingOneRun, OutgoingFromOutbox, OutgoingInOnePlace, Ou!Init, Ou!Callers
  <1>6. OutgoingTakenOnce
    <2>1. \A m \in Messages : delivered[m] = 0
      BY DEF Ou!Init
    <2> QED
      BY <1>2, <2>1 DEF OutgoingTakenOnce
  <1> QED
    BY <1>3, <1>4, <1>5, <1>6 DEF OutgoingUndisturbed

-----------------------------------------------------------------------------
(* Types and requests: one step for each action. *)
LEMMA OutgoingRequestsStay ==
    ASSUME Ou!NoneAssumption, Ou!RunsAssumption, OutgoingRecords, OutgoingRequests,
           [Ou!Next]_Ou!vars
    PROVE  OutgoingRecords' /\ OutgoingRequests'
  <1> USE DEF Ou!NoneAssumption, Ou!RunsAssumption
  <1>1. /\ \A c \in Ou!Callers : request[c].mail \in Messages \cup {Absent} /\ request[c].step \in OutgoingSteps
        /\ "page" \in Ou!Callers /\ Runs \subseteq Ou!Callers
    BY DEF OutgoingRecords, Ou!Callers
  <1>2. ASSUME NEW m \in Messages, Ou!queueDraft(m) PROVE OutgoingRecords' /\ OutgoingRequests'
    BY <1>2, OutgoingAppended DEF Ou!queueDraft, OutgoingRecords, OutgoingRequests, Ou!history
  <1>3. ASSUME NEW c \in Ou!Callers, NEW m \in Messages, Ou!Post(c, m), request[c] = Ou!NoRequest,
               c \in Runs => list[c] # <<>> /\ m = Head(list[c]),
               UNCHANGED <<outbox, list, delivered, answer, disturbed>>
        PROVE  OutgoingRecords' /\ OutgoingRequests'
    <2>1. /\ request' \in [Ou!Callers -> [mail : Messages \cup {Absent}, step : OutgoingSteps]]
          /\ request'[c].mail = m /\ request'[c].step = "smtp"
          /\ \A d \in Ou!Callers \ {c} : request'[d] = request[d]
      BY <1>3, OutgoingPosting
    <2>2. OutgoingRecords'
      BY <1>3, <2>1 DEF OutgoingRecords
    <2>3. OutgoingRequests'
      BY <1>1, <1>3, <2>1 DEF OutgoingRequests, OutgoingSent
    <2> QED
      BY <2>2, <2>3
  <1>4. ASSUME NEW m \in Messages, Ou!handleSend(m) PROVE OutgoingRecords' /\ OutgoingRequests'
    BY <1>1, <1>3, <1>4 DEF Ou!handleSend, Ou!effects, Ou!Unsent
  <1>5. ASSUME NEW r \in Runs, Ou!Online(r) PROVE OutgoingRecords' /\ OutgoingRequests'
    BY <1>1, <1>5 DEF Ou!Online, OutgoingRecords, OutgoingRequests, Ou!NoRequest
  <1>6. ASSUME NEW r \in Runs, Ou!SendNext(r) PROVE OutgoingRecords' /\ OutgoingRequests'
    <2>1. list[r] \in Seq(Messages) /\ Head(list[r]) \in Messages
      BY <1>6, OutgoingRest DEF Ou!SendNext, OutgoingRecords
    <2> QED
      BY <1>1, <1>3, <1>6, <2>1 DEF Ou!SendNext, Ou!effects
  <1>7. ASSUME NEW c \in Ou!Callers, NEW s \in OutgoingSteps \ {"none"}, Ou!Goes(c, s),
               request[c].step # "none",
               delivered' \in [Messages -> Nat], disturbed' \in BOOLEAN,
               \A m \in Messages : delivered'[m] >= delivered[m],
               s \in OutgoingSent => delivered'[request[c].mail] > 0,
               UNCHANGED <<outbox, list, answer>>
        PROVE  OutgoingRecords' /\ OutgoingRequests'
    <2>1. /\ request' \in [Ou!Callers -> [mail : Messages \cup {Absent}, step : OutgoingSteps]]
          /\ \A d \in Ou!Callers : /\ request'[d].mail = request[d].mail
                                   /\ request'[d].step = IF d = c THEN s ELSE request[d].step
      BY <1>7, OutgoingGoing
    <2>2. OutgoingRecords'
      BY <1>7, <2>1 DEF OutgoingRecords
    <2>3. ASSUME NEW d \in Ou!Callers
          PROVE  /\ request'[d].mail = Absent <=> request'[d].step = "none"
                 /\ request'[d].step \in OutgoingSent => delivered'[request'[d].mail] > 0
      <3>1. request'[d].mail = Absent <=> request'[d].step = "none"
        BY <1>7, <2>1 DEF OutgoingRequests
      <3>2. ASSUME request'[d].step \in OutgoingSent PROVE delivered'[request'[d].mail] > 0
        <4>1. CASE d = c
          BY <1>7, <2>1, <3>2, <4>1
        <4>2. CASE d # c
          <5>1. request[d].step \in OutgoingSent /\ request[d].mail \in Messages
            BY <1>1, <2>1, <3>2, <4>2 DEF OutgoingRequests, OutgoingSent
          <5>2. /\ delivered[request[d].mail] > 0 /\ delivered[request[d].mail] \in Nat
                /\ delivered'[request[d].mail] >= delivered[request[d].mail]
                /\ delivered'[request[d].mail] \in Nat
            BY <1>7, <5>1 DEF OutgoingRequests, OutgoingRecords
          <5> QED
            BY <2>1, <5>2
        <4> QED
          BY <4>1, <4>2
      <3> QED
        BY <3>1, <3>2
    <2>4. \A r \in Runs : request'[r].mail # Absent => list'[r] # <<>> /\ request'[r].mail = Head(list'[r])
      BY <1>1, <1>7, <2>1 DEF OutgoingRequests
    <2> QED
      BY <2>2, <2>3, <2>4 DEF OutgoingRequests
  <1>8. ASSUME NEW c \in Ou!Callers, Ou!send(c) PROVE OutgoingRecords' /\ OutgoingRequests'
    <2>1. /\ request[c].step = "smtp" /\ request[c].mail \in Messages
          /\ UNCHANGED <<outbox, list, answer>>
      BY <1>1, <1>8 DEF Ou!send, Ou!history, OutgoingRequests
    <2>2. delivered[request[c].mail] \in Nat /\ delivered \in [Messages -> Nat]
      BY <2>1 DEF OutgoingRecords
    <2>3. ASSUME delivered' = Ou!Plus(delivered, request[c].mail)
          PROVE  /\ delivered' \in [Messages -> Nat] /\ delivered'[request[c].mail] > 0
                 /\ \A m \in Messages : delivered'[m] >= delivered[m]
      BY <2>1, <2>2, <2>3 DEF Ou!Plus
    <2>4. CASE Ou!SmtpAccepts(c) /\ UNCHANGED disturbed
      BY <1>7, <2>1, <2>3, <2>4 DEF Ou!SmtpAccepts, OutgoingSteps, OutgoingSent, OutgoingRecords
    <2>5. CASE Ou!Goes(c, "error") /\ UNCHANGED <<delivered, disturbed>>
      <3>1. \A m \in Messages : delivered'[m] >= delivered[m]
        BY <2>2, <2>5
      <3> QED
        BY <1>7, <2>1, <2>5, <3>1 DEF OutgoingSteps, OutgoingSent, OutgoingRecords
    <2>6. CASE Ou!Goes(c, "error") /\ delivered' = Ou!Plus(delivered, request[c].mail) /\ disturbed' = TRUE
      BY <1>7, <2>1, <2>3, <2>6 DEF OutgoingSteps, OutgoingSent
    <2> QED
      BY <1>8, <2>4, <2>5, <2>6 DEF Ou!send
  <1>9. ASSUME NEW c \in Ou!Callers,
               Ou!Learn(c) \/ Ou!GesendetRow(c) \/ Ou!GesendetFile(c) \/ Ou!append_message(c)
        PROVE  OutgoingRecords' /\ OutgoingRequests'
    <2>1. PICK s \in OutgoingSent : Ou!Goes(c, s)
      BY <1>9, OutgoingFollowing
    <2>2. /\ request[c].step \in OutgoingSent
          /\ UNCHANGED <<outbox, list, delivered, answer, disturbed>>
      BY <1>9, OutgoingFollowing
    <2>3. \A m \in Messages : delivered'[m] >= delivered[m]
      BY <2>2 DEF OutgoingRecords
    <2> QED
      BY <1>7, <2>1, <2>2, <2>3 DEF OutgoingSteps, OutgoingSent, OutgoingRecords, OutgoingRequests
  <1>10. ASSUME NEW c \in Ou!Callers, Ou!Done(c), request[c].mail # Absent, UNCHANGED delivered,
               outbox' \in Seq(Messages), disturbed' \in BOOLEAN,
               answer' \in [Messages -> {"none", "saved", "unsaved"}]
        PROVE  OutgoingRecords' /\ OutgoingRequests'
    <2>1. /\ request' \in [Ou!Callers -> [mail : Messages \cup {Absent}, step : OutgoingSteps]]
          /\ request'[c].mail = Absent /\ request'[c].step = "none"
          /\ \A d \in Ou!Callers \ {c} : request'[d] = request[d]
          /\ list' \in [Runs -> Seq(Messages)]
          /\ \A r \in Runs \ {c} : list'[r] = list[r]
      BY <1>10, OutgoingEnding
    <2>2. OutgoingRecords'
      BY <1>10, <2>1 DEF OutgoingRecords
    <2>3. \A d \in Ou!Callers : d # c => /\ request'[d].mail = Absent <=> request'[d].step = "none"
                                         /\ request'[d].step \in OutgoingSent => delivered'[request'[d].mail] > 0
      BY <1>10, <2>1 DEF OutgoingRequests
    <2>4. \A r \in Runs : request'[r].mail # Absent => list'[r] # <<>> /\ request'[r].mail = Head(list'[r])
      BY <1>1, <1>10, <2>1 DEF OutgoingRequests
    <2>5. OutgoingRequests'
      BY <2>1, <2>3, <2>4 DEF OutgoingRequests, OutgoingSent
    <2> QED
      BY <2>2, <2>5
  <1>11. ASSUME NEW c \in Ou!Callers, Ou!Answered(c) PROVE OutgoingRecords' /\ OutgoingRequests'
    <2>1. request[c].mail \in Messages /\ request[c].mail # Absent
      BY <1>1, <1>11 DEF Ou!Answered, OutgoingRequests
    <2>2. outbox' \in Seq(Messages)
      BY <1>11, <2>1, OutgoingForgetting DEF Ou!Answered, OutgoingRecords
    <2>3. answer' \in [Messages -> {"none", "saved", "unsaved"}]
      BY <1>11, <2>1 DEF Ou!Answered, OutgoingRecords
    <2> QED
      BY <1>10, <1>11, <2>1, <2>2, <2>3 DEF Ou!Answered, OutgoingRecords
  <1>12. ASSUME NEW c \in Ou!Callers, Ou!Lost(c) PROVE OutgoingRecords' /\ OutgoingRequests'
    <2>1. request[c].mail # Absent
      BY <1>12 DEF Ou!Lost, OutgoingRequests
    <2> QED
      BY <1>10, <1>12, <2>1 DEF Ou!Lost, OutgoingRecords
  <1>13. CASE Ou!Restart
    <2>1. \A c \in Ou!Callers : /\ request'[c].mail = request[c].mail
                                /\ request'[c].step = IF request[c].step = "none" THEN "none" ELSE "error"
      BY <1>1, <1>13 DEF Ou!Restart, Ou!NoRequest, OutgoingRecords, OutgoingRequests
    <2>2. request' \in [Ou!Callers -> [mail : Messages \cup {Absent}, step : OutgoingSteps]]
      BY <1>13 DEF Ou!Restart, Ou!NoRequest, OutgoingRecords, OutgoingSteps
    <2>3. OutgoingRecords'
      BY <1>13, <2>2 DEF Ou!Restart, OutgoingRecords
    <2>4. OutgoingRequests'
      BY <1>1, <1>13, <2>1 DEF Ou!Restart, OutgoingRequests, OutgoingSent
    <2> QED
      BY <2>3, <2>4
  <1>14. CASE UNCHANGED Ou!vars
    BY <1>14 DEF Ou!vars, Ou!history, OutgoingRecords, OutgoingRequests
  <1> QED
    BY <1>2, <1>4, <1>5, <1>6, <1>8, <1>9, <1>11, <1>12, <1>13, <1>14 DEF Ou!Next, Ou!Serve

-----------------------------------------------------------------------------
(* What leaves the outbox was taken by the provider. *)
LEMMA OutgoingLoses ==
    ASSUME Ou!NoneAssumption, Ou!RunsAssumption, OutgoingRecords, OutgoingRequests, Ou!Next
    PROVE  Ou!LosesNothing
  <1> SUFFICES ASSUME NEW m \in Messages, m \in Ou!Range(outbox), m \notin Ou!Range(outbox')
               PROVE  delivered[m] > 0
    BY DEF Ou!LosesNothing
  <1>1. \/ \E n \in Messages : Ou!queueDraft(n)
        \/ \E c \in Ou!Callers : /\ Ou!Answered(c) /\ c \in Runs /\ Ou!Success(request[c].step)
                                 /\ Ou!Forget(request[c].mail)
    BY DEF Ou!Next, Ou!handleSend, Ou!Online, Ou!SendNext, Ou!Serve, Ou!send, Ou!Learn,
       Ou!GesendetRow, Ou!GesendetFile,
                   Ou!append_message, Ou!Answered, Ou!Lost, Ou!Restart
  <1>2. ASSUME NEW n \in Messages, Ou!queueDraft(n) PROVE FALSE
    BY <1>2, OutgoingAppended DEF Ou!queueDraft, OutgoingRecords
  <1>3. ASSUME NEW c \in Ou!Callers, Ou!Success(request[c].step), Ou!Forget(request[c].mail)
        PROVE  delivered[m] > 0
    <2>1. request[c].step \in OutgoingSent /\ delivered[request[c].mail] > 0
      BY <1>3 DEF Ou!Success, OutgoingSent, OutgoingRequests
    <2>2. request[c].mail \in Messages
      BY <2>1 DEF OutgoingRecords, OutgoingRequests, OutgoingSent
    <2>3. m = request[c].mail
      BY <1>3, <2>2, OutgoingForgetting
    <2> QED
      BY <2>1, <2>3
  <1> QED
    BY <1>1, <1>2, <1>3

-----------------------------------------------------------------------------
(* Undisturbed a mail stays in one place: one step for each action. *)
LEMMA OutgoingUndisturbedStays ==
    ASSUME Ou!NoneAssumption, Ou!RunsAssumption, OutgoingRecords, OutgoingRequests,
           OutgoingUndisturbed, [Ou!Next]_Ou!vars
    PROVE  OutgoingUndisturbed'
  <1> SUFFICES ASSUME ~disturbed'
               PROVE  /\ OutgoingOneRun' /\ OutgoingFromOutbox' /\ OutgoingInOnePlace'
                      /\ OutgoingTakenOnce'
    BY DEF OutgoingUndisturbed
  <1> USE DEF Ou!NoneAssumption, Ou!RunsAssumption
  <1>1. /\ \A c \in Ou!Callers : request[c].mail \in Messages \cup {Absent} /\ request[c].step \in OutgoingSteps
        /\ "page" \in Ou!Callers /\ Runs \subseteq Ou!Callers
        /\ \A c \in Ou!Callers : c = "page" \/ c \in Runs
    BY DEF OutgoingRecords, Ou!Callers
  <1>2. ~disturbed
    BY DEF Ou!Next, Ou!queueDraft, Ou!handleSend, Ou!Online, Ou!SendNext, Ou!Serve, Ou!send,
       Ou!Learn, Ou!GesendetRow, Ou!GesendetFile,
           Ou!append_message, Ou!Answered, Ou!Lost, Ou!Restart, Ou!history, Ou!vars, OutgoingRecords
  <1>3. OutgoingOneRun /\ OutgoingFromOutbox /\ OutgoingInOnePlace /\ OutgoingTakenOnce
    BY <1>2 DEF OutgoingUndisturbed
  <1>4. ASSUME NEW m \in Messages, Ou!queueDraft(m)
        PROVE  OutgoingOneRun' /\ OutgoingFromOutbox' /\ OutgoingInOnePlace' /\ OutgoingTakenOnce'
    <2>1. /\ m \notin Ou!Range(outbox) /\ answer[m] = "none"
          /\ outbox' = Append(outbox, m) /\ request["page"].mail = Absent
          /\ UNCHANGED <<list, request, delivered, answer>>
      BY <1>4 DEF Ou!queueDraft, Ou!Unsent, Ou!history, Ou!NoRequest
    <2>2. Ou!Range(outbox') = Ou!Range(outbox) \cup {m} /\ Ou!IsInjective(outbox')
      BY <1>3, <2>1, OutgoingAppended DEF OutgoingRecords, OutgoingFromOutbox
    <2>3. Absent \notin Ou!Range(outbox')
      BY <2>1, <2>2, OutgoingRange DEF OutgoingRecords
    <2>4. OutgoingFromOutbox'
      BY <1>3, <2>1, <2>2, <2>3 DEF OutgoingFromOutbox
    <2> QED
      BY <1>3, <2>1, <2>4 DEF OutgoingOneRun, OutgoingInOnePlace, OutgoingTakenOnce
  <1>5. ASSUME NEW c \in Ou!Callers, NEW m \in Messages, Ou!Post(c, m), request[c] = Ou!NoRequest,
               answer[m] = "none", ~Ou!InFlight(m), c = "page" => m \notin Ou!Range(outbox),
               UNCHANGED <<outbox, list, delivered, answer>>
        PROVE  OutgoingOneRun' /\ OutgoingFromOutbox' /\ OutgoingInOnePlace' /\ OutgoingTakenOnce'
    <2>1. /\ request'[c].mail = m /\ request'[c].step = "smtp"
          /\ \A d \in Ou!Callers \ {c} : request'[d] = request[d]
      BY <1>5, OutgoingPosting
    <2>2. \A d \in Ou!Callers : request[d].mail # m
      BY <1>5 DEF Ou!InFlight
    <2>3. OutgoingOneRun' /\ OutgoingFromOutbox'
      BY <1>1, <1>3, <1>5, <2>1 DEF OutgoingOneRun, OutgoingFromOutbox
    <2>4. OutgoingInOnePlace'
      BY <1>3, <2>1, <2>2 DEF OutgoingInOnePlace
    <2>5. delivered[m] = 0
      BY <1>3, <1>5, <2>2 DEF OutgoingTakenOnce
    <2>6. OutgoingTakenOnce'
      <3>1. ASSUME NEW n \in Messages
            PROVE  /\ delivered'[n] <= 1
                   /\ \/ delivered'[n] = 0 \/ answer'[n] # "none"
                      \/ \E d \in Ou!Callers : request'[d].mail = n /\ request'[d].step \in OutgoingSent
        <4>1. delivered'[n] <= 1
          BY <1>3, <1>5 DEF OutgoingTakenOnce
        <4>2. CASE delivered[n] = 0 \/ answer[n] # "none"
          BY <1>5, <4>1, <4>2
        <4>3. ASSUME NEW d \in Ou!Callers, request[d].mail = n, request[d].step \in OutgoingSent
              PROVE  request'[d].mail = n /\ request'[d].step \in OutgoingSent
          <5>1. d # c
            BY <1>5, <4>3 DEF Ou!NoRequest, OutgoingSent
          <5> QED
            BY <2>1, <4>3, <5>1
        <4> QED
          BY <1>3, <4>1, <4>2, <4>3 DEF OutgoingTakenOnce
      <3>2. ASSUME NEW d \in Ou!Callers
            PROVE  /\ request'[d].mail # Absent => answer'[request'[d].mail] = "none"
                   /\ request'[d].step \in {"smtp", "error"} => delivered'[request'[d].mail] = 0
        BY <1>3, <1>5, <2>1, <2>5 DEF OutgoingTakenOnce
      <3> QED
        BY <3>1, <3>2 DEF OutgoingTakenOnce
    <2> QED
      BY <2>3, <2>4, <2>6
  <1>6. ASSUME NEW m \in Messages, Ou!handleSend(m)
        PROVE  OutgoingOneRun' /\ OutgoingFromOutbox' /\ OutgoingInOnePlace' /\ OutgoingTakenOnce'
    BY <1>1, <1>5, <1>6 DEF Ou!handleSend, Ou!effects, Ou!Unsent
  <1>7. ASSUME NEW r \in Runs, Ou!Online(r)
        PROVE  OutgoingOneRun' /\ OutgoingFromOutbox' /\ OutgoingInOnePlace' /\ OutgoingTakenOnce'
    <2>1. /\ \A o \in Runs \ {r} : list[o] = <<>> /\ request[o] = Ou!NoRequest
          /\ list' = [list EXCEPT ![r] = outbox] /\ UNCHANGED <<outbox, request, delivered, answer>>
      BY <1>7 DEF Ou!Online
    <2>2. /\ list'[r] = outbox /\ \A o \in Runs \ {r} : list'[o] = <<>>
      BY <2>1 DEF OutgoingRecords
    <2>3. OutgoingOneRun'
      BY <2>2 DEF OutgoingOneRun
    <2>4. OutgoingFromOutbox'
      <3>1. \A o \in Runs : Ou!IsInjective(list'[o]) /\ Ou!Range(list'[o]) \subseteq Ou!Range(outbox)
        BY <1>3, <2>1, <2>2 DEF OutgoingFromOutbox
      <3> QED
        BY <1>3, <2>1, <3>1 DEF OutgoingFromOutbox
    <2> QED
      BY <1>3, <2>1, <2>3, <2>4 DEF OutgoingInOnePlace, OutgoingTakenOnce
  <1>8. ASSUME NEW r \in Runs, Ou!SendNext(r)
        PROVE  OutgoingOneRun' /\ OutgoingFromOutbox' /\ OutgoingInOnePlace' /\ OutgoingTakenOnce'
    <2> DEFINE m == Head(list[r])
    <2>1. m \in Messages /\ m \in Ou!Range(list[r])
      BY <1>8, OutgoingRest DEF Ou!SendNext, OutgoingRecords
    <2>2. m \in Ou!Range(outbox) /\ answer[m] = "none"
      BY <1>3, <2>1 DEF OutgoingFromOutbox
    <2>3. ~Ou!InFlight(m)
      <3>1. request["page"].mail # m
        BY <1>3, <2>2 DEF OutgoingFromOutbox
      <3>2. ASSUME NEW o \in Runs, request[o].mail = m PROVE FALSE
        <4>1. o # r
          BY <1>8, <2>1, <3>2 DEF Ou!SendNext, Ou!NoRequest
        <4>2. list[o] # <<>> /\ list[r] # <<>>
          BY <1>8, <2>1, <3>2 DEF Ou!SendNext, OutgoingRequests
        <4> QED
          BY <1>3, <4>1, <4>2 DEF OutgoingOneRun
      <3> QED
        BY <1>1, <3>1, <3>2 DEF Ou!InFlight
    <2>4. r # "page" /\ r \in Ou!Callers /\ request[r] = Ou!NoRequest /\ Ou!Post(r, m)
          /\ UNCHANGED <<outbox, list, delivered, answer>>
      BY <1>1, <1>8 DEF Ou!SendNext, Ou!effects
    <2> QED
      BY <1>5, <2>1, <2>2, <2>3, <2>4
  <1>9. ASSUME NEW c \in Ou!Callers, NEW s \in OutgoingSteps \ {"none"}, Ou!Goes(c, s),
               request[c].step # "none",
               UNCHANGED <<outbox, list, answer>>
        PROVE  OutgoingOneRun' /\ OutgoingFromOutbox' /\ OutgoingInOnePlace'
    <2>1. \A d \in Ou!Callers : request'[d].mail = request[d].mail
      BY <1>9, OutgoingGoing
    <2> QED
      BY <1>1, <1>3, <1>9, <2>1 DEF OutgoingOneRun, OutgoingFromOutbox, OutgoingInOnePlace
  <1>10. ASSUME NEW c \in Ou!Callers, Ou!send(c)
         PROVE  OutgoingOneRun' /\ OutgoingFromOutbox' /\ OutgoingInOnePlace' /\ OutgoingTakenOnce'
    <2> DEFINE m == request[c].mail
    <2>1. /\ request[c].step = "smtp" /\ m \in Messages /\ delivered[m] = 0
          /\ UNCHANGED <<outbox, list, answer>>
      BY <1>1, <1>10, <1>3 DEF Ou!send, Ou!history, OutgoingRequests, OutgoingTakenOnce
    <2>2. PICK s \in {"learn", "error"} :
              /\ Ou!Goes(c, s)
              /\ IF s = "learn" THEN delivered' = Ou!Plus(delivered, m) ELSE UNCHANGED delivered
      BY <1>10 DEF Ou!send, Ou!SmtpAccepts
    <2>3. OutgoingOneRun' /\ OutgoingFromOutbox' /\ OutgoingInOnePlace'
      BY <1>9, <2>1, <2>2 DEF OutgoingSteps, OutgoingSent
    <2>4. \A d \in Ou!Callers : /\ request'[d].mail = request[d].mail
                                /\ request'[d].step = IF d = c THEN s ELSE request[d].step
      BY <2>2, OutgoingGoing DEF OutgoingSteps, OutgoingSent
    <2>5. /\ delivered'[m] = IF s = "learn" THEN 1 ELSE 0
          /\ \A n \in Messages \ {m} : delivered'[n] = delivered[n]
      BY <2>1, <2>2 DEF Ou!Plus, OutgoingRecords
    <2>6. \A d \in Ou!Callers : d # c => request[d].mail # m
      BY <1>3, <2>1 DEF OutgoingInOnePlace
    <2>7. ASSUME NEW n \in Messages
          PROVE  /\ delivered'[n] <= 1
                 /\ \/ delivered'[n] = 0 \/ answer'[n] # "none"
                    \/ \E d \in Ou!Callers : request'[d].mail = n /\ request'[d].step \in OutgoingSent
      <3>1. CASE n = m
        <4>1. delivered'[n] <= 1
          BY <2>5, <3>1
        <4>2. CASE s = "learn"
          BY <2>4, <3>1, <4>1, <4>2 DEF OutgoingSent
        <4>3. CASE s = "error"
          BY <2>5, <3>1, <4>1, <4>3
        <4> QED
          BY <2>2, <4>2, <4>3
      <3>2. CASE n # m
        <4>1. delivered'[n] = delivered[n] /\ answer'[n] = answer[n]
          BY <2>1, <2>5, <3>2
        <4>2. ASSUME NEW d \in Ou!Callers, request[d].mail = n, request[d].step \in OutgoingSent
              PROVE  request'[d].mail = n /\ request'[d].step \in OutgoingSent
          BY <2>4, <3>2, <4>2
        <4> QED
          BY <1>3, <4>1, <4>2 DEF OutgoingTakenOnce
      <3> QED
        BY <3>1, <3>2
    <2>8. ASSUME NEW d \in Ou!Callers
          PROVE  /\ request'[d].mail # Absent => answer'[request'[d].mail] = "none"
                 /\ request'[d].step \in {"smtp", "error"} => delivered'[request'[d].mail] = 0
      <3>1. request'[d].mail # Absent => answer'[request'[d].mail] = "none"
        BY <1>3, <2>1, <2>4 DEF OutgoingTakenOnce
      <3>2. ASSUME d = c, request'[d].step \in {"smtp", "error"}
            PROVE  delivered'[request'[d].mail] = 0
        BY <2>2, <2>4, <2>5, <3>2
      <3>3. ASSUME d # c, request'[d].step \in {"smtp", "error"}
            PROVE  delivered'[request'[d].mail] = 0
        <4>1. request[d].mail \in Messages \ {m} /\ delivered[request[d].mail] = 0
          BY <1>1, <1>3, <2>4, <2>6, <3>3 DEF OutgoingTakenOnce, OutgoingRequests
        <4> QED
          BY <2>4, <2>5, <4>1
      <3> QED
        BY <3>1, <3>2, <3>3
    <2> QED
      BY <2>3, <2>7, <2>8 DEF OutgoingTakenOnce
  <1>11. ASSUME NEW c \in Ou!Callers,
               Ou!Learn(c) \/ Ou!GesendetRow(c) \/ Ou!GesendetFile(c) \/ Ou!append_message(c)
        PROVE  OutgoingOneRun' /\ OutgoingFromOutbox' /\ OutgoingInOnePlace' /\ OutgoingTakenOnce'
    <2>1. PICK s \in OutgoingSent : Ou!Goes(c, s)
      BY <1>11, OutgoingFollowing
    <2>2. /\ request[c].step \in OutgoingSent
          /\ UNCHANGED <<outbox, list, delivered, answer, disturbed>>
      BY <1>11, OutgoingFollowing
    <2>3. \A d \in Ou!Callers : /\ request'[d].mail = request[d].mail
                                /\ request'[d].step = IF d = c THEN s ELSE request[d].step
      BY <2>1, OutgoingGoing DEF OutgoingSteps
    <2>4. OutgoingOneRun' /\ OutgoingFromOutbox' /\ OutgoingInOnePlace'
      BY <1>9, <2>1, <2>2 DEF OutgoingSteps, OutgoingSent
    <2>5. \A d \in Ou!Callers : /\ request'[d].step \in OutgoingSent <=> request[d].step \in OutgoingSent
                                /\ request'[d].step \in {"smtp", "error"} => request'[d].step = request[d].step
      BY <2>2, <2>3 DEF OutgoingSent
    <2> QED
      BY <1>3, <2>2, <2>3, <2>4, <2>5 DEF OutgoingTakenOnce
  <1>12. ASSUME NEW c \in Ou!Callers, Ou!Answered(c)
         PROVE  OutgoingOneRun' /\ OutgoingFromOutbox' /\ OutgoingInOnePlace' /\ OutgoingTakenOnce'
    <2> DEFINE m == request[c].mail
    <2>1. m \in Messages /\ m # Absent /\ Ou!Done(c) /\ UNCHANGED delivered
      BY <1>1, <1>12 DEF Ou!Answered, OutgoingRequests
    <2>2. /\ request'[c].mail = Absent /\ request'[c].step = "none"
          /\ \A d \in Ou!Callers \ {c} : request'[d] = request[d]
          /\ c \in Runs => list'[c] = Tail(list[c]) /\ list[c] # <<>>
          /\ \A r \in Runs \ {c} : list'[r] = list[r]
      BY <2>1, OutgoingEnding
    <2>3. \A d \in Ou!Callers \ {c} : request[d].mail # m
      BY <1>3, <2>1 DEF OutgoingInOnePlace
    <2>4. OutgoingOneRun'
      BY <1>3, <2>2 DEF OutgoingOneRun
    <2>5. OutgoingInOnePlace'
      BY <1>3, <2>2 DEF OutgoingInOnePlace
    <2>6. c \in Runs => /\ m = Head(list[c]) /\ m \in Ou!Range(outbox)
                               /\ Ou!IsInjective(list'[c]) /\ m \notin Ou!Range(list'[c])
                               /\ Ou!Range(list'[c]) \subseteq Ou!Range(list[c])
      <3> SUFFICES ASSUME c \in Runs
                   PROVE  /\ m = Head(list[c]) /\ m \in Ou!Range(outbox)
                          /\ Ou!IsInjective(list'[c]) /\ m \notin Ou!Range(list'[c])
                          /\ Ou!Range(list'[c]) \subseteq Ou!Range(list[c])
        OBVIOUS
      <3>1. /\ m = Head(list[c]) /\ list[c] \in Seq(Messages) /\ list[c] # <<>>
            /\ Ou!IsInjective(list[c]) /\ Ou!Range(list[c]) \subseteq Ou!Range(outbox)
        BY <1>3, <2>1, <2>2 DEF OutgoingRequests, OutgoingFromOutbox, OutgoingRecords
      <3> HIDE DEF m
      <3> QED
        BY <2>2, <3>1, OutgoingRest
    <2>7. \A r \in Runs \ {c} : c \in Runs => list[r] = <<>>
      BY <1>3, <2>2 DEF OutgoingOneRun
    <2>8. /\ Ou!IsInjective(outbox') /\ Ou!Range(outbox') \subseteq Ou!Range(outbox)
          /\ Ou!Range(outbox) \ {m} \subseteq Ou!Range(outbox')
          /\ outbox' = outbox \/ (c \in Runs /\ m \notin Ou!Range(outbox'))
      <3>1. Ou!IsInjective(outbox)
        BY <1>3 DEF OutgoingFromOutbox
      <3>2. outbox' = outbox \/ (c \in Runs /\ Ou!Forget(m))
        <4>1. IF c \in Runs /\ Ou!Success(request[c].step) THEN Ou!Forget(m) ELSE UNCHANGED outbox
          BY <1>12 DEF Ou!Answered
        <4> HIDE DEF m
        <4> QED
          BY <4>1, Zenon
      <3>3. CASE outbox' = outbox
        <4>1. Ou!IsInjective(outbox') /\ Ou!Range(outbox') = Ou!Range(outbox)
          BY <3>1, <3>3, Zenon
        <4> HIDE DEF m
        <4> QED
          BY <3>3, <4>1
      <3>4. CASE c \in Runs /\ Ou!Forget(m)
        <4> HIDE DEF m
        <4> QED
          BY <2>1, <3>1, <3>4, OutgoingForgetting
      <3> QED
        BY <3>2, <3>3, <3>4
    <2>9. CASE request[c].step = "error"
      <3>1. outbox' = outbox /\ answer' = answer
        BY <1>12, <2>9 DEF Ou!Answered, Ou!Success
      <3>2. OutgoingFromOutbox'
        <4>1. \A r \in Runs : Ou!IsInjective(list'[r]) /\ Ou!Range(list'[r]) \subseteq Ou!Range(outbox)
          BY <1>3, <2>2, <2>6 DEF OutgoingFromOutbox
        <4>2. request'["page"].mail \notin Ou!Range(outbox)
          BY <1>1, <1>3, <2>2, OutgoingRange DEF OutgoingFromOutbox, OutgoingRecords
        <4> QED
          BY <1>3, <3>1, <4>1, <4>2 DEF OutgoingFromOutbox
      <3>3. delivered[m] = 0
        BY <1>3, <2>9 DEF OutgoingTakenOnce
      <3>4. OutgoingTakenOnce'
        BY <1>3, <2>1, <2>2, <2>3, <2>9, <3>1, <3>3 DEF OutgoingTakenOnce, OutgoingSent
      <3> QED
        BY <2>4, <2>5, <3>2, <3>4
    <2>10. CASE request[c].step # "error"
      <3>1. /\ request[c].step \in {"saved", "unsaved"}
            /\ answer' = [answer EXCEPT ![m] = request[c].step]
            /\ c \in Runs => Ou!Forget(m)
            /\ c \notin Runs => UNCHANGED outbox
        BY <1>12, <2>10 DEF Ou!Answered, Ou!Success
      <3>2. answer'[m] # "none" /\ \A n \in Messages \ {m} : answer'[n] = answer[n]
        BY <2>1, <3>1 DEF OutgoingRecords
      <3>3. m \notin Ou!Range(outbox')
        <4>1. CASE c \in Runs
          BY <1>3, <2>1, <3>1, <4>1, OutgoingForgetting DEF OutgoingFromOutbox
        <4>2. CASE c = "page"
          BY <1>3, <3>1, <4>2 DEF OutgoingFromOutbox
        <4> QED
          BY <1>1, <4>1, <4>2
      <3>4. OutgoingFromOutbox'
        <4>1. \A n \in Ou!Range(outbox') : answer'[n] = "none"
          <5>1. \A n \in Ou!Range(outbox') : n \in Messages \ {m} /\ n \in Ou!Range(outbox)
            BY <2>8, <3>3, OutgoingRange DEF OutgoingRecords
          <5> QED
            BY <1>3, <3>2, <5>1 DEF OutgoingFromOutbox
        <4>2. request'["page"].mail \notin Ou!Range(outbox')
          <5>1. Absent \notin Ou!Range(outbox)
            BY OutgoingRange DEF OutgoingRecords
          <5> QED
            BY <1>1, <1>3, <2>2, <2>8, <5>1 DEF OutgoingFromOutbox
        <4>3. ASSUME NEW r \in Runs
              PROVE  Ou!IsInjective(list'[r]) /\ Ou!Range(list'[r]) \subseteq Ou!Range(outbox')
          <5>1. CASE r = c
            BY <1>3, <2>6, <2>8, <5>1 DEF OutgoingFromOutbox
          <5>2. CASE r # c /\ c \in Runs
            <6>1. list'[r] = <<>> /\ Ou!Range(<<>>) = {} /\ Ou!IsInjective(<<>>)
              BY <2>2, <2>7, <5>2 DEF Ou!Range, Ou!IsInjective
            <6> QED
              BY <6>1
          <5>3. CASE c \notin Runs
            BY <1>3, <2>2, <3>1, <5>3 DEF OutgoingFromOutbox
          <5> QED
            BY <5>1, <5>2, <5>3
        <4> QED
          BY <2>8, <4>1, <4>2, <4>3 DEF OutgoingFromOutbox
      <3>5. OutgoingTakenOnce'
        <4>1. ASSUME NEW n \in Messages
              PROVE  /\ delivered'[n] <= 1
                     /\ \/ delivered'[n] = 0 \/ answer'[n] # "none"
                        \/ \E d \in Ou!Callers : request'[d].mail = n /\ request'[d].step \in OutgoingSent
          <5>1. delivered'[n] <= 1
            BY <1>3, <2>1 DEF OutgoingTakenOnce
          <5>2. CASE n = m
            BY <3>2, <5>1, <5>2
          <5>3. CASE n # m
            <6>1. ASSUME NEW d \in Ou!Callers, request[d].mail = n, request[d].step \in OutgoingSent
                  PROVE  request'[d].mail = n /\ request'[d].step \in OutgoingSent
              BY <2>2, <5>3, <6>1
            <6> QED
              BY <1>3, <2>1, <3>2, <5>1, <5>3, <6>1 DEF OutgoingTakenOnce
          <5> QED
            BY <5>2, <5>3
        <4>2. ASSUME NEW d \in Ou!Callers
              PROVE  /\ request'[d].mail # Absent => answer'[request'[d].mail] = "none"
                     /\ request'[d].step \in {"smtp", "error"} => delivered'[request'[d].mail] = 0
          <5>1. CASE d = c
            BY <2>2, <5>1
          <5>2. CASE d # c
            BY <1>1, <1>3, <2>1, <2>2, <2>3, <3>2, <5>2 DEF OutgoingTakenOnce
          <5> QED
            BY <5>1, <5>2
        <4> QED
          BY <4>1, <4>2 DEF OutgoingTakenOnce
      <3> QED
        BY <2>4, <2>5, <3>4, <3>5
    <2> QED
      BY <2>9, <2>10
  <1>13. CASE UNCHANGED Ou!vars
    BY <1>3, <1>13 DEF Ou!vars, Ou!history, OutgoingOneRun, OutgoingFromOutbox, OutgoingInOnePlace,
       OutgoingTakenOnce
  <1> QED
    BY <1>4, <1>6, <1>7, <1>8, <1>10, <1>11, <1>12, <1>13 DEF Ou!Next, Ou!Serve, Ou!Lost, Ou!Restart

(* Undisturbed nothing is taken twice. *)
LEMMA OutgoingTwice == ASSUME OutgoingRecords, OutgoingUndisturbed PROVE Ou!TwiceOnlyDisturbed
  BY DEF OutgoingRecords, OutgoingUndisturbed, OutgoingTakenOnce, Ou!TwiceOnlyDisturbed

(* Each mail is worked on no more often than it was handed to SMTP: what   *)
(* was done to it and the requests that have that step before them are no  *)
(* more than the mails handed over.                                        *)
OutgoingStill(m, S) == {c \in Ou!Callers : request[c].mail = m /\ request[c].step \in S}
OutgoingNoMore(count, S) == \A m \in Messages : count[m] + Cardinality(OutgoingStill(m, S)) <= sends
OutgoingToLearn == {"smtp", "learn"}
OutgoingToCopy == {"smtp", "learn", "row"}
OutgoingToFile == {"smtp", "learn", "row", "file"}
OutgoingToAppend == {"smtp", "learn", "append"}
OutgoingCounted ==
    /\ sends \in 0 .. MaxSends /\ mode \in {"archive", "mirror"}
    /\ {learned, diffs, rows, files, appended} \subseteq [Messages -> Nat]
    /\ OutgoingNoMore(delivered, {"smtp"})
    /\ OutgoingNoMore(learned, OutgoingToLearn) /\ OutgoingNoMore(diffs, OutgoingToLearn)
    /\ OutgoingNoMore(rows, OutgoingToCopy) /\ OutgoingNoMore(files, OutgoingToFile)
    /\ OutgoingNoMore(appended, OutgoingToAppend)

LEMMA OutgoingFinite == Ou!RunsAssumption => IsFiniteSet(Ou!Callers)
  <1>1. Ou!RunsAssumption => IsFiniteSet(Runs)
    BY DEF Ou!RunsAssumption, Ou!IsFiniteSet, IsFiniteSet
  <1> QED
    BY <1>1, FS_AddElement DEF Ou!Callers

(* The number of requests before a step, when one comes, goes on or ends.  *)
LEMMA OutgoingFew ==
    ASSUME NEW C, IsFiniteSet(C), NEW U \in SUBSET C, NEW V \in SUBSET C, NEW c
    PROVE  /\ Cardinality(U) \in Nat /\ Cardinality(V) \in Nat
           /\ V \subseteq U => Cardinality(V) <= Cardinality(U)
           /\ V \subseteq U \cup {c} => Cardinality(V) <= Cardinality(U) + 1
           /\ V \subseteq U \ {c} /\ c \in U => Cardinality(V) + 1 <= Cardinality(U)
  <1>1. IsFiniteSet(U) /\ IsFiniteSet(V)
    BY FS_Subset
  <1>2. Cardinality(U) \in Nat /\ Cardinality(V) \in Nat
    BY <1>1, FS_CardinalityType
  <1>3. V \subseteq U => Cardinality(V) <= Cardinality(U)
    BY <1>1, FS_Subset
  <1>4. ASSUME V \subseteq U \cup {c} PROVE Cardinality(V) <= Cardinality(U) + 1
    <2>1. IsFiniteSet(U \cup {c}) /\ Cardinality(U \cup {c}) <= Cardinality(U) + 1
      BY <1>1, <1>2, FS_AddElement
    <2>2. Cardinality(V) <= Cardinality(U \cup {c}) /\ Cardinality(U \cup {c}) \in Nat
      BY <1>4, <2>1, FS_Subset, FS_CardinalityType
    <2> QED
      BY <1>2, <2>1, <2>2
  <1>5. ASSUME V \subseteq U \ {c}, c \in U PROVE Cardinality(V) + 1 <= Cardinality(U)
    <2>1. IsFiniteSet(U \ {c}) /\ Cardinality(U \ {c}) = Cardinality(U) - 1
      BY <1>1, <1>5, FS_RemoveElement
    <2>2. Cardinality(V) <= Cardinality(U \ {c}) /\ Cardinality(U \ {c}) \in Nat
      BY <1>5, <2>1, FS_Subset, FS_CardinalityType
    <2> QED
      BY <1>2, <2>1, <2>2
  <1> QED
    BY <1>2, <1>3, <1>4, <1>5

(* What is counted stays within the mails handed over when no request      *)
(* comes to the steps, when one more mail is handed over, and when a       *)
(* request leaves the steps with its mail counted.                         *)
LEMMA OutgoingStays ==
    ASSUME Ou!RunsAssumption, NEW n \in [Messages -> Nat], NEW n2 \in [Messages -> Nat], NEW S,
           OutgoingNoMore(n, S), sends \in Nat, sends' \in Nat,
           NEW U, U = [m \in Messages |-> OutgoingStill(m, S)'],
           \/ /\ n2 = n /\ sends' = sends
              /\ \A m \in Messages : U[m] \subseteq OutgoingStill(m, S)
           \/ /\ n2 = n /\ sends' = sends + 1
              /\ \E c \in Ou!Callers : \A m \in Messages : U[m] \subseteq OutgoingStill(m, S) \cup {c}
           \/ /\ sends' = sends
              /\ \E c \in Ou!Callers :
                   /\ n2 = Ou!Plus(n, request[c].mail)
                   /\ \A m \in Messages : U[m] \subseteq OutgoingStill(m, S)
                   /\ request[c].mail \in Messages => /\ c \in OutgoingStill(request[c].mail, S)
                                                      /\ c \notin U[request[c].mail]
    PROVE  \A m \in Messages : n2[m] + Cardinality(U[m]) <= sends'
  <1> SUFFICES ASSUME NEW m \in Messages PROVE n2[m] + Cardinality(U[m]) <= sends'
    OBVIOUS
  <1> DEFINE T == OutgoingStill(m, S)
  <1>1. T \subseteq Ou!Callers /\ U[m] \subseteq Ou!Callers /\ IsFiniteSet(Ou!Callers)
    BY OutgoingFinite DEF OutgoingStill
  <1>2. n[m] + Cardinality(T) <= sends /\ n[m] \in Nat /\ n2[m] \in Nat
    BY DEF OutgoingNoMore
  <1>3. \A c : /\ Cardinality(T) \in Nat /\ Cardinality(U[m]) \in Nat
               /\ U[m] \subseteq T => Cardinality(U[m]) <= Cardinality(T)
               /\ U[m] \subseteq T \cup {c} => Cardinality(U[m]) <= Cardinality(T) + 1
               /\ U[m] \subseteq T \ {c} /\ c \in T => Cardinality(U[m]) + 1 <= Cardinality(T)
    BY <1>1, OutgoingFew
  <1> HIDE DEF T
  <1>4. CASE n2 = n /\ sends' = sends /\ U[m] \subseteq T
    BY <1>2, <1>3, <1>4
  <1>5. CASE n2 = n /\ sends' = sends + 1 /\ \E c \in Ou!Callers : U[m] \subseteq T \cup {c}
    BY <1>2, <1>3, <1>5
  <1>6. ASSUME sends' = sends, NEW c \in Ou!Callers, n2 = Ou!Plus(n, request[c].mail), U[m] \subseteq T,
               request[c].mail = m => c \in T /\ c \notin U[m]
        PROVE  n2[m] + Cardinality(U[m]) <= sends'
    <2>1. CASE request[c].mail = m
      <3>1. n2[m] = n[m] + 1
        BY <1>6, <2>1 DEF Ou!Plus
      <3>2. Cardinality(U[m]) + 1 <= Cardinality(T) /\ Cardinality(T) \in Nat /\ Cardinality(U[m]) \in Nat
        BY <1>3, <1>6, <2>1
      <3> QED
        BY <1>2, <1>6, <3>1, <3>2
    <2>2. CASE request[c].mail # m
      <3>1. n2[m] = n[m]
        BY <1>6, <2>2 DEF Ou!Plus
      <3>2. Cardinality(U[m]) <= Cardinality(T) /\ Cardinality(T) \in Nat /\ Cardinality(U[m]) \in Nat
        BY <1>3, <1>6
      <3> QED
        BY <1>2, <1>6, <3>1, <3>2
    <2> QED
      BY <2>1, <2>2
  <1> QED
    BY <1>4, <1>5, <1>6 DEF T

(* The same, for a step seen from the requests. *)
OutgoingKeptSteps(S, C) ==
    \A d \in C : request'[d].step \in S => request'[d].mail = request[d].mail /\ request[d].step \in S
LEMMA OutgoingSameCount ==
    ASSUME Ou!RunsAssumption, NEW n \in [Messages -> Nat], NEW S, OutgoingNoMore(n, S), sends \in Nat,
           UNCHANGED sends, OutgoingKeptSteps(S, Ou!Callers)
    PROVE  \A m \in Messages : n[m] + Cardinality(OutgoingStill(m, S)') <= sends'
  <1> DEFINE U == [m \in Messages |-> OutgoingStill(m, S)']
  <1>1. \A m \in Messages : U[m] \subseteq OutgoingStill(m, S)
    BY DEF OutgoingStill, OutgoingKeptSteps
  <1>2. \A m \in Messages : U[m] = OutgoingStill(m, S)'
    OBVIOUS
  <1>3. U = [m \in Messages |-> OutgoingStill(m, S)']
    OBVIOUS
  <1> HIDE DEF U
  <1>4. \A m \in Messages : n[m] + Cardinality(U[m]) <= sends'
    BY <1>1, <1>3, OutgoingStays
  <1> QED
    BY <1>2, <1>4

LEMMA OutgoingOneMore ==
    ASSUME Ou!RunsAssumption, NEW n \in [Messages -> Nat], NEW S, OutgoingNoMore(n, S), sends \in Nat,
           sends' = sends + 1, NEW c \in Ou!Callers, OutgoingKeptSteps(S, Ou!Callers \ {c})
    PROVE  \A m \in Messages : n[m] + Cardinality(OutgoingStill(m, S)') <= sends'
  <1> DEFINE U == [m \in Messages |-> OutgoingStill(m, S)']
  <1>1. \A m \in Messages : U[m] \subseteq OutgoingStill(m, S) \cup {c}
    BY DEF OutgoingStill, OutgoingKeptSteps
  <1>2. \A m \in Messages : U[m] = OutgoingStill(m, S)'
    OBVIOUS
  <1>3. U = [m \in Messages |-> OutgoingStill(m, S)']
    OBVIOUS
  <1> HIDE DEF U
  <1>4. \A m \in Messages : n[m] + Cardinality(U[m]) <= sends'
    BY <1>1, <1>3, OutgoingStays
  <1> QED
    BY <1>2, <1>4

LEMMA OutgoingCountedOne ==
    ASSUME Ou!RunsAssumption, NEW n \in [Messages -> Nat], NEW n2 \in [Messages -> Nat], NEW S,
           OutgoingNoMore(n, S), sends \in Nat, UNCHANGED sends, NEW c \in Ou!Callers,
           n2 = Ou!Plus(n, request[c].mail), request[c].step \in S, request'[c].step \notin S,
           OutgoingKeptSteps(S, Ou!Callers \ {c})
    PROVE  \A m \in Messages : n2[m] + Cardinality(OutgoingStill(m, S)') <= sends'
  <1> DEFINE U == [m \in Messages |-> OutgoingStill(m, S)']
  <1>1. \A m \in Messages : U[m] \subseteq OutgoingStill(m, S)
    BY DEF OutgoingStill, OutgoingKeptSteps
  <1>2. \A m \in Messages : U[m] = OutgoingStill(m, S)' /\ c \notin U[m]
    BY DEF OutgoingStill
  <1>3. U = [m \in Messages |-> OutgoingStill(m, S)']
    OBVIOUS
  <1>4. c \in OutgoingStill(request[c].mail, S)
    BY DEF OutgoingStill
  <1> HIDE DEF U
  <1>5. \A m \in Messages : n2[m] + Cardinality(U[m]) <= sends'
    BY <1>1, <1>2, <1>3, <1>4, OutgoingStays
  <1> QED
    BY <1>2, <1>5

-----------------------------------------------------------------------------
LEMMA OutgoingCountedFirst == ASSUME Ou!RunsAssumption, Ou!BoundAssumption PROVE Ou!Init => OutgoingCounted
  <1> SUFFICES ASSUME Ou!Init PROVE OutgoingCounted
    OBVIOUS
  <1>1. \A m, S : S \subseteq OutgoingToFile \cup OutgoingToAppend => OutgoingStill(m, S) = {}
    BY DEF OutgoingStill, OutgoingToFile, OutgoingToAppend, Ou!Init, Ou!NoRequest
  <1>2. ASSUME NEW n, n = [m \in Messages |-> 0], NEW S \in SUBSET (OutgoingToFile \cup OutgoingToAppend)
        PROVE  OutgoingNoMore(n, S)
    BY <1>1, <1>2, FS_EmptySet DEF OutgoingNoMore, Ou!Init
  <1>3. /\ OutgoingToLearn \subseteq OutgoingToFile \cup OutgoingToAppend
        /\ OutgoingToCopy \subseteq OutgoingToFile \cup OutgoingToAppend
        /\ {"smtp"} \subseteq OutgoingToFile \cup OutgoingToAppend
    BY DEF OutgoingToLearn, OutgoingToCopy, OutgoingToFile, OutgoingToAppend
  <1>4. /\ delivered = [m \in Messages |-> 0] /\ learned = [m \in Messages |-> 0]
        /\ diffs = [m \in Messages |-> 0] /\ rows = [m \in Messages |-> 0]
        /\ files = [m \in Messages |-> 0] /\ appended = [m \in Messages |-> 0]
        /\ sends = 0 /\ mode \in {"archive", "mirror"} /\ MaxSends \in Nat
    BY DEF Ou!Init, Ou!BoundAssumption
  <1>5. {learned, diffs, rows, files, appended} \subseteq [Messages -> Nat] /\ sends \in 0 .. MaxSends
    BY <1>4
  <1> QED
    BY <1>2, <1>3, <1>4, <1>5 DEF OutgoingCounted

LEMMA OutgoingCountedStep ==
    ASSUME Ou!NoneAssumption, Ou!RunsAssumption, Ou!BoundAssumption, OutgoingRecords, OutgoingRequests,
           OutgoingCounted, [Ou!Next]_Ou!vars
    PROVE  OutgoingCounted'
  <1> DEFINE Sets == {{"smtp"}, OutgoingToLearn, OutgoingToCopy, OutgoingToFile, OutgoingToAppend}
  <1>1. /\ sends \in 0 .. MaxSends /\ mode \in {"archive", "mirror"} /\ sends \in Nat /\ MaxSends \in Nat
        /\ delivered \in [Messages -> Nat] /\ learned \in [Messages -> Nat] /\ diffs \in [Messages -> Nat]
        /\ rows \in [Messages -> Nat] /\ files \in [Messages -> Nat] /\ appended \in [Messages -> Nat]
        /\ OutgoingNoMore(delivered, {"smtp"})
        /\ OutgoingNoMore(learned, OutgoingToLearn) /\ OutgoingNoMore(diffs, OutgoingToLearn)
        /\ OutgoingNoMore(rows, OutgoingToCopy) /\ OutgoingNoMore(files, OutgoingToFile)
        /\ OutgoingNoMore(appended, OutgoingToAppend)
    BY DEF OutgoingCounted, OutgoingRecords, Ou!BoundAssumption
  <1>2. /\ \A S \in Sets : "smtp" \in S /\ S \cap {"none", "error", "saved", "unsaved"} = {}
        /\ \A S \in Sets : "file" \in S => "row" \in S
        /\ \A S \in Sets : {"row", "append"} \cap S # {} => "learn" \in S
        /\ OutgoingToLearn \in Sets /\ OutgoingToCopy \in Sets /\ OutgoingToFile \in Sets
        /\ OutgoingToAppend \in Sets /\ {"smtp"} \in Sets
    BY DEF OutgoingToLearn, OutgoingToCopy, OutgoingToFile, OutgoingToAppend
  <1>3. \A n, m : n \in [Messages -> Nat] => Ou!Plus(n, m) \in [Messages -> Nat]
    <2> SUFFICES ASSUME NEW n \in [Messages -> Nat], NEW m PROVE Ou!Plus(n, m) \in [Messages -> Nat]
      OBVIOUS
    <2>1. Ou!Plus(n, m) = [x \in Messages |-> IF x = m THEN n[x] + 1 ELSE n[x]]
      BY DEF Ou!Plus
    <2> QED
      BY <2>1
  (* What a step did not count. *)
  <1>4. ASSUME \/ UNCHANGED sends /\ \A S \in Sets : OutgoingKeptSteps(S, Ou!Callers)
               \/ /\ sends' = sends + 1
                  /\ \E c \in Ou!Callers : \A S \in Sets : OutgoingKeptSteps(S, Ou!Callers \ {c})
        PROVE  \A n \in [Messages -> Nat], S \in Sets : OutgoingNoMore(n, S) =>
                  \A m \in Messages : n[m] + Cardinality(OutgoingStill(m, S)') <= sends'
    BY <1>1, <1>4, OutgoingSameCount, OutgoingOneMore
  <1>5. ASSUME NEW c \in Ou!Callers, NEW s \in OutgoingSteps, Ou!Goes(c, s), request[c].step # "none"
        PROVE  /\ \A S : request[c].step \in S \/ s \notin S => OutgoingKeptSteps(S, Ou!Callers)
               /\ \A S : OutgoingKeptSteps(S, Ou!Callers \ {c})
               /\ request'[c].step = s
    BY <1>5, OutgoingGoing DEF OutgoingKeptSteps
  <1>6. ASSUME \A n \in [Messages -> Nat], S \in Sets : OutgoingNoMore(n, S) =>
                  \A m \in Messages : n[m] + Cardinality(OutgoingStill(m, S)') <= sends',
               UNCHANGED <<delivered, learned, diffs, rows, files, appended>>
        PROVE  /\ OutgoingNoMore(delivered, {"smtp"})'
               /\ OutgoingNoMore(learned, OutgoingToLearn)' /\ OutgoingNoMore(diffs, OutgoingToLearn)'
               /\ OutgoingNoMore(rows, OutgoingToCopy)' /\ OutgoingNoMore(files, OutgoingToFile)'
               /\ OutgoingNoMore(appended, OutgoingToAppend)'
    BY <1>1, <1>2, <1>6 DEF OutgoingNoMore
  <1>7. ASSUME NEW c \in Ou!Callers, NEW s \in OutgoingSteps, Ou!Goes(c, s), request[c].step # "none",
               UNCHANGED sends, NEW n \in [Messages -> Nat], NEW n2, NEW S \in Sets, OutgoingNoMore(n, S),
               \/ n2 = n /\ (request[c].step \in S \/ s \notin S)
               \/ n2 = Ou!Plus(n, request[c].mail) /\ request[c].step \in S /\ s \notin S
        PROVE  \A m \in Messages : n2[m] + Cardinality(OutgoingStill(m, S)') <= sends'
    <2>1. /\ request[c].step \in S \/ s \notin S => OutgoingKeptSteps(S, Ou!Callers)
          /\ OutgoingKeptSteps(S, Ou!Callers \ {c}) /\ request'[c].step = s
      BY <1>5, <1>7
    <2>2. CASE n2 = n /\ (request[c].step \in S \/ s \notin S)
      BY <1>1, <1>7, <2>1, <2>2, OutgoingSameCount
    <2>3. CASE n2 = Ou!Plus(n, request[c].mail) /\ request[c].step \in S /\ s \notin S
      <3>1. n2 \in [Messages -> Nat]
        BY <1>3, <2>3
      <3> QED
        BY <1>1, <1>7, <2>1, <2>3, <3>1, OutgoingCountedOne
    <2> QED
      BY <1>7, <2>2, <2>3
  <1>8. ASSUME sends' \in 0 .. MaxSends, UNCHANGED mode,
               {learned', diffs', rows', files', appended'} \subseteq [Messages -> Nat],
               \A m \in Messages : delivered'[m] + Cardinality(OutgoingStill(m, {"smtp"})') <= sends',
               \A m \in Messages : learned'[m] + Cardinality(OutgoingStill(m, OutgoingToLearn)') <= sends',
               \A m \in Messages : diffs'[m] + Cardinality(OutgoingStill(m, OutgoingToLearn)') <= sends',
               \A m \in Messages : rows'[m] + Cardinality(OutgoingStill(m, OutgoingToCopy)') <= sends',
               \A m \in Messages : files'[m] + Cardinality(OutgoingStill(m, OutgoingToFile)') <= sends',
               \A m \in Messages : appended'[m] + Cardinality(OutgoingStill(m, OutgoingToAppend)') <= sends'
        PROVE  OutgoingCounted'
    BY <1>1, <1>8 DEF OutgoingCounted, OutgoingNoMore
  (* Steps that count nothing. *)
  <1>9. ASSUME UNCHANGED <<mode, delivered, learned, diffs, rows, files, appended>>,
               sends' \in 0 .. MaxSends,
               \/ UNCHANGED sends /\ \A S \in Sets : OutgoingKeptSteps(S, Ou!Callers)
               \/ /\ sends' = sends + 1
                  /\ \E c \in Ou!Callers : \A S \in Sets : OutgoingKeptSteps(S, Ou!Callers \ {c})
        PROVE  OutgoingCounted'
    <2>1. \A n \in [Messages -> Nat], S \in Sets : OutgoingNoMore(n, S) =>
                  \A m \in Messages : n[m] + Cardinality(OutgoingStill(m, S)') <= sends'
      BY <1>4, <1>9
    <2> HIDE DEF Sets
    <2> QED
      BY <1>1, <1>2, <1>8, <1>9, <2>1
  <1> HIDE DEF Sets
  <1>10. ASSUME UNCHANGED request PROVE \A S \in Sets : OutgoingKeptSteps(S, Ou!Callers)
    BY <1>10 DEF OutgoingKeptSteps
  <1>11. ASSUME NEW m \in Messages, Ou!queueDraft(m) PROVE OutgoingCounted'
    BY <1>1, <1>9, <1>10, <1>11 DEF Ou!queueDraft, Ou!effects, Ou!copies, Ou!history
  <1>12. ASSUME NEW c \in Ou!Callers, NEW m, Ou!Post(c, m)
         PROVE  /\ sends' = sends + 1 /\ sends' \in 0 .. MaxSends
                /\ \E d \in Ou!Callers : \A S \in Sets : OutgoingKeptSteps(S, Ou!Callers \ {d})
    <2>1. \A d \in Ou!Callers \ {c} : request'[d] = request[d]
      BY <1>12 DEF Ou!Post, OutgoingRecords
    <2> QED
      BY <1>1, <1>12, <2>1 DEF Ou!Post, OutgoingKeptSteps
  <1>13. ASSUME NEW m \in Messages, Ou!handleSend(m) PROVE OutgoingCounted'
    BY <1>9, <1>12, <1>13 DEF Ou!handleSend, Ou!effects, Ou!copies, Ou!Callers
  <1>14. ASSUME NEW r \in Runs, Ou!Online(r) PROVE OutgoingCounted'
    BY <1>1, <1>9, <1>10, <1>14 DEF Ou!Online, Ou!effects, Ou!copies
  <1>15. ASSUME NEW r \in Runs, Ou!SendNext(r) PROVE OutgoingCounted'
    BY <1>9, <1>12, <1>15 DEF Ou!SendNext, Ou!effects, Ou!copies, Ou!Callers
  <1>16. ASSUME NEW c \in Ou!Callers, Ou!Done(c) PROVE \A S \in Sets : OutgoingKeptSteps(S, Ou!Callers)
    <2>1. \A d \in Ou!Callers : request'[d] = IF d = c THEN Ou!NoRequest ELSE request[d]
      BY <1>16 DEF Ou!Done, OutgoingRecords
    <2> QED
      BY <1>2, <2>1 DEF OutgoingKeptSteps, Ou!NoRequest
  <1>17. ASSUME NEW c \in Ou!Callers, Ou!Answered(c) \/ Ou!Lost(c) PROVE OutgoingCounted'
    BY <1>1, <1>9, <1>16, <1>17 DEF Ou!Answered, Ou!Lost, Ou!effects, Ou!copies
  <1>18. ASSUME Ou!Restart PROVE OutgoingCounted'
    <2>1. \A S \in Sets : OutgoingKeptSteps(S, Ou!Callers)
      BY <1>2, <1>18 DEF Ou!Restart, Ou!NoRequest, OutgoingKeptSteps, OutgoingRecords
    <2> QED
      BY <1>1, <1>9, <1>18, <2>1 DEF Ou!Restart, Ou!effects, Ou!copies
  <1>19. ASSUME NEW c \in Ou!Callers, Ou!send(c) PROVE OutgoingCounted'
    <2>1. PICK s \in {"learn", "error"} :
             /\ Ou!Goes(c, s) /\ request[c].step = "smtp"
             /\ (s = "error" /\ delivered' = delivered) \/ delivered' = Ou!Plus(delivered, request[c].mail)
             /\ UNCHANGED <<mode, learned, diffs, rows, files, appended, sends>>
      BY <1>19 DEF Ou!send, Ou!SmtpAccepts, Ou!effects, Ou!copies
    <2>2. s \in OutgoingSteps /\ "error" \notin OutgoingToFile \cup OutgoingToAppend
          /\ "learn" \in OutgoingToLearn \cap OutgoingToCopy \cap OutgoingToFile \cap OutgoingToAppend
      BY <2>1 DEF OutgoingSteps, OutgoingSent, OutgoingToLearn, OutgoingToCopy, OutgoingToFile,
         OutgoingToAppend
    <2>3. s \notin {"smtp"} /\ \A S \in Sets : request[c].step \in S
      BY <1>2, <2>1
    <2> QED
      BY <1>1, <1>2, <1>7, <1>8, <2>1, <2>2, <2>3
  <1>20. ASSUME NEW c \in Ou!Callers, Ou!Learn(c) PROVE OutgoingCounted'
    <2>1. PICK s \in {"row", "append"} :
             /\ Ou!Goes(c, s) /\ request[c].step = "learn"
             /\ learned' = Ou!Plus(learned, request[c].mail)
             /\ diffs' = diffs \/ diffs' = Ou!Plus(diffs, request[c].mail)
             /\ UNCHANGED <<mode, delivered, rows, files, appended, sends>>
      BY <1>20 DEF Ou!Learn, Ou!CopyStep, Ou!copies, Ou!history
    <2>2. /\ s \in OutgoingSteps /\ s \notin OutgoingToLearn /\ s # "smtp"
          /\ "learn" \in OutgoingToLearn \cap OutgoingToCopy \cap OutgoingToFile \cap OutgoingToAppend
      BY <2>1 DEF OutgoingSteps, OutgoingSent, OutgoingToLearn, OutgoingToCopy, OutgoingToFile,
         OutgoingToAppend
    <2>3. {learned', diffs', rows', files', appended'} \subseteq [Messages -> Nat]
      BY <1>1, <1>3, <2>1
    <2> QED
      BY <1>1, <1>2, <1>7, <1>8, <2>1, <2>2, <2>3
  <1>21. ASSUME NEW c \in Ou!Callers, Ou!GesendetRow(c) PROVE OutgoingCounted'
    <2>1. /\ Ou!Goes(c, "file") /\ request[c].step = "row"
          /\ rows' = rows \/ rows' = Ou!Plus(rows, request[c].mail)
          /\ UNCHANGED <<mode, delivered, learned, diffs, files, appended, sends>>
      BY <1>21 DEF Ou!GesendetRow, Ou!history
    <2>2. /\ "file" \in OutgoingSteps
          /\ "file" \notin {"smtp"} \cup OutgoingToLearn \cup OutgoingToCopy \cup OutgoingToAppend
          /\ "row" \in OutgoingToCopy \cap OutgoingToFile
      BY DEF OutgoingSteps, OutgoingSent, OutgoingToLearn, OutgoingToCopy, OutgoingToFile,
         OutgoingToAppend
    <2>3. {learned', diffs', rows', files', appended'} \subseteq [Messages -> Nat]
      BY <1>1, <1>3, <2>1
    <2> QED
      BY <1>1, <1>2, <1>7, <1>8, <2>1, <2>2, <2>3
  <1>22. ASSUME NEW c \in Ou!Callers, Ou!GesendetFile(c) PROVE OutgoingCounted'
    <2>1. /\ Ou!Goes(c, "saved") /\ request[c].step = "file"
          /\ files' = files \/ files' = Ou!Plus(files, request[c].mail)
          /\ UNCHANGED <<mode, delivered, learned, diffs, rows, appended, sends>>
      BY <1>22 DEF Ou!GesendetFile, Ou!history
    <2>2. /\ "saved" \in OutgoingSteps /\ "file" \in OutgoingToFile
          /\ \A S \in Sets : "saved" \notin S
      BY <1>2 DEF OutgoingSteps, OutgoingSent, OutgoingToFile
    <2>3. {learned', diffs', rows', files', appended'} \subseteq [Messages -> Nat]
      BY <1>1, <1>3, <2>1
    <2> QED
      BY <1>1, <1>2, <1>7, <1>8, <2>1, <2>2, <2>3
  <1>23. ASSUME NEW c \in Ou!Callers, Ou!append_message(c) PROVE OutgoingCounted'
    <2>1. PICK s \in {"saved", "unsaved"} :
             /\ Ou!Goes(c, s) /\ request[c].step = "append"
             /\ appended' = appended \/ appended' = Ou!Plus(appended, request[c].mail)
             /\ UNCHANGED <<mode, delivered, learned, diffs, rows, files, sends>>
      BY <1>23 DEF Ou!append_message, Ou!history
    <2>2. /\ s \in OutgoingSteps /\ "append" \in OutgoingToAppend
          /\ \A S \in Sets : s \notin S
      BY <1>2, <2>1 DEF OutgoingSteps, OutgoingSent, OutgoingToAppend
    <2>3. {learned', diffs', rows', files', appended'} \subseteq [Messages -> Nat]
      BY <1>1, <1>3, <2>1
    <2> QED
      BY <1>1, <1>2, <1>7, <1>8, <2>1, <2>2, <2>3
  <1>24. ASSUME UNCHANGED Ou!vars PROVE OutgoingCounted'
    BY <1>1, <1>9, <1>10, <1>24 DEF Ou!vars, Ou!effects, Ou!copies, Ou!history
  <1> QED
    BY <1>11, <1>13, <1>14, <1>15, <1>17, <1>18, <1>19, <1>20, <1>21, <1>22, <1>23,
       <1>24 DEF Ou!Next, Ou!Serve

LEMMA OutgoingTypeOK ==
    ASSUME Ou!RunsAssumption, Ou!BoundAssumption, OutgoingRecords, OutgoingCounted PROVE Ou!TypeOK
  <1>1. ASSUME NEW n \in [Messages -> Nat], NEW S, OutgoingNoMore(n, S) PROVE n \in Ou!Count
    <2>1. ASSUME NEW m \in Messages PROVE n[m] \in 0 .. MaxSends
      <3>1. Cardinality(OutgoingStill(m, S)) \in Nat
        BY OutgoingFinite, FS_Subset, FS_CardinalityType DEF OutgoingStill
      <3> QED
        BY <1>1, <3>1 DEF OutgoingNoMore, OutgoingCounted, Ou!BoundAssumption
    <2> QED
      BY <2>1 DEF Ou!Count
  <1>2. {delivered, learned, diffs, rows, files, appended} \subseteq Ou!Count
    BY <1>1 DEF OutgoingRecords, OutgoingCounted
  <1> QED
    BY <1>2 DEF Ou!TypeOK, OutgoingRecords, OutgoingCounted, OutgoingSteps, OutgoingSent

-----------------------------------------------------------------------------
(***************************************************************************)
(* The import of mbox files (api/import.rs).                               *)
(***************************************************************************)
ImportSteps == {"idle", "box", "mail", "number", "write", "insert"}
ImportSeeking == {"number", "write", "insert"}
ImportJobs == [step : ImportSteps, boxes : SUBSET Im!Folders, folder : Im!Folders \cup {Im!None}, next : Nat, number : Im!Numbers \cup {0}]

(* A request at a mail is at one of its mailbox; with a number, it has one. *)
ImportAtMail == \A r \in Importers :
             /\ job[r].step \in {"mail"} \cup ImportSeeking => job[r].folder \in Im!Folders /\ job[r].next > 0
             /\ job[r].step \in ImportSeeking => job[r].next <= Len(Box[job[r].folder])
             /\ job[r].step \in {"write", "insert"} => job[r].number \in Im!Numbers
(* What the provider has confirmed has the first number. *)
ImportConfirmedFirst == \A f \in Im!Folders : \A n \in DOMAIN rows[f] : rows[f][n].synced => n = 1
(* Nobody else adds the mail a request looked for, and it is not there. *)
ImportAlone == \A r \in Importers : \A mail : Im!Seeks(r, mail) /\ mail \notin Anonymous \cup raced =>
                   ~Im!HasMail(mail) /\ \A q \in Importers \ {r} : ~Im!Seeks(q, mail)
ImportInv == Im!TypeOK /\ ImportAtMail /\ ImportConfirmedFirst /\ ImportAlone /\ Im!NoSecondCopy

LEMMA ImportSingle == ASSUME NEW x PROVE DOMAIN <<x>> = {1} /\ <<x>>[1] = x
  OBVIOUS

LEMMA ImportBounded ==
    ASSUME Im!ImportAssumption
    PROVE  MaxRequests \in Nat /\ MaxErrors \in Nat /\ MaxCrashes \in Nat
  BY DEF Im!ImportAssumption

LEMMA ImportInitially == ASSUME Im!ImportAssumption PROVE Im!Init => ImportInv
  <1> SUFFICES ASSUME Im!Init PROVE ImportInv
    OBVIOUS
  <1>1. \A f \in Im!Folders : \A n \in DOMAIN rows[f] : n = 1 /\ rows[f][n] \in Im!Row /\ rows[f][n].synced
    <2> SUFFICES ASSUME NEW f \in Im!Folders, NEW n \in DOMAIN rows[f]
                 PROVE  n = 1 /\ rows[f][n] \in Im!Row /\ rows[f][n].synced
      OBVIOUS
    <2>1. PICK mail \in Im!Mails : rows[f] = <<[mail |-> mail, parts |-> mail, synced |-> TRUE]>>
      BY DEF Im!Init, Im!Fetched
    <2> DEFINE line == [mail |-> mail, parts |-> mail, synced |-> TRUE]
    <2>2. line \in Im!Row /\ line.synced
      BY DEF Im!Row
    <2> HIDE DEF line
    <2>3. n = 1 /\ rows[f][n] = line
      BY <2>1, ImportSingle DEF line
    <2> QED
      BY <2>2, <2>3
  <1>2. Im!Idle \in ImportJobs
    BY DEF Im!Idle, ImportJobs, ImportSteps, Im!Numbers
  <1>3. files \in [Im!Paths -> Im!Mails \cup {Im!None}]
    <2>1. \A p \in Im!Paths : p[1] \in Im!Folders
      BY DEF Im!Paths
    <2> QED
      BY <1>1, <2>1 DEF Im!Init, Im!Row
  <1>4. Im!TypeOK
    BY <1>1, <1>2, <1>3 DEF Im!TypeOK, Im!Init, Im!Numbers, Im!ImportAssumption, ImportJobs,
       ImportSteps
  <1>5. ImportAtMail /\ ImportAlone
    BY DEF Im!Init, Im!Idle, ImportAtMail, ImportAlone, Im!Seeks, ImportSeeking
  <1>6. Im!NoSecondCopy
    BY <1>1 DEF Im!NoSecondCopy, Im!Places
  <1> QED
    BY <1>1, <1>4, <1>5, <1>6 DEF ImportInv, ImportConfirmedFirst

LEMMA ImportMailOf ==
    ASSUME Im!ImportAssumption, Im!TypeOK, ImportAtMail, NEW r \in Importers,
           job[r].step \in ImportSeeking
    PROVE  Im!Mail(r) \in Im!Mails
  <1>1. job[r].folder \in Im!Folders /\ job[r].next \in 1 .. Len(Box[job[r].folder])
    BY DEF Im!TypeOK, ImportAtMail, ImportSeeking
  <1> QED
    BY <1>1 DEF Im!Mail, Im!ImportAssumption

LEMMA ImportPathOf ==
    ASSUME NEW f \in Im!Folders, NEW n \in Im!Numbers, NEW mail \in Im!Mails
    PROVE  Im!Path(f, n, mail) \in Im!Paths
  BY DEF Im!Path, Im!Paths

LEMMA ImportNumbered ==
    ASSUME Im!TypeOK, ImportConfirmedFirst, NEW f \in Im!Folders
    PROVE  Im!NextNumber(f) \in Im!Numbers
  <1>1. Im!Confirmed(f) \subseteq {1}
    BY DEF Im!Confirmed, ImportConfirmedFirst
  <1>2. CASE Im!Confirmed(f) = {}
    BY <1>2 DEF Im!NextNumber, Im!Numbers
  <1>3. CASE Im!Confirmed(f) = {1}
    <2>1. (CHOOSE n \in Im!Confirmed(f) : \A k \in Im!Confirmed(f) : k <= n) = 1
      BY <1>3
    <2> QED
      BY <1>3, <2>1 DEF Im!NextNumber, Im!Numbers
  <1> QED
    BY <1>1, <1>2, <1>3

(* The rows after one of them was written. *)
LEMMA ImportRewritten ==
    ASSUME Im!TypeOK, NEW f \in Im!Folders, NEW n \in Im!Numbers, NEW line \in Im!Row,
           rows' = Im!With(line, f, n)
    PROVE  /\ DOMAIN rows' = Im!Folders
           /\ \A g \in Im!Folders : DOMAIN rows'[g] = DOMAIN rows[g] \cup (IF g = f THEN {n} ELSE {})
           /\ \A g \in Im!Folders : \A k \in DOMAIN rows'[g] :
                  rows'[g][k] = IF g = f /\ k = n THEN line ELSE rows[g][k]
  BY DEF Im!With, Im!TypeOK

(* The row of a number changes, but neither its mail nor who knows it. *)
LEMMA ImportReplaced ==
    ASSUME Im!TypeOK, ImportConfirmedFirst, NEW f \in Im!Folders, NEW n \in DOMAIN rows[f],
           NEW line \in Im!Row,
           line.mail = rows[f][n].mail, line.synced = rows[f][n].synced, rows' = Im!With(line, f, n)
    PROVE  /\ DOMAIN rows' = Im!Folders
           /\ \A g \in Im!Folders : DOMAIN rows'[g] \subseteq Im!Numbers
           /\ \A g \in Im!Folders : \A k \in DOMAIN rows'[g] : rows'[g][k] \in Im!Row
           /\ ImportConfirmedFirst'
           /\ \A mail : Im!HasMail(mail)' <=> Im!HasMail(mail)
           /\ Im!NoSecondCopy /\ raced \subseteq raced' => Im!NoSecondCopy'
  <1>1. n \in Im!Numbers
    BY DEF Im!TypeOK
  <1>2. /\ DOMAIN rows' = Im!Folders
        /\ \A g \in Im!Folders : DOMAIN rows'[g] = DOMAIN rows[g]
        /\ \A g \in Im!Folders : \A k \in DOMAIN rows'[g] :
               rows'[g][k] = IF g = f /\ k = n THEN line ELSE rows[g][k]
    <2>1. \A g \in Im!Folders : DOMAIN rows[g] \cup (IF g = f THEN {n} ELSE {}) = DOMAIN rows[g]
      OBVIOUS
    <2> QED
      BY <1>1, <2>1, ImportRewritten
  <1>3. \A g \in Im!Folders : \A k \in DOMAIN rows'[g] :
            rows'[g][k].mail = rows[g][k].mail /\ rows'[g][k].synced = rows[g][k].synced
    BY <1>2
  <1>4. \A mail : Im!Places(mail)' = Im!Places(mail)
    BY <1>2, <1>3 DEF Im!Places, Im!Numbers
  <1>5. Im!NoSecondCopy /\ raced \subseteq raced' => Im!NoSecondCopy'
    <2> SUFFICES ASSUME Im!NoSecondCopy, raced \subseteq raced',
                        NEW mail \in Im!Mails \ (Anonymous \cup raced'), NEW p \in Im!Places(mail)'
                 PROVE  rows'[p[1]][p[2]].synced \/ Im!Places(mail)' = {p}
      BY DEF Im!NoSecondCopy
    <2>1. p \in Im!Places(mail) /\ mail \notin raced
      BY <1>4
    <2>2. p[1] \in Im!Folders /\ p[2] \in DOMAIN rows'[p[1]]
      BY <1>2, <2>1 DEF Im!Places
    <2> QED
      BY <1>3, <1>4, <2>1, <2>2 DEF Im!NoSecondCopy
  <1> QED
    BY <1>2, <1>3, <1>5 DEF Im!TypeOK, ImportConfirmedFirst, Im!HasMail

(* A row is added: of a mail that is nowhere, or one excused. *)
LEMMA ImportAdded ==
    ASSUME Im!TypeOK, ImportConfirmedFirst, NEW f \in Im!Folders,
           NEW n \in Im!Numbers \ DOMAIN rows[f], NEW line \in Im!Row,
           ~line.synced, rows' = Im!With(line, f, n),
           line.mail \notin Anonymous \cup raced' => ~Im!HasMail(line.mail)
    PROVE  /\ DOMAIN rows' = Im!Folders
           /\ \A g \in Im!Folders : DOMAIN rows'[g] \subseteq Im!Numbers
           /\ \A g \in Im!Folders : \A k \in DOMAIN rows'[g] : rows'[g][k] \in Im!Row
           /\ ImportConfirmedFirst'
           /\ \A mail : mail # line.mail => (Im!HasMail(mail)' <=> Im!HasMail(mail))
           /\ Im!NoSecondCopy /\ raced \subseteq raced' => Im!NoSecondCopy'
  <1>1. /\ DOMAIN rows' = Im!Folders
        /\ \A g \in Im!Folders : DOMAIN rows'[g] = DOMAIN rows[g] \cup (IF g = f THEN {n} ELSE {})
        /\ \A g \in Im!Folders : \A k \in DOMAIN rows'[g] :
               rows'[g][k] = IF g = f /\ k = n THEN line ELSE rows[g][k]
    BY ImportRewritten
  <1>2. \A g \in Im!Folders : \A k \in DOMAIN rows[g] : rows'[g][k] = rows[g][k]
    BY <1>1
  <1>3. \A mail : mail # line.mail => Im!Places(mail)' = Im!Places(mail)
    BY <1>1 DEF Im!Places, Im!Numbers
  <1>4. Im!NoSecondCopy /\ raced \subseteq raced' => Im!NoSecondCopy'
    <2> SUFFICES ASSUME Im!NoSecondCopy, raced \subseteq raced',
                        NEW mail \in Im!Mails \ (Anonymous \cup raced'), NEW p \in Im!Places(mail)'
                 PROVE  rows'[p[1]][p[2]].synced \/ Im!Places(mail)' = {p}
      BY DEF Im!NoSecondCopy
    <2>1. CASE mail # line.mail
      <3>1. p \in Im!Places(mail) /\ mail \notin raced
        BY <1>3, <2>1
      <3>2. p[1] \in Im!Folders /\ p[2] \in DOMAIN rows[p[1]]
        BY <3>1 DEF Im!Places
      <3> QED
        BY <1>2, <1>3, <2>1, <3>1, <3>2 DEF Im!NoSecondCopy
    <2>2. CASE mail = line.mail
      <3>1. Im!Places(mail)' \subseteq {<<f, n>>}
        BY <1>1, <2>2 DEF Im!HasMail, Im!Places, Im!Numbers
      <3> QED
        BY <3>1
    <2> QED
      BY <2>1, <2>2
  <1>5. \A mail : mail # line.mail => (Im!HasMail(mail)' <=> Im!HasMail(mail))
    BY <1>1, <1>2 DEF Im!HasMail
  <1> QED
    BY <1>1, <1>4, <1>5 DEF Im!TypeOK, ImportConfirmedFirst

(* A request goes on to another step; who seeks a mail newly, does so alone*)
(* or has it excused.                                                      *)
LEMMA ImportGoing ==
    ASSUME ImportInv, NEW r \in Importers, NEW j \in ImportJobs, job' = [job EXCEPT ![r] = j],
           UNCHANGED rows, raced \subseteq raced', raced' \subseteq Im!Mails,
           j.step \in {"mail"} \cup ImportSeeking => j.folder \in Im!Folders /\ j.next > 0,
           j.step \in ImportSeeking => j.next <= Len(Box[j.folder]),
           j.step \in {"write", "insert"} => j.number \in Im!Numbers,
           \/ j.step \notin ImportSeeking
           \/ job[r].step \in ImportSeeking /\ j.folder = job[r].folder /\ j.next = job[r].next
           \/ /\ Box[j.folder][j.next] \notin Anonymous => ~Im!HasMail(Box[j.folder][j.next])
              /\ \A q \in Importers \ {r} : Im!Seeks(q, Box[j.folder][j.next]) => Box[j.folder][j.next] \in raced'
    PROVE  /\ job' \in [Importers -> ImportJobs] /\ ImportAtMail' /\ ImportConfirmedFirst'
           /\ ImportAlone' /\ Im!NoSecondCopy'
  <1>1. /\ job' \in [Importers -> ImportJobs]
        /\ \A q \in Importers : job'[q] = IF q = r THEN j ELSE job[q]
    BY DEF ImportInv, Im!TypeOK, ImportJobs, ImportSteps
  <1>2. ImportAtMail'
    BY <1>1 DEF ImportInv, ImportAtMail
  <1>3. ImportConfirmedFirst' /\ Im!NoSecondCopy'
    BY DEF ImportInv, ImportConfirmedFirst, Im!NoSecondCopy, Im!Places
  <1>4. \A mail : Im!HasMail(mail)' <=> Im!HasMail(mail)
    BY DEF Im!HasMail
  <1>5. /\ \A q \in Importers : \A mail : q # r => (Im!Seeks(q, mail)' <=> Im!Seeks(q, mail))
        /\ \A mail : Im!Seeks(r, mail)' <=> (j.step \in ImportSeeking /\ Box[j.folder][j.next] = mail)
    BY <1>1 DEF Im!Mail, Im!Seeks, ImportSeeking
  <1>6. ASSUME NEW p \in Importers, NEW mail, Im!Seeks(p, mail)', mail \notin Anonymous \cup raced'
        PROVE  ~Im!HasMail(mail)' /\ \A q \in Importers \ {p} : ~Im!Seeks(q, mail)'
    <2>1. CASE j.step \notin ImportSeeking
      <3>1. p # r /\ Im!Seeks(p, mail) /\ mail \notin Anonymous \cup raced
        BY <1>5, <1>6, <2>1
      <3>2. ~Im!HasMail(mail) /\ \A q \in Importers \ {p} : ~Im!Seeks(q, mail)
        BY <3>1 DEF ImportInv, ImportAlone
      <3>3. ~Im!Seeks(r, mail)'
        BY <1>5, <2>1
      <3> QED
        BY <1>4, <1>5, <3>2, <3>3
    <2>2. CASE job[r].step \in ImportSeeking /\ j.folder = job[r].folder /\ j.next = job[r].next
      <3>1. \A q \in Importers : Im!Seeks(q, mail)' => Im!Seeks(q, mail)
        BY <1>5, <2>2 DEF Im!Mail, Im!Seeks, ImportSeeking
      <3> QED
        BY <1>4, <1>6, <3>1 DEF ImportInv, ImportAlone
    <2>3. CASE /\ j.step \in ImportSeeking
               /\ Box[j.folder][j.next] \notin Anonymous => ~Im!HasMail(Box[j.folder][j.next])
               /\ \A q \in Importers \ {r} : Im!Seeks(q, Box[j.folder][j.next]) => Box[j.folder][j.next] \in raced'
      <3>1. CASE p = r
        BY <1>4, <1>5, <1>6, <2>3, <3>1
      <3>2. CASE p # r
        <4>1. Im!Seeks(p, mail) /\ ~Im!HasMail(mail) /\ \A q \in Importers \ {p} : ~Im!Seeks(q, mail)
          <5>1. Im!Seeks(p, mail) /\ mail \notin Anonymous \cup raced
            BY <1>5, <1>6, <3>2
          <5> QED
            BY <5>1 DEF ImportInv, ImportAlone
        <4>2. mail # Box[j.folder][j.next]
          BY <1>6, <2>3, <3>2, <4>1
        <4> QED
          <5>1. ~Im!HasMail(mail)'
            BY <1>4, <4>1
          <5>2. ~Im!Seeks(r, mail)'
            BY <1>5, <4>2
          <5> QED
            BY <1>5, <3>2, <4>1, <5>1, <5>2
      <3> QED
        BY <3>1, <3>2
    <2> QED
      BY <2>1, <2>2, <2>3
  <1>7. ImportAlone'
    BY <1>6 DEF ImportAlone
  <1> QED
    BY <1>1, <1>2, <1>3, <1>7

(* The row a request inserts, or the one that has its number already. *)
LEMMA ImportInserting ==
    ASSUME Im!ImportAssumption, ImportInv, NEW r \in Importers, job[r].step = "insert",
           NEW line \in {Im!Inserted(r), [Im!Inserted(r) EXCEPT !.parts = Im!Mail(r)]},
           rows' = Im!With(line, job[r].folder, job[r].number), UNCHANGED raced
    PROVE  /\ DOMAIN rows' = Im!Folders
           /\ \A g \in Im!Folders : DOMAIN rows'[g] \subseteq Im!Numbers
           /\ \A g \in Im!Folders : \A k \in DOMAIN rows'[g] : rows'[g][k] \in Im!Row
           /\ ImportConfirmedFirst' /\ Im!NoSecondCopy'
           /\ \A mail : mail # Im!Mail(r) => (Im!HasMail(mail)' <=> Im!HasMail(mail))
  <1> DEFINE f == job[r].folder
             n == job[r].number
  <1>1. f \in Im!Folders /\ n \in Im!Numbers /\ Im!Mail(r) \in Im!Mails
    BY ImportMailOf DEF ImportInv, ImportAtMail, ImportSeeking
  <1>2. CASE n \in DOMAIN rows[f]
    <2>1. rows[f][n] \in Im!Row /\ Im!Inserted(r) = rows[f][n]
      BY <1>1, <1>2 DEF ImportInv, Im!TypeOK, Im!Inserted
    <2>2. line \in {rows[f][n], [rows[f][n] EXCEPT !.parts = Im!Mail(r)]}
      BY <2>1
    <2>3. line \in Im!Row /\ line.mail = rows[f][n].mail /\ line.synced = rows[f][n].synced
      <3>1. \A x \in Im!Row : [x EXCEPT !.parts = Im!Mail(r)] \in Im!Row /\ [x EXCEPT !.parts = Im!Mail(r)].mail = x.mail
                                                             /\ [x EXCEPT !.parts = Im!Mail(r)].synced = x.synced
        BY <1>1 DEF Im!Row
      <3> QED
        BY <2>1, <2>2, <3>1
    <2> QED
      BY <1>1, <1>2, <2>3, ImportReplaced DEF ImportInv
  <1>3. CASE n \notin DOMAIN rows[f]
    <2>1. Im!Inserted(r) = [mail |-> Im!Mail(r), parts |-> Im!None, synced |-> FALSE]
      BY <1>3 DEF Im!Inserted
    <2>2. line \in Im!Row /\ line.mail = Im!Mail(r) /\ ~line.synced
      <3> DEFINE x == [mail |-> Im!Mail(r), parts |-> Im!None, synced |-> FALSE]
      <3>1. /\ x \in Im!Row /\ [x EXCEPT !.parts = Im!Mail(r)] \in Im!Row
            /\ [x EXCEPT !.parts = Im!Mail(r)].mail = Im!Mail(r)
            /\ x.mail = Im!Mail(r) /\ ~x.synced /\ ~[x EXCEPT !.parts = Im!Mail(r)].synced
        BY <1>1 DEF Im!Row
      <3> HIDE DEF x
      <3> QED
        BY <2>1, <3>1 DEF x
    <2>3. Im!Mail(r) \notin Anonymous \cup raced' => ~Im!HasMail(Im!Mail(r))
      BY DEF ImportInv, ImportAlone, Im!Seeks
    <2> QED
      BY <1>1, <1>3, <2>2, <2>3, ImportAdded DEF ImportInv
  <1> QED
    BY <1>2, <1>3

LEMMA ImportFailing ==
    ASSUME Im!ImportAssumption, Im!TypeOK, Im!Fails
    PROVE  errors' \in 0 .. MaxErrors
  BY ImportBounded DEF Im!Fails, Im!TypeOK

LEMMA ImportNextJob ==
    ASSUME NEW j \in ImportJobs
    PROVE  LET k == [j EXCEPT !.step = "mail", !.next = @ + 1, !.number = 0] IN
           k \in ImportJobs /\ k.step = "mail" /\ k.folder = j.folder /\ k.next > 0
  <1>1. j.next \in Nat /\ j.next + 1 \in Nat /\ j.next + 1 > 0
    BY DEF ImportJobs
  <1> QED
    BY <1>1 DEF ImportJobs, ImportSteps

LEMMA ImportInductive == ASSUME Im!ImportAssumption, ImportInv, [Im!Next]_Im!vars PROVE ImportInv'
  <1>1. /\ \A r \in Importers : job[r] \in ImportJobs
        /\ Im!Idle \in ImportJobs /\ Im!Idle.step = "idle"
    BY DEF ImportInv, Im!TypeOK, ImportJobs, ImportSteps, Im!Idle, Im!Numbers
  <1>2. ASSUME NEW r \in Importers, NEW j \in ImportJobs, job' = [job EXCEPT ![r] = j],
               UNCHANGED <<rows, files, imported, crashes>>, raced \subseteq raced', raced' \subseteq Im!Mails,
               requests' \in 0 .. MaxRequests, errors' \in 0 .. MaxErrors,
               job' \in [Importers -> ImportJobs] /\ ImportAtMail' /\ ImportConfirmedFirst' /\ ImportAlone' /\ Im!NoSecondCopy'
        PROVE  ImportInv'
    BY <1>2 DEF ImportInv, Im!TypeOK, ImportJobs, ImportSteps
  <1>3. ASSUME NEW r \in Importers, NEW boxes \in SUBSET Im!Folders, Im!Import(r, boxes)
        PROVE  ImportInv'
    <2>1. /\ [Im!Idle EXCEPT !.step = "box", !.boxes = boxes] \in ImportJobs
          /\ [Im!Idle EXCEPT !.step = "box", !.boxes = boxes].step = "box"
      BY <1>1 DEF ImportJobs, ImportSteps
    <2>2. requests' \in 0 .. MaxRequests
      BY <1>3, ImportBounded DEF Im!Import, ImportInv, Im!TypeOK
    <2> QED
      BY <1>2, <1>3, <2>1, <2>2, ImportGoing DEF Im!Import, ImportInv, Im!TypeOK, ImportSeeking
  <1>4. ASSUME NEW r \in Importers, job' = [job EXCEPT ![r] = Im!Idle],
               UNCHANGED <<rows, files, imported, raced, requests, crashes>>, errors' \in 0 .. MaxErrors
        PROVE  ImportInv'
    BY <1>1, <1>2, <1>4, ImportGoing DEF ImportInv, Im!TypeOK, ImportSeeking
  <1>5. ASSUME NEW r \in Importers, Im!NextBox(r) PROVE ImportInv'
    <2>1. CASE Im!Fails /\ job' = [job EXCEPT ![r] = Im!Idle]
      <3>1. errors' \in 0 .. MaxErrors /\ UNCHANGED <<rows, files, imported, requests, crashes>>
        BY <1>5, <2>1, ImportFailing DEF Im!NextBox, ImportInv
      <3>2. UNCHANGED raced
        BY <1>5 DEF Im!NextBox
      <3> QED
        BY <1>4, <2>1, <3>1, <3>2
    <2>2. ASSUME NEW f \in job[r].boxes, UNCHANGED errors,
                 job' = [job EXCEPT ![r] = [Im!Idle EXCEPT !.step = "mail", !.folder = f, !.boxes = job[r].boxes \ {f}]]
          PROVE  ImportInv'
      <3> DEFINE j == [Im!Idle EXCEPT !.step = "mail", !.folder = f, !.boxes = job[r].boxes \ {f}]
      <3>1. j \in ImportJobs /\ j.step = "mail" /\ j.folder \in Im!Folders /\ j.next = 1
        BY <1>1 DEF ImportJobs, ImportSteps, Im!Idle, Im!Numbers
      <3> HIDE DEF j
      <3>2. /\ UNCHANGED <<rows, files, imported, raced, requests, crashes>>
            /\ raced \subseteq Im!Mails
            /\ requests \in 0 .. MaxRequests /\ errors \in 0 .. MaxErrors
            /\ j.step \notin ImportSeeking
        BY <1>5, <3>1 DEF Im!NextBox, ImportInv, Im!TypeOK, ImportSeeking
      <3>3. job' = [job EXCEPT ![r] = j] /\ UNCHANGED errors
        BY <2>2 DEF j
      <3>4. /\ job' \in [Importers -> ImportJobs] /\ ImportAtMail' /\ ImportConfirmedFirst'
            /\ ImportAlone' /\ Im!NoSecondCopy'
        <4>1. raced \subseteq raced' /\ raced' \subseteq Im!Mails /\ UNCHANGED rows /\ j.next > 0
          BY <3>1, <3>2
        <4>2. /\ j.step \notin {"write", "insert"} /\ j.step \notin ImportSeeking
              /\ j.folder \in Im!Folders
          BY <3>1 DEF ImportSeeking
        <4> QED
          BY <3>1, <3>3, <4>1, <4>2, ImportGoing
      <3> QED
        BY <1>2, <3>1, <3>2, <3>3, <3>4
    <2> QED
      BY <1>5, <2>1, <2>2 DEF Im!NextBox
  <1>6. ASSUME NEW r \in Importers, Im!Answer(r) PROVE ImportInv'
    BY <1>4, <1>6 DEF Im!Answer, Im!Bounds, ImportInv, Im!TypeOK
  <1>7. ASSUME NEW r \in Importers, Im!NextMail(r) PROVE ImportInv'
    <2> DEFINE further == [job[r] EXCEPT !.step = "mail", !.next = @ + 1, !.number = 0]
               to(stage) == [job[r] EXCEPT !.step = stage]
    <2>1. /\ job[r] \in ImportJobs /\ job[r].step = "mail" /\ job[r].folder \in Im!Folders
          /\ job[r].next > 0
          /\ UNCHANGED <<requests, errors, crashes, rows, files, imported>>
      BY <1>1, <1>7 DEF Im!NextMail, Im!Is, ImportInv, ImportAtMail, Im!Bounds
    <2>2. /\ further \in ImportJobs /\ further.step = "mail" /\ further.folder \in Im!Folders
          /\ further.next > 0
      BY <2>1, ImportNextJob
    <2>3. \A stage \in ImportSteps : /\ to(stage) \in ImportJobs /\ to(stage).step = stage
                                   /\ to(stage).folder = job[r].folder
                                   /\ to(stage).next = job[r].next
      BY <2>1 DEF ImportJobs, ImportSteps
    <2> HIDE DEF further, to
    <2>4. CASE job' = [job EXCEPT ![r] = to("box")] /\ UNCHANGED raced
      BY <1>2, <2>1, <2>3, <2>4, ImportGoing DEF ImportInv, Im!TypeOK, ImportSeeking, ImportSteps
    <2>5. CASE job' = [job EXCEPT ![r] = further] /\ UNCHANGED raced
      BY <1>2, <2>1, <2>2, <2>5, ImportGoing DEF ImportInv, Im!TypeOK, ImportSeeking, ImportSteps
    <2>6. CASE /\ job[r].next <= Len(Box[job[r].folder]) /\ ~Im!Duplicate(Im!Mail(r)) /\ job' = [job EXCEPT ![r] = to("number")]
               /\ raced' = IF \E q \in Importers \ {r} : Im!Seeks(q, Im!Mail(r)) THEN raced \cup {Im!Mail(r)} ELSE raced
      <3>1. Im!Mail(r) \in Im!Mails /\ Im!Mail(r) = Box[job[r].folder][job[r].next]
        <4>1. job[r].next \in 1 .. Len(Box[job[r].folder])
          BY <2>1, <2>6 DEF ImportJobs
        <4>2. Box[job[r].folder] \in Seq(Im!Mails)
          BY <2>1 DEF Im!ImportAssumption
        <4> QED
          BY <4>1, <4>2 DEF Im!Mail
      <3>2. raced \subseteq raced' /\ raced' \subseteq Im!Mails
        BY <2>6, <3>1 DEF ImportInv, Im!TypeOK
      <3>3. /\ to("number").step = "number" /\ to("number") \in ImportJobs
            /\ to("number").folder = job[r].folder /\ to("number").next = job[r].next
        BY <2>3 DEF ImportSteps
      <3>4. /\ Im!Mail(r) \notin Anonymous => ~Im!HasMail(Im!Mail(r))
            /\ \A q \in Importers \ {r} : Im!Seeks(q, Im!Mail(r)) => Im!Mail(r) \in raced'
        BY <2>6 DEF Im!Duplicate
      <3>5. /\ job' \in [Importers -> ImportJobs] /\ ImportAtMail' /\ ImportConfirmedFirst'
            /\ ImportAlone' /\ Im!NoSecondCopy'
        BY <2>1, <2>6, <3>1, <3>2, <3>3, <3>4, ImportGoing
      <3> QED
        BY <1>2, <2>1, <2>6, <3>2, <3>3, <3>5 DEF ImportInv, Im!TypeOK
    <2> QED
      BY <1>7, <2>4, <2>5, <2>6 DEF Im!NextMail, Im!Onward, Im!Go, further, to
  <1>8. ASSUME NEW r \in Importers, Im!Number(r) PROVE ImportInv'
    <2> DEFINE j == [job[r] EXCEPT !.step = "write", !.number = Im!NextNumber(job[r].folder)]
    <2>1. /\ job[r] \in ImportJobs /\ job[r].step = "number" /\ job[r].folder \in Im!Folders
          /\ job[r].next > 0
          /\ job[r].next <= Len(Box[job[r].folder])
          /\ UNCHANGED <<requests, errors, crashes, rows, files, imported, raced>>
          /\ job' = [job EXCEPT ![r] = j]
      BY <1>1, <1>8 DEF Im!Number, Im!Is, ImportInv, ImportAtMail, Im!Bounds, ImportSeeking
    <2>2. Im!NextNumber(job[r].folder) \in Im!Numbers
      BY <2>1, ImportNumbered DEF ImportInv
    <2>3. /\ j \in ImportJobs /\ j.step = "write" /\ j.folder = job[r].folder
          /\ j.next = job[r].next /\ j.number \in Im!Numbers
      BY <2>1, <2>2 DEF ImportJobs, ImportSteps
    <2> HIDE DEF j
    <2>4. /\ job' \in [Importers -> ImportJobs] /\ ImportAtMail' /\ ImportConfirmedFirst'
          /\ ImportAlone' /\ Im!NoSecondCopy'
      BY <2>1, <2>3, ImportGoing DEF ImportSeeking, ImportInv, Im!TypeOK
    <2> QED
      BY <1>2, <2>1, <2>3, <2>4 DEF ImportInv, Im!TypeOK
  <1>9. ASSUME NEW r \in Importers, Im!WriteFile(r) PROVE ImportInv'
    <2>1. CASE Im!Fails /\ job' = [job EXCEPT ![r] = Im!Idle] /\ UNCHANGED files
      <3>1. errors' \in 0 .. MaxErrors /\ UNCHANGED <<rows, imported, requests, crashes>>
        BY <1>9, <2>1, ImportFailing DEF Im!WriteFile, ImportInv
      <3>2. UNCHANGED raced
        BY <1>9 DEF Im!WriteFile
      <3> QED
        BY <1>4, <2>1, <3>1, <3>2
    <2>2. CASE /\ files' = [files EXCEPT ![Im!Path(job[r].folder, job[r].number, Im!Mail(r))] = Im!Mail(r)]
               /\ Im!Go(r, "insert") /\ UNCHANGED errors
      <3> DEFINE j == [job[r] EXCEPT !.step = "insert"]
      <3>1. /\ job[r] \in ImportJobs /\ job[r].step = "write" /\ job[r].folder \in Im!Folders
            /\ job[r].next > 0
            /\ job[r].next <= Len(Box[job[r].folder]) /\ job[r].number \in Im!Numbers
            /\ UNCHANGED <<requests, errors, crashes, rows, imported, raced>>
            /\ job' = [job EXCEPT ![r] = j]
        BY <1>1, <1>9, <2>2 DEF Im!WriteFile, Im!Go, Im!Is, ImportInv, ImportAtMail, ImportSeeking
      <3>2. /\ j \in ImportJobs /\ j.step = "insert" /\ j.folder = job[r].folder
            /\ j.next = job[r].next /\ j.number = job[r].number
        BY <3>1 DEF ImportJobs, ImportSteps
      <3> HIDE DEF j
      <3>3. /\ job' \in [Importers -> ImportJobs] /\ ImportAtMail' /\ ImportConfirmedFirst'
            /\ ImportAlone' /\ Im!NoSecondCopy'
        BY <3>1, <3>2, ImportGoing DEF ImportSeeking, ImportInv, Im!TypeOK
      <3>4. Im!Mail(r) \in Im!Mails
        BY <3>1, ImportMailOf DEF ImportInv, ImportSeeking
      <3>5. files' \in [Im!Paths -> Im!Mails \cup {Im!None}]
        BY <2>2, <3>4 DEF ImportInv, Im!TypeOK
      <3> QED
        BY <3>1, <3>3, <3>5 DEF ImportInv, Im!TypeOK, ImportJobs, ImportSteps
    <2> QED
      BY <1>9, <2>1, <2>2 DEF Im!WriteFile
  <1>10. ASSUME NEW r \in Importers, Im!Insert(r) PROVE ImportInv'
    <2> DEFINE j == [job[r] EXCEPT !.step = "mail", !.next = @ + 1, !.number = 0]
    <2>1. /\ job[r] \in ImportJobs /\ job[r].step = "insert" /\ job[r].folder \in Im!Folders
          /\ job[r].next > 0
          /\ UNCHANGED <<files, raced, requests, errors, crashes>> /\ job' = [job EXCEPT ![r] = j]
          /\ rows' = Im!With([Im!Inserted(r) EXCEPT !.parts = Im!Mail(r)], job[r].folder, job[r].number)
      BY <1>1, <1>10 DEF Im!Insert, Im!Onward, Im!Is, ImportInv, ImportAtMail, ImportSeeking,
         Im!Bounds
    <2>2. j \in ImportJobs /\ j.step = "mail" /\ j.folder \in Im!Folders /\ j.next > 0
      BY <2>1, ImportNextJob
    <2> HIDE DEF j
    <2>3. Im!Mail(r) \in Im!Mails /\ imported' \subseteq Im!Mails
      BY <1>10, <2>1, ImportMailOf DEF ImportInv, Im!TypeOK, ImportSeeking, Im!Insert
    <2>4. /\ DOMAIN rows' = Im!Folders /\ \A g \in Im!Folders : DOMAIN rows'[g] \subseteq Im!Numbers
          /\ \A g \in Im!Folders : \A k \in DOMAIN rows'[g] : rows'[g][k] \in Im!Row
          /\ ImportConfirmedFirst' /\ Im!NoSecondCopy'
          /\ \A mail : mail # Im!Mail(r) => (Im!HasMail(mail)' <=> Im!HasMail(mail))
      BY <2>1, ImportInserting
    <2>5. /\ job' \in [Importers -> ImportJobs]
          /\ \A q \in Importers : job'[q] = IF q = r THEN j ELSE job[q]
      BY <1>1, <2>1, <2>2 DEF ImportInv, Im!TypeOK
    <2>6. ImportAtMail'
      BY <2>2, <2>5 DEF ImportInv, ImportAtMail, ImportSeeking
    <2>7. \A q \in Importers : \A mail : Im!Seeks(q, mail)' => q # r /\ Im!Seeks(q, mail)
      BY <2>2, <2>5 DEF Im!Seeks, Im!Mail
    <2>8. Im!Seeks(r, Im!Mail(r))
      BY <2>1 DEF Im!Seeks
    <2>9. ImportAlone'
      <3> SUFFICES ASSUME NEW q \in Importers, NEW mail, Im!Seeks(q, mail)',
                          mail \notin Anonymous \cup raced'
                   PROVE  ~Im!HasMail(mail)' /\ \A p \in Importers \ {q} : ~Im!Seeks(p, mail)'
        BY DEF ImportAlone
      <3>1. /\ q # r /\ Im!Seeks(q, mail) /\ ~Im!HasMail(mail)
            /\ \A p \in Importers \ {q} : ~Im!Seeks(p, mail)
        BY <2>1, <2>7 DEF ImportInv, ImportAlone
      <3>2. mail # Im!Mail(r)
        BY <2>8, <3>1
      <3> QED
        BY <2>4, <2>7, <3>1, <3>2
    <2> QED
      BY <2>1, <2>3, <2>4, <2>5, <2>6, <2>9 DEF ImportInv, Im!TypeOK, ImportJobs, ImportSteps
  <1>11. ASSUME NEW f \in Im!Folders, Im!attachments_backfill(f) PROVE ImportInv'
    <2>1. PICK n \in DOMAIN rows[f] :
              rows' = Im!With([rows[f][n] EXCEPT !.parts = files[Im!Path(f, n, rows[f][n].mail)]], f, n)
      BY <1>11 DEF Im!attachments_backfill
    <2> DEFINE line == [rows[f][n] EXCEPT !.parts = files[Im!Path(f, n, rows[f][n].mail)]]
    <2>2. rows[f][n] \in Im!Row /\ n \in Im!Numbers /\ rows[f][n].mail \in Im!Mails
      BY DEF ImportInv, Im!TypeOK, Im!Row
    <2>3. files[Im!Path(f, n, rows[f][n].mail)] \in Im!Mails \cup {Im!None}
      BY <2>2, ImportPathOf DEF ImportInv, Im!TypeOK
    <2>4. line \in Im!Row /\ line.mail = rows[f][n].mail /\ line.synced = rows[f][n].synced
      BY <2>2, <2>3 DEF Im!Row
    <2> HIDE DEF line
    <2>5. /\ UNCHANGED <<files, job, imported, raced, requests, errors, crashes>>
          /\ rows' = Im!With(line, f, n)
      BY <1>11, <2>1 DEF Im!attachments_backfill, Im!Bounds, line
    <2>6. /\ DOMAIN rows' = Im!Folders /\ \A g \in Im!Folders : DOMAIN rows'[g] \subseteq Im!Numbers
          /\ \A g \in Im!Folders : \A k \in DOMAIN rows'[g] : rows'[g][k] \in Im!Row
          /\ ImportConfirmedFirst' /\ Im!NoSecondCopy'
          /\ \A mail : Im!HasMail(mail)' <=> Im!HasMail(mail)
      BY <2>4, <2>5, ImportReplaced DEF ImportInv
    <2>7. \A q \in Importers : \A mail : Im!Seeks(q, mail)' <=> Im!Seeks(q, mail)
      BY <2>5 DEF Im!Seeks, Im!Mail
    <2> QED
      BY <2>5, <2>6, <2>7 DEF ImportInv, Im!TypeOK, ImportAtMail, ImportAlone
  <1>12. ASSUME Im!Restart PROVE ImportInv'
    <2>1. /\ job' = [r \in Importers |-> Im!Idle]
          /\ UNCHANGED <<files, imported, raced, requests, errors>> /\ crashes' \in 0 .. MaxCrashes
      BY <1>12, ImportBounded DEF Im!Restart, ImportInv, Im!TypeOK
    <2>2. job' \in [Importers -> ImportJobs] /\ ImportAtMail' /\ ImportAlone'
      BY <1>1, <2>1 DEF ImportAtMail, ImportAlone, Im!Seeks, ImportSeeking
    <2>3. /\ DOMAIN rows' = Im!Folders /\ \A g \in Im!Folders : DOMAIN rows'[g] \subseteq Im!Numbers
          /\ \A g \in Im!Folders : \A k \in DOMAIN rows'[g] : rows'[g][k] \in Im!Row
          /\ ImportConfirmedFirst' /\ Im!NoSecondCopy'
      <3>1. CASE UNCHANGED rows
        BY <2>1, <3>1 DEF ImportInv, Im!TypeOK, ImportConfirmedFirst, Im!NoSecondCopy, Im!Places
      <3>2. ASSUME NEW r \in Importers, Im!Is(r, "insert"),
                   rows' = Im!With(Im!Inserted(r), job[r].folder, job[r].number)
            PROVE  /\ DOMAIN rows' = Im!Folders
                   /\ \A g \in Im!Folders : DOMAIN rows'[g] \subseteq Im!Numbers
                   /\ \A g \in Im!Folders : \A k \in DOMAIN rows'[g] : rows'[g][k] \in Im!Row
                   /\ ImportConfirmedFirst' /\ Im!NoSecondCopy'
        BY <2>1, <3>2, ImportInserting DEF Im!Is
      <3> QED
        BY <1>12, <3>1, <3>2 DEF Im!Restart
    <2> QED
      BY <2>1, <2>2, <2>3 DEF ImportInv, Im!TypeOK, ImportJobs, ImportSteps
  <1>13. ASSUME UNCHANGED Im!vars PROVE ImportInv'
    BY <1>13 DEF Im!vars, ImportInv, Im!TypeOK, ImportAtMail, ImportConfirmedFirst, ImportAlone,
       Im!NoSecondCopy, Im!HasMail, Im!Seeks, Im!Mail, Im!Places
  <1> QED
    BY <1>3, <1>5, <1>6, <1>7, <1>8, <1>9, <1>10, <1>11, <1>12, <1>13 DEF Im!Next,
       Im!import_mbox_content

-----------------------------------------------------------------------------
(***************************************************************************)
(* The migration of a mailbox (api/migrate.rs).                            *)
(***************************************************************************)
(* The types, with what a worker knows of the mail it copies. *)
MigrationHeads == Mi!Places \cup {Mi!NoMail}
MigrationSteps == {"idle", "starting", "folder", "mails", "read", "write", "insert"}
MigrationCarried == [step : MigrationSteps, kind : Mi!Kinds, folders : SUBSET MailFolders,
                     folder : MailFolders \cup {Absent}, todo : SUBSET GivenUids, existing : SUBSET GivenUids,
                     cached : SUBSET GivenUids, copied : SUBSET GivenUids, failed : SUBSET GivenUids,
                     number : GivenUids \cup {0}, head : MigrationHeads, bytes : Mi!Mails]
MigrationReport == [running : BOOLEAN, done : BOOLEAN, kind : Mi!Kinds, folder : MailFolders \cup {Absent},
                    listed : SUBSET GivenUids, failed : SUBSET GivenUids, error : BOOLEAN, shared : BOOLEAN]
MigrationCopy == [there : BOOLEAN, head : Mi!Mails, path : Mi!Paths \cup {<<0, Mi!NoMail>>}]
MigrationAmounts == /\ starts \in 0 .. MaxMigrations /\ errors \in 0 .. MaxErrors /\ changes \in 0 .. MaxResets
                    /\ reset \in [open : 0 .. changes, torn : BOOLEAN]
MigrationSource == /\ server \subseteq ever /\ ever \subseteq Mi!Places
                   /\ rows \in [Mi!Places -> {"none", "plain", "raw"}]
MigrationNumbered == \A w \in Mi!Workers : worker[w].step \in {"read", "write", "insert"} => worker[w].number \in GivenUids
MigrationTyped == /\ MigrationSource
                  /\ target \in [Mi!Places -> MigrationCopy] /\ files \in [Mi!Paths -> Mi!Mails]
                  /\ worker \in [Mi!Workers -> MigrationCarried] /\ status \in MigrationReport
                  /\ MigrationNumbered /\ MigrationAmounts

(* A worker that copies has mails to do that the provider had ...          *)
MigrationAtWork(w) == worker[w].step \in {"mails", "read", "write", "insert"}
MigrationOfNumber(n) == {q \in ever : q[2] = n}
MigrationHonest(w) ==
    /\ MigrationAtWork(w) => /\ worker[w].folder \in MailFolders
                             /\ \A n \in worker[w].todo : <<worker[w].folder, n>> \in ever
    /\ worker[w].step \in {"read", "write", "insert"} => worker[w].number \in worker[w].todo
    /\ worker[w].step \in {"write", "insert"} =>
          worker[w].bytes \in {Mi!EmptyMail} \cup MigrationOfNumber(worker[w].number)

(* ... a file holds a mail of its number, and a row copied leads to a file *)
(* of its own number, which is there but for a reset.                      *)
MigrationFiles == \A f \in Mi!Paths : files[f] \in {Mi!NoMail, Mi!EmptyMail} \cup MigrationOfNumber(f[1])
MigrationLeads(p) == target[p].there /\ target[p].head # Mi!OwnMail =>
                        /\ target[p].path \in Mi!Paths /\ target[p].path[1] = p[2]
                        /\ ~reset.torn => files[target[p].path] # Mi!NoMail
MigrationGenuine == /\ \A p \in Mi!Places : rows[p] # "none" => p \in ever
                    /\ \A w \in Mi!Workers : MigrationHonest(w)
                    /\ MigrationFiles
                    /\ \A p \in Mi!Places : MigrationLeads(p)

(* Unless set beside another task, the status is that of the only task ... *)
MigrationStarts == /\ \A w \in Mi!Workers : worker[w].step = "starting" /\ worker[w].kind = "folder" =>
                         worker[w].folder \in MailFolders /\ worker[w].folders = {worker[w].folder}
                   /\ status.kind = "folder" => status.folder \in MailFolders
MigrationAlone == ~status.shared => \A v, w \in Mi!Tasks : Mi!Running(v) /\ Mi!Running(w) => v = w
MigrationOwner(w) == ~status.shared /\ Mi!Running(w) =>
                        /\ ~status.done /\ worker[w].kind = status.kind
                        /\ status.kind = "folder" => worker[w].folders \subseteq {status.folder}
                        /\ status.kind = "folder" /\ MigrationAtWork(w) => worker[w].folder = status.folder

(* ... and of the mails a task listed none is lost on the way.             *)
MigrationNoneSkipped(w) == MigrationAtWork(w) =>
    worker[w].existing \subseteq worker[w].todo \cup worker[w].failed \cup Mi!Present(worker[w].folder)
MigrationDone == status.done /\ status.kind = "folder" /\ ~status.error /\ ~status.shared =>
                 \A n \in status.listed \ status.failed : target[<<status.folder, n>>].there
MigrationReported == /\ MigrationStarts /\ MigrationAlone /\ MigrationDone
                     /\ \A w \in Mi!Tasks : MigrationOwner(w) /\ MigrationNoneSkipped(w)

MigrationInv == MigrationTyped /\ MigrationGenuine /\ MigrationReported

(* What is reported done has rows; their files hold a mail of the number.  *)
LEMMA MigrationComplete == ASSUME Mi!MigrationAssumption, MigrationInv PROVE Mi!DoneIsComplete
  <1> SUFFICES ASSUME status.done /\ status.kind = "folder" /\ ~status.error /\ ~status.shared,
                      reset.open = 0 /\ ~reset.torn,
                      NEW n \in status.listed \ status.failed
               PROVE  LET p == <<status.folder, n>> IN
                      /\ target[p].there
                      /\ target[p].head # Mi!OwnMail /\ Mi!Sole(p) => files[target[p].path] \in {p, Mi!EmptyMail}
    BY DEF Mi!DoneIsComplete
  <1> DEFINE p == <<status.folder, n>>
  <1>1. p \in Mi!Places /\ p[2] = n /\ target[p].there
    BY DEF MigrationInv, MigrationReported, MigrationDone, MigrationStarts, MigrationTyped, MigrationReport,
       Mi!Places
  <1>2. ASSUME target[p].head # Mi!OwnMail, Mi!Sole(p) PROVE files[target[p].path] \in {p, Mi!EmptyMail}
    <2>1. /\ target[p].path \in Mi!Paths /\ target[p].path[1] = p[2]
          /\ files[target[p].path] # Mi!NoMail
      BY <1>1, <1>2 DEF MigrationInv, MigrationGenuine, MigrationLeads
    <2>2. files[target[p].path] \in {Mi!EmptyMail} \cup MigrationOfNumber(p[2])
      BY <2>1 DEF MigrationInv, MigrationGenuine, MigrationFiles
    <2> QED
      BY <1>2, <2>2 DEF MigrationOfNumber, Mi!Sole
  <1> QED
    BY <1>1, <1>2

-----------------------------------------------------------------------------
(* What Set does to the workers. *)
LEMMA MigrationSetWork ==
    ASSUME MigrationTyped, NEW w \in Mi!Workers, NEW v, Mi!Set(w, v)
    PROVE  /\ worker'[w] = v
           /\ \A u \in Mi!Workers : u # w => worker'[u] = worker[u]
  BY DEF MigrationTyped, Mi!Set

(* A worker that goes on while source and copies stay. *)
LEMMA MigrationOneHonest ==
    ASSUME MigrationTyped, MigrationGenuine, NEW w \in Mi!Workers, NEW v, Mi!Set(w, v),
           UNCHANGED <<server, rows, ever, target, files, reset>>, MigrationHonest(w)'
    PROVE  MigrationGenuine'
  <1>1. \A u \in Mi!Workers : MigrationHonest(u)'
    BY MigrationSetWork DEF MigrationGenuine, MigrationHonest, MigrationAtWork, MigrationOfNumber
  <1>2. MigrationFiles' /\ \A p \in Mi!Places : MigrationLeads(p)'
    BY DEF MigrationGenuine, MigrationFiles, MigrationLeads, MigrationOfNumber
  <1> QED
    BY <1>1, <1>2 DEF MigrationGenuine

(* The next mail, or the same. *)
LEMMA MigrationNextHonest ==
    ASSUME MigrationTyped, MigrationGenuine, NEW w \in Mi!Workers, MigrationAtWork(w), NEW copied, NEW failed,
           Mi!GoesOn(w, copied, failed), UNCHANGED ever
    PROVE  MigrationHonest(w)'
  <1> DEFINE v == [worker[w] EXCEPT !.step = "mails", !.todo = @ \ {worker[w].number}, !.number = 0,
                                    !.head = Mi!NoMail, !.bytes = Mi!NoMail, !.copied = @ \cup copied,
                                    !.failed = @ \cup failed]
  <1>1. /\ v.step = "mails" /\ v.folder = worker[w].folder /\ v.todo \subseteq worker[w].todo
    BY DEF MigrationTyped, MigrationCarried
  <1>2. worker'[w] = v
    BY MigrationSetWork DEF Mi!GoesOn
  <1> HIDE DEF v
  <1> QED
    BY <1>1, <1>2 DEF MigrationGenuine, MigrationHonest, MigrationAtWork

(* Starting, listing, ending. *)
LEMMA MigrationFolderHonest ==
    ASSUME MigrationTyped, MigrationGenuine, NEW w \in Mi!Workers,
           \/ \E kind, folders, folder : Mi!Asked(w, kind, folders, folder)
           \/ Mi!Begin(w) \/ Mi!List(w) \/ Mi!NotListed(w) \/ Mi!FolderEnds(w)
           \/ w = "request" /\ \E kind, folders : Mi!Requested(kind, folders)
    PROVE  MigrationGenuine'
  <1>1. UNCHANGED <<server, rows, ever, target, files, reset>>
    BY DEF Mi!Asked, Mi!Begin, Mi!List, Mi!NotListed, Mi!FolderEnds, Mi!Requested, Mi!Mailbox, Mi!Copies
  <1>2. worker[w] \in MigrationCarried
    BY DEF MigrationTyped
  <1>3. ASSUME NEW v, Mi!Set(w, v), v.step \in {"idle", "starting", "folder"} PROVE MigrationGenuine'
    <2>1. MigrationHonest(w)'
      BY <1>3, MigrationSetWork DEF MigrationHonest, MigrationAtWork
    <2> QED
      BY <1>1, <1>3, <2>1, MigrationOneHonest
  <1>4. ASSUME NEW kind, NEW folders, NEW folder, Mi!Asked(w, kind, folders, folder) PROVE MigrationGenuine'
    <2> DEFINE v == [Mi!Idle EXCEPT !.step = "starting", !.kind = kind, !.folders = folders, !.folder = folder]
    <2>1. Mi!Set(w, v) /\ v.step = "starting"
      BY <1>4 DEF Mi!Asked, Mi!Idle
    <2> QED
      BY <1>3, <2>1
  <1>5. CASE Mi!Begin(w)
    <2> DEFINE v == [worker[w] EXCEPT !.step = "folder"]
    <2>1. Mi!Set(w, v) /\ v.step = "folder"
      BY <1>2, <1>5 DEF Mi!Begin, MigrationCarried
    <2> QED
      BY <1>3, <2>1
  <1>6. CASE Mi!List(w)
    <2>1. PICK f \in worker[w].folders :
             LET uids == {n \in GivenUids : <<f, n>> \in server}
             IN Mi!Set(w, [worker[w] EXCEPT !.step = "mails", !.folder = f, !.folders = @ \ {f},
                              !.todo = uids \ Mi!Existing(f), !.existing = uids, !.copied = {}, !.failed = {},
                              !.cached = IF w = "request" THEN {n \in GivenUids : rows[<<f, n>>] # "none"} ELSE {}])
      BY <1>6 DEF Mi!List
    <2> DEFINE uids == {n \in GivenUids : <<f, n>> \in server}
               v == [worker[w] EXCEPT !.step = "mails", !.folder = f, !.folders = @ \ {f},
                              !.todo = uids \ Mi!Existing(f), !.existing = uids, !.copied = {}, !.failed = {},
                              !.cached = IF w = "request" THEN {n \in GivenUids : rows[<<f, n>>] # "none"} ELSE {}]
    <2>2. v.step = "mails" /\ v.folder = f /\ v.todo \subseteq uids /\ f \in MailFolders
      BY <1>2 DEF MigrationCarried
    <2>3. \A n \in uids : <<f, n>> \in ever
      BY DEF MigrationTyped, MigrationSource
    <2>4. Mi!Set(w, v)
      BY <2>1
    <2> HIDE DEF v, uids
    <2>5. MigrationHonest(w)'
      BY <1>1, <2>2, <2>3, <2>4, MigrationSetWork DEF MigrationHonest, MigrationAtWork
    <2> QED
      BY <1>1, <2>4, <2>5, MigrationOneHonest
  <1>7. CASE Mi!NotListed(w)
    <2>1. PICK f \in worker[w].folders : \/ Mi!Set(w, [worker[w] EXCEPT !.folders = @ \ {f}])
                                         \/ Mi!Set(w, Mi!Idle)
      BY <1>7 DEF Mi!NotListed
    <2> DEFINE v == [worker[w] EXCEPT !.folders = @ \ {f}]
    <2>2. v.step = "folder" /\ Mi!Idle.step = "idle"
      BY <1>2, <1>7 DEF MigrationCarried, Mi!NotListed, Mi!Idle
    <2> QED
      BY <1>3, <2>1, <2>2
  <1>8. CASE Mi!FolderEnds(w)
    <2> DEFINE v == [Mi!Idle EXCEPT !.step = "folder", !.kind = worker[w].kind, !.folders = worker[w].folders]
    <2>1. (Mi!Set(w, v) \/ Mi!Set(w, Mi!Idle)) /\ v.step = "folder" /\ Mi!Idle.step = "idle"
      BY <1>8 DEF Mi!FolderEnds, Mi!Idle
    <2> QED
      BY <1>3, <2>1
  <1>9. ASSUME w = "request", NEW kind, NEW folders, Mi!Requested(kind, folders) PROVE MigrationGenuine'
    <2> DEFINE v == [Mi!Idle EXCEPT !.step = "folder", !.kind = kind, !.folders = folders]
    <2>1. Mi!Set(w, v) /\ v.step = "folder"
      BY <1>9 DEF Mi!Requested, Mi!Idle
    <2> QED
      BY <1>3, <2>1
  <1> QED
    BY <1>4, <1>5, <1>6, <1>7, <1>8, <1>9

(* A mail is looked at and read: the archived one, or that of the place,   *)
(* or one put together from the row, has the number.                       *)
LEMMA MigrationReadHonest ==
    ASSUME MigrationTyped, MigrationGenuine, NEW w \in Mi!Workers, Mi!Look(w) \/ Mi!Read(w)
    PROVE  MigrationGenuine'
  <1>1. UNCHANGED <<server, rows, ever, target, files, reset>>
    BY DEF Mi!Look, Mi!Read, Mi!Mailbox, Mi!Copies
  <1>2. worker[w] \in MigrationCarried /\ MigrationHonest(w)
    BY DEF MigrationTyped, MigrationGenuine
  <1>3. CASE Mi!Look(w)
    <2>1. PICK n \in worker[w].todo :
             Mi!Set(w, [worker[w] EXCEPT !.step = "read", !.number = n,
                            !.cached = IF w \in Mi!Tasks THEN {m \in {n} : Mi!RowsOf(m) # {}} ELSE @])
      BY <1>3 DEF Mi!Look
    <2> DEFINE v == [worker[w] EXCEPT !.step = "read", !.number = n,
                            !.cached = IF w \in Mi!Tasks THEN {m \in {n} : Mi!RowsOf(m) # {}} ELSE @]
    <2>2. v.step = "read" /\ v.number = n /\ v.todo = worker[w].todo /\ v.folder = worker[w].folder
      BY <1>2 DEF MigrationCarried
    <2>3. Mi!Set(w, v) /\ MigrationAtWork(w)
      BY <1>3, <2>1 DEF Mi!Look, MigrationAtWork
    <2> HIDE DEF v
    <2>4. MigrationHonest(w)'
      BY <1>1, <1>2, <2>2, <2>3, MigrationSetWork DEF MigrationHonest, MigrationAtWork
    <2> QED
      BY <1>1, <2>3, <2>4, MigrationOneHonest
  <1>4. CASE Mi!Read(w)
    <2> DEFINE n == worker[w].number
               place == <<worker[w].folder, n>>
    <2>1. PICK head \in Mi!Heads(n) :
             \/ head # Mi!NoMail /\ Mi!Take(w, head, head)
             \/ Mi!Take(w, head, place)
             \/ Mi!Take(w, head, Mi!Rebuilt(head))
             \/ Mi!Skip(w)
      BY <1>4 DEF Mi!Read
    <2>2. place \in ever /\ place[2] = n /\ MigrationAtWork(w) /\ worker[w].step = "read" /\ n \in worker[w].todo
      BY <1>2, <1>4 DEF Mi!Read, MigrationHonest, MigrationAtWork
    <2>3. head # Mi!NoMail => head \in MigrationOfNumber(n)
      BY DEF Mi!Heads, Mi!RowsOf, MigrationGenuine, MigrationOfNumber
    <2>4. ASSUME NEW bytes \in {Mi!EmptyMail} \cup MigrationOfNumber(n), Mi!Take(w, head, bytes)
          PROVE  MigrationGenuine'
      <3> DEFINE v == [worker[w] EXCEPT !.step = "write", !.head = head, !.bytes = bytes]
      <3>1. /\ v.step = "write" /\ v.number = n /\ v.todo = worker[w].todo /\ v.folder = worker[w].folder
            /\ v.bytes = bytes
        BY <1>2 DEF MigrationCarried
      <3>2. Mi!Set(w, v)
        BY <2>4 DEF Mi!Take
      <3> HIDE DEF v, n
      <3>3. MigrationHonest(w)'
        BY <1>1, <1>2, <2>2, <2>4, <3>1, <3>2, MigrationSetWork
           DEF MigrationHonest, MigrationAtWork, MigrationOfNumber
      <3> QED
        BY <1>1, <3>2, <3>3, MigrationOneHonest
    <2>5. CASE Mi!Skip(w)
      <3>1. MigrationHonest(w)' /\ \E v : Mi!Set(w, v)
        BY <1>1, <2>2, <2>5, MigrationNextHonest DEF Mi!Skip, Mi!GoesOn
      <3> QED
        BY <1>1, <3>1, MigrationOneHonest
    <2>6. place \in MigrationOfNumber(n) /\ Mi!Rebuilt(head) \in {Mi!EmptyMail} \cup MigrationOfNumber(n)
      BY <2>2, <2>3 DEF MigrationOfNumber, Mi!Rebuilt
    <2> QED
      BY <2>1, <2>3, <2>4, <2>5, <2>6
  <1> QED
    BY <1>3, <1>4

(* The file written holds what was read; a row is inserted to such a file. *)
LEMMA MigrationWriteHonest ==
    ASSUME Mi!MigrationAssumption, MigrationTyped, MigrationGenuine, NEW w \in Mi!Workers, Mi!WriteFile(w)
    PROVE  MigrationGenuine'
  <1> DEFINE path == <<worker[w].number, worker[w].head>>
             v == [worker[w] EXCEPT !.step = "insert"]
  <1>1. /\ worker[w] \in MigrationCarried /\ worker[w].step = "write" /\ MigrationHonest(w)
        /\ worker[w].bytes \in {Mi!EmptyMail} \cup MigrationOfNumber(worker[w].number)
        /\ UNCHANGED <<server, rows, ever, target, reset>> /\ Mi!Set(w, v)
        /\ files' = [files EXCEPT ![path] = worker[w].bytes]
    BY DEF MigrationTyped, MigrationGenuine, MigrationHonest, Mi!WriteFile, Mi!Mailbox
  <1>2. /\ v.step = "insert" /\ v.number = worker[w].number /\ v.todo = worker[w].todo
        /\ v.folder = worker[w].folder /\ v.bytes = worker[w].bytes
    BY <1>1 DEF MigrationCarried
  <1>3. path[1] = worker[w].number /\ worker[w].bytes # Mi!NoMail
    BY <1>1 DEF MigrationOfNumber, MigrationTyped, MigrationSource, Mi!Places, Mi!NoMail, Mi!EmptyMail,
       Mi!MigrationAssumption
  <1> HIDE DEF v, path
  <1>4. \A u \in Mi!Workers : MigrationHonest(u)'
    BY <1>1, <1>2, MigrationSetWork DEF MigrationGenuine, MigrationHonest, MigrationAtWork, MigrationOfNumber
  <1>5. MigrationFiles'
    BY <1>1, <1>3 DEF MigrationTyped, MigrationGenuine, MigrationFiles, MigrationOfNumber
  <1>6. \A p \in Mi!Places : MigrationLeads(p)'
    BY <1>1, <1>3 DEF MigrationTyped, MigrationGenuine, MigrationLeads
  <1> QED
    BY <1>1, <1>4, <1>5, <1>6 DEF MigrationGenuine

LEMMA MigrationInsertHonest ==
    ASSUME Mi!MigrationAssumption, MigrationTyped, MigrationGenuine, NEW w \in Mi!Workers, Mi!Insert(w)
    PROVE  MigrationGenuine'
  <1> DEFINE path == <<worker[w].number, worker[w].head>>
             place == <<worker[w].folder, worker[w].number>>
             copy == [there |-> TRUE, head |-> worker[w].head, path |-> path]
  <1>1. /\ worker[w] \in MigrationCarried /\ worker[w].step = "insert" /\ MigrationHonest(w) /\ MigrationAtWork(w)
        /\ worker[w].number \in GivenUids
        /\ worker[w].bytes \in {Mi!EmptyMail} \cup MigrationOfNumber(worker[w].number)
        /\ UNCHANGED <<server, rows, ever, files, reset>>
    BY DEF MigrationTyped, MigrationNumbered, MigrationGenuine, MigrationHonest, Mi!Insert, Mi!Mailbox,
       MigrationAtWork
  <1>2. MigrationHonest(w)' /\ \E v : Mi!Set(w, v)
    <2>1. PICK copied, failed : Mi!GoesOn(w, copied, failed)
      BY DEF Mi!Insert, Mi!Skip
    <2> QED
      BY <1>1, <2>1, MigrationNextHonest DEF Mi!GoesOn
  <1>3. \A u \in Mi!Workers : MigrationHonest(u)'
    BY <1>1, <1>2, MigrationSetWork DEF MigrationGenuine, MigrationHonest, MigrationAtWork, MigrationOfNumber
  <1>4. MigrationFiles'
    BY <1>1 DEF MigrationGenuine, MigrationFiles, MigrationOfNumber
  <1>5. target' = target \/ (target' = [target EXCEPT ![place] = copy] /\ files[path] = worker[w].bytes)
    <2>1. CASE files[path] # worker[w].bytes
      BY <2>1 DEF Mi!Insert
    <2>2. CASE files[path] = worker[w].bytes
      <3>1. target' = IF target[place].there THEN target ELSE [target EXCEPT ![place] = copy]
        BY <2>2 DEF Mi!Insert
      <3> QED
        BY <2>2, <3>1
    <2> QED
      BY <2>1, <2>2
  <1>6. path \in Mi!Paths /\ path[1] = worker[w].number /\ place[2] = worker[w].number /\ worker[w].bytes # Mi!NoMail
    BY <1>1 DEF MigrationCarried, MigrationHeads, Mi!Paths, MigrationOfNumber, MigrationTyped, MigrationSource,
       Mi!Places, Mi!NoMail, Mi!EmptyMail, Mi!MigrationAssumption
  <1>7. copy.path = path
    OBVIOUS
  <1> HIDE DEF path, copy, place
  <1>8. ASSUME NEW p \in Mi!Places PROVE MigrationLeads(p)'
    <2>1. CASE target'[p] = target[p]
      BY <1>1, <2>1 DEF MigrationGenuine, MigrationLeads
    <2>2. CASE target'[p] # target[p]
      <3>1. p = place /\ target'[p] = copy /\ files[path] = worker[w].bytes
        BY <1>5, <2>2 DEF MigrationTyped
      <3> QED
        BY <1>1, <1>6, <1>7, <3>1 DEF MigrationLeads
    <2> QED
      BY <2>1, <2>2
  <1> QED
    BY <1>1, <1>3, <1>4, <1>8 DEF MigrationGenuine

(* A reset removes files first and says so till the rows are gone; a mail  *)
(* that comes or goes takes no number from those there were.               *)
LEMMA MigrationAroundHonest ==
    ASSUME Mi!MigrationAssumption, MigrationTyped, MigrationGenuine,
           \/ Mi!reset_target \/ Mi!Restart \/ UNCHANGED Mi!vars
           \/ \E p \in Mi!Places : Mi!Arrives(p) \/ Mi!Gone(p) \/ Mi!Archived(p) \/ Mi!Pruned(p)
    PROVE  MigrationGenuine'
  <1>1. CASE Mi!RemoveFiles
    <2>1. /\ UNCHANGED <<server, rows, ever, target, worker>> /\ reset'.torn
          /\ \A f \in Mi!Paths : files'[f] \in {files[f], Mi!NoMail}
      BY <1>1 DEF Mi!RemoveFiles, Mi!Mailbox
    <2> QED
      BY <2>1 DEF MigrationGenuine, MigrationHonest, MigrationAtWork, MigrationOfNumber, MigrationFiles,
         MigrationLeads
  <1>2. CASE Mi!WipeRows
    <2>1. UNCHANGED <<server, rows, ever, files>> /\ \A p \in Mi!Places : ~target'[p].there
      BY <1>2 DEF Mi!WipeRows, Mi!Mailbox, Mi!NoCopy
    <2>2. \A w \in Mi!Workers : worker'[w] = [worker[w] EXCEPT !.existing = {}]
      BY <1>2 DEF Mi!WipeRows
    <2>3. \A w \in Mi!Workers :
             /\ worker'[w].step = worker[w].step /\ worker'[w].folder = worker[w].folder
             /\ worker'[w].todo = worker[w].todo /\ worker'[w].number = worker[w].number
             /\ worker'[w].bytes = worker[w].bytes
      BY <2>2 DEF MigrationTyped, MigrationCarried
    <2>4. \A w \in Mi!Workers : MigrationHonest(w)'
      BY <2>1, <2>3 DEF MigrationGenuine, MigrationHonest, MigrationAtWork, MigrationOfNumber
    <2> QED
      BY <2>1, <2>4 DEF MigrationGenuine, MigrationOfNumber, MigrationFiles, MigrationLeads
  <1>3. CASE Mi!Restart
    <2>1. /\ UNCHANGED <<server, rows, ever, target, files>> /\ reset'.torn = reset.torn
          /\ \A w \in Mi!Workers : worker'[w].step = "idle"
      BY <1>3 DEF Mi!Restart, Mi!Mailbox, Mi!Idle, MigrationTyped, MigrationAmounts
    <2> QED
      BY <2>1 DEF MigrationGenuine, MigrationHonest, MigrationAtWork, MigrationOfNumber, MigrationFiles,
         MigrationLeads
  <1>4. ASSUME NEW p \in Mi!Places, Mi!Arrives(p) \/ Mi!Gone(p) \/ Mi!Archived(p) \/ Mi!Pruned(p)
        PROVE  MigrationGenuine'
    <2>1. UNCHANGED <<target, files, reset, worker>> /\ ever \subseteq ever'
      BY <1>4 DEF Mi!Arrives, Mi!Gone, Mi!Archived, Mi!Pruned, Mi!Copies
    <2>2. \A q \in Mi!Places : rows'[q] # "none" => q \in ever'
      BY <1>4 DEF Mi!Arrives, Mi!Gone, Mi!Archived, Mi!Pruned, MigrationTyped, MigrationSource, MigrationGenuine
    <2>3. \A n : MigrationOfNumber(n) \subseteq MigrationOfNumber(n)'
      BY <2>1 DEF MigrationOfNumber
    <2>4. \A w \in Mi!Workers : MigrationHonest(w)'
      BY <2>1, <2>3 DEF MigrationGenuine, MigrationHonest, MigrationAtWork
    <2>5. MigrationFiles' /\ \A q \in Mi!Places : MigrationLeads(q)'
      BY <2>1, <2>3 DEF MigrationGenuine, MigrationFiles, MigrationLeads
    <2> QED
      BY <2>2, <2>4, <2>5 DEF MigrationGenuine
  <1>5. CASE UNCHANGED Mi!vars
    BY <1>5 DEF Mi!vars, MigrationGenuine, MigrationHonest, MigrationAtWork, MigrationOfNumber, MigrationFiles,
       MigrationLeads
  <1> QED
    BY <1>1, <1>2, <1>3, <1>4, <1>5 DEF Mi!reset_target

LEMMA MigrationStaysGenuine ==
    ASSUME Mi!MigrationAssumption, MigrationTyped, MigrationGenuine, [Mi!Next]_Mi!vars
    PROVE  MigrationGenuine'
  <1>1. ASSUME NEW w \in Mi!Workers,
               Mi!List(w) \/ Mi!NotListed(w) \/ Mi!FolderEnds(w) \/ Mi!copy_one_message(w)
        PROVE  MigrationGenuine'
    BY <1>1, MigrationFolderHonest, MigrationReadHonest, MigrationWriteHonest, MigrationInsertHonest
       DEF Mi!copy_one_message
  <1>2. ASSUME NEW w \in Mi!Tasks,
               Mi!start_migration(w) \/ Mi!Begin(w) \/ \E f \in MailFolders : Mi!start_folder_migration(w, f)
        PROVE  MigrationGenuine'
    BY <1>2, MigrationFolderHonest DEF Mi!start_migration, Mi!start_folder_migration, Mi!Workers
  <1>3. ASSUME Mi!copy_account \/ \E f \in MailFolders : Mi!copy_folder_endpoint(f) PROVE MigrationGenuine'
    BY <1>3, MigrationFolderHonest DEF Mi!copy_account, Mi!copy_folder_endpoint, Mi!Workers
  <1> QED
    BY <1>1, <1>2, <1>3, MigrationAroundHonest DEF Mi!Next

-----------------------------------------------------------------------------
(* Except by a reset, the target only gains rows. *)
MigrationTargetGrows == \A p \in Mi!Places : target[p].there => target'[p].there

(* While the status stays, a worker w that goes on in its folder keeps the *)
(* reports; the others are as they were.                                   *)
LEMMA MigrationGoesOn ==
    ASSUME MigrationTyped, MigrationGenuine, MigrationReported, NEW w \in Mi!Workers, NEW v, Mi!Set(w, v), status' = status,
           MigrationTargetGrows,
           w \in Mi!Tasks => (v.step \in {"idle", "starting"}) \/ (Mi!Running(w) /\ (MigrationOwner(w))'),
           w \in Mi!Tasks => (MigrationNoneSkipped(w))',
           v.step = "starting" /\ v.kind = "folder" => v.folder \in MailFolders /\ v.folders = {v.folder}
    PROVE  MigrationReported'
  <1>1. worker'[w] = v /\ \A u \in Mi!Workers : u # w => worker'[u] = worker[u]
    BY MigrationSetWork
  <1>2. Mi!Tasks \subseteq Mi!Workers
    BY DEF Mi!Workers
  <1>3. MigrationStarts' /\ MigrationDone'
    <2>1. MigrationStarts'
      BY <1>1 DEF MigrationReported, MigrationStarts
    <2>2. MigrationDone'
      BY DEF MigrationReported, MigrationDone, MigrationStarts, MigrationTargetGrows, MigrationTyped,
         MigrationReport, Mi!Places
    <2> QED
      BY <2>1, <2>2
  <1>4. \A u \in Mi!Tasks : Mi!Running(u)' => Mi!Running(u)
    BY <1>1, <1>2 DEF Mi!Running
  <1>5. MigrationAlone'
    BY <1>4 DEF MigrationReported, MigrationAlone
  <1>6. ASSUME NEW u \in Mi!Tasks PROVE MigrationOwner(u)' /\ MigrationNoneSkipped(u)'
    <2>1. CASE u = w
      BY <1>1, <2>1 DEF MigrationOwner, Mi!Running
    <2>2. CASE u # w
      <3>1. worker'[u] = worker[u] /\ MigrationOwner(u) /\ MigrationNoneSkipped(u)
            /\ worker[u] \in MigrationCarried
        BY <1>1, <1>2, <2>2 DEF MigrationReported, MigrationTyped
      <3>2. MigrationOwner(u)'
        BY <3>1 DEF MigrationOwner, MigrationAtWork, Mi!Running
      <3>3. MigrationNoneSkipped(u)'
        BY <1>2, <3>1 DEF MigrationNoneSkipped, MigrationAtWork, MigrationTargetGrows, Mi!Present, Mi!Places,
           MigrationGenuine, MigrationHonest
      <3> QED
        BY <3>2, <3>3
    <2> QED
      BY <2>1, <2>2
  <1> QED
    BY <1>3, <1>5, <1>6 DEF MigrationReported

(* A mail more is looked at, read, written or done. *)
LEMMA MigrationOnwards ==
    ASSUME MigrationTyped, MigrationGenuine, MigrationReported, NEW w \in Mi!Workers, NEW v, Mi!Set(w, v),
           status' = status, MigrationTargetGrows, MigrationAtWork(w),
           v.step \in {"mails", "read", "write", "insert"}, v.kind = worker[w].kind,
           v.folders = worker[w].folders, v.folder = worker[w].folder, v.existing = worker[w].existing,
           NEW f, f = worker[w].folder,
           worker[w].todo \cup worker[w].failed \subseteq v.todo \cup v.failed \cup Mi!Present(f)'
    PROVE  MigrationReported'
  <1>1. worker'[w] = v
    BY MigrationSetWork
  <1>2. Mi!Present(f) \subseteq Mi!Present(f)'
    BY DEF MigrationGenuine, MigrationHonest, MigrationTargetGrows, Mi!Present, Mi!Places
  <1>3. ASSUME w \in Mi!Tasks
        PROVE  MigrationOwner(w) /\ MigrationNoneSkipped(w) /\ Mi!Running(w)
    BY <1>3 DEF MigrationReported, MigrationAtWork, Mi!Running
  <1>4. w \in Mi!Tasks => MigrationOwner(w)'
    BY <1>1, <1>3 DEF MigrationOwner, MigrationAtWork, Mi!Running
  <1>5. w \in Mi!Tasks => MigrationNoneSkipped(w)'
    BY <1>1, <1>2, <1>3 DEF MigrationNoneSkipped, MigrationAtWork
  <1>6. ~(v.step = "starting")
    OBVIOUS
  <1>7. w \in Mi!Tasks => v.step \in {"idle", "starting"} \/ (Mi!Running(w) /\ MigrationOwner(w)')
    BY <1>3, <1>4
  <1> QED
    BY <1>5, <1>6, <1>7, MigrationGoesOn

LEMMA MigrationMailSteps ==
    ASSUME MigrationTyped, MigrationGenuine, MigrationReported, NEW w \in Mi!Workers, Mi!copy_one_message(w)
    PROVE  MigrationReported'
  <1> PICK f, n : f = worker[w].folder /\ n = worker[w].number
    OBVIOUS
  <1>1. worker[w] \in MigrationCarried /\ MigrationAtWork(w) /\ status' = status
    BY DEF MigrationTyped, Mi!copy_one_message, Mi!Look, Mi!Read, Mi!WriteFile, Mi!Insert, MigrationAtWork
  <1>2. target' = target => MigrationTargetGrows
    BY DEF MigrationTargetGrows
  <1>3. CASE Mi!Look(w)
    <2>1. PICK mailNumber \in worker[w].todo :
             Mi!Set(w, [worker[w] EXCEPT !.step = "read", !.number = mailNumber,
                            !.cached = IF w \in Mi!Tasks THEN {m \in {mailNumber} : Mi!RowsOf(m) # {}} ELSE @])
      BY <1>3 DEF Mi!Look
    <2> DEFINE v == [worker[w] EXCEPT !.step = "read", !.number = mailNumber,
                            !.cached = IF w \in Mi!Tasks THEN {m \in {mailNumber} : Mi!RowsOf(m) # {}} ELSE @]
    <2>2. /\ v.step = "read" /\ v.kind = worker[w].kind /\ v.folders = worker[w].folders
          /\ v.folder = worker[w].folder /\ v.existing = worker[w].existing
          /\ v.todo = worker[w].todo /\ v.failed = worker[w].failed
      BY <1>1 DEF MigrationCarried
    <2>3. Mi!Set(w, v) /\ MigrationTargetGrows
      BY <1>2, <1>3, <2>1 DEF Mi!Look, Mi!Copies
    <2> HIDE DEF v
    <2> QED
      BY <1>1, <2>2, <2>3, MigrationOnwards
  <1>4. ASSUME NEW head, NEW bytes, Mi!Take(w, head, bytes), target' = target PROVE MigrationReported'
    <2> DEFINE v == [worker[w] EXCEPT !.step = "write", !.head = head, !.bytes = bytes]
    <2>1. /\ v.step = "write" /\ v.kind = worker[w].kind /\ v.folders = worker[w].folders
          /\ v.folder = worker[w].folder /\ v.existing = worker[w].existing
          /\ v.todo = worker[w].todo /\ v.failed = worker[w].failed
      BY <1>1 DEF MigrationCarried
    <2>2. Mi!Set(w, v) /\ MigrationTargetGrows
      BY <1>2, <1>4 DEF Mi!Take
    <2> HIDE DEF v
    <2> QED
      BY <1>1, <2>1, <2>2, MigrationOnwards
  <1>5. ASSUME NEW copied, NEW failed, Mi!GoesOn(w, copied, failed), MigrationTargetGrows,
               n \in failed \cup Mi!Present(f)'
        PROVE  MigrationReported'
    <2> DEFINE v == [worker[w] EXCEPT !.step = "mails", !.todo = @ \ {worker[w].number}, !.number = 0,
                                    !.head = Mi!NoMail, !.bytes = Mi!NoMail, !.copied = @ \cup copied,
                                    !.failed = @ \cup failed]
    <2>1. /\ v.step = "mails" /\ v.kind = worker[w].kind /\ v.folders = worker[w].folders
          /\ v.folder = worker[w].folder /\ v.existing = worker[w].existing
          /\ v.todo = worker[w].todo \ {worker[w].number} /\ v.failed = worker[w].failed \cup failed
      BY <1>1 DEF MigrationCarried
    <2>2. Mi!Set(w, v)
      BY <1>5 DEF Mi!GoesOn
    <2> HIDE DEF v
    <2>3. worker[w].todo \cup worker[w].failed \subseteq v.todo \cup v.failed \cup Mi!Present(f)'
      BY <1>5, <2>1
    <2> QED
      BY <1>1, <1>5, <2>1, <2>2, <2>3, MigrationOnwards
  <1>6. ASSUME Mi!Skip(w), target' = target PROVE MigrationReported'
    BY <1>2, <1>5, <1>6 DEF Mi!Skip
  <1>7. CASE Mi!Read(w)
    BY <1>4, <1>6, <1>7 DEF Mi!Read, Mi!Copies
  <1>8. CASE Mi!WriteFile(w)
    <2> DEFINE v == [worker[w] EXCEPT !.step = "insert"]
    <2>1. /\ v.step = "insert" /\ v.kind = worker[w].kind /\ v.folders = worker[w].folders
          /\ v.folder = worker[w].folder /\ v.existing = worker[w].existing
          /\ v.todo = worker[w].todo /\ v.failed = worker[w].failed
      BY <1>1 DEF MigrationCarried
    <2>2. Mi!Set(w, v) /\ MigrationTargetGrows
      BY <1>2, <1>8 DEF Mi!WriteFile
    <2> HIDE DEF v
    <2> QED
      BY <1>1, <2>1, <2>2, MigrationOnwards
  <1>9. CASE Mi!Insert(w)
    <2> DEFINE path == <<worker[w].number, worker[w].head>>
               place == <<worker[w].folder, worker[w].number>>
               copy == [there |-> TRUE, head |-> worker[w].head, path |-> path]
    <2>1. CASE files[path] # worker[w].bytes
      BY <1>6, <1>9, <2>1 DEF Mi!Insert
    <2>2. CASE files[path] = worker[w].bytes
      <3>1. /\ target' = IF target[place].there THEN target ELSE [target EXCEPT ![place] = copy]
            /\ Mi!GoesOn(w, {worker[w].number}, {})
        BY <1>9, <2>2 DEF Mi!Insert
      <3>2. place \in Mi!Places
        BY <1>1, <1>9 DEF Mi!Insert, MigrationGenuine, MigrationHonest, MigrationTyped, MigrationNumbered, Mi!Places
      <3>3. MigrationTargetGrows /\ target'[place].there
        BY <3>1, <3>2 DEF MigrationTyped, MigrationTargetGrows
      <3>4. n \in Mi!Present(f)'
        BY <3>2, <3>3 DEF Mi!Present, Mi!Places
      <3> QED
        BY <1>5, <3>1, <3>3, <3>4
    <2> QED
      BY <2>1, <2>2
  <1> QED
    BY <1>3, <1>7, <1>8, <1>9 DEF Mi!copy_one_message

(* A task ends: what it says holds of the status unless that is shared.    *)
LEMMA MigrationEnds ==
    ASSUME MigrationTyped, MigrationGenuine, MigrationReported, NEW w \in Mi!Tasks, Mi!Running(w),
           Mi!Set(w, Mi!Idle), target' = target,
           NEW L \in SUBSET GivenUids, NEW F \in SUBSET GivenUids, NEW error \in BOOLEAN,
           Mi!finish_folder_task(L, F, error),
           ~status.shared /\ status.kind = "folder" /\ ~error =>
              \A n \in L \ F : target[<<status.folder, n>>].there
    PROVE  MigrationReported'
  <1>1. /\ w \in Mi!Workers /\ worker'[w].step = "idle"
        /\ \A u \in Mi!Workers : u # w => worker'[u] = worker[u]
    BY MigrationSetWork DEF Mi!Workers, Mi!Idle
  <1>2. /\ status'.done /\ status'.kind = status.kind /\ status'.folder = status.folder
        /\ status'.listed = L /\ status'.failed = F /\ status'.error = error /\ status'.shared = status.shared
    BY DEF Mi!finish_folder_task, MigrationTyped, MigrationReport
  <1>3. Mi!Tasks \subseteq Mi!Workers
    BY DEF Mi!Workers
  <1>4. MigrationStarts' /\ MigrationDone'
    BY <1>1, <1>2 DEF MigrationReported, MigrationStarts, MigrationDone
  <1>5. \A u \in Mi!Tasks : Mi!Running(u)' => Mi!Running(u) /\ u # w
    BY <1>1, <1>3 DEF Mi!Running
  <1>6. MigrationAlone' /\ \A u \in Mi!Tasks : MigrationOwner(u)'
    BY <1>2, <1>5 DEF MigrationReported, MigrationAlone, MigrationOwner
  <1>7. \A u \in Mi!Tasks : MigrationNoneSkipped(u)'
    BY <1>1, <1>3 DEF MigrationReported, MigrationNoneSkipped, MigrationAtWork, Mi!Present
  <1> QED
    BY <1>4, <1>6, <1>7 DEF MigrationReported

(* A folder is listed, or is not; the last folder ends a task.             *)
LEMMA MigrationFolderSteps ==
    ASSUME MigrationTyped, MigrationGenuine, MigrationReported, NEW w \in Mi!Workers,
           Mi!List(w) \/ Mi!NotListed(w) \/ Mi!FolderEnds(w)
    PROVE  MigrationReported'
  <1>1. /\ worker[w] \in MigrationCarried /\ status \in MigrationReport /\ Mi!Running(w) /\ target' = target
        /\ MigrationTargetGrows
    BY DEF MigrationTyped, Mi!List, Mi!NotListed, Mi!FolderEnds, Mi!Running, Mi!Copies, MigrationTargetGrows
  <1>2. w \in Mi!Tasks => MigrationOwner(w) /\ MigrationNoneSkipped(w)
    BY DEF MigrationReported
  (* With folders left, of those it had. *)
  <1>3. ASSUME NEW v, Mi!Set(w, v), status' = status, v.step = "folder", v.kind = worker[w].kind,
               v.folders \subseteq worker[w].folders
        PROVE  MigrationReported'
    <2>1. worker'[w] = v
      BY <1>3, MigrationSetWork
    <2>2. w \in Mi!Tasks => MigrationOwner(w)'
      BY <1>1, <1>2, <1>3, <2>1 DEF MigrationOwner, MigrationAtWork, Mi!Running
    <2>3. MigrationNoneSkipped(w)'
      BY <1>3, <2>1 DEF MigrationNoneSkipped, MigrationAtWork
    <2> QED
      BY <1>1, <1>3, <2>2, <2>3, MigrationGoesOn
  <1>4. ASSUME w \notin Mi!Tasks, Mi!Set(w, Mi!Idle), status' = status PROVE MigrationReported'
    <2>1. Mi!Idle.step = "idle"
      BY DEF Mi!Idle
    <2>2. MigrationNoneSkipped(w)'
      BY <1>4, <2>1, MigrationSetWork DEF MigrationNoneSkipped, MigrationAtWork
    <2> QED
      BY <1>1, <1>4, <2>1, <2>2, MigrationGoesOn
  <1>5. CASE Mi!List(w)
    <2>1. PICK f \in worker[w].folders :
             LET uids == {n \in GivenUids : <<f, n>> \in server}
             IN Mi!Set(w, [worker[w] EXCEPT !.step = "mails", !.folder = f, !.folders = @ \ {f},
                              !.todo = uids \ Mi!Existing(f), !.existing = uids, !.copied = {}, !.failed = {},
                              !.cached = IF w = "request" THEN {n \in GivenUids : rows[<<f, n>>] # "none"} ELSE {}])
      BY <1>5 DEF Mi!List
    <2> DEFINE uids == {n \in GivenUids : <<f, n>> \in server}
               v == [worker[w] EXCEPT !.step = "mails", !.folder = f, !.folders = @ \ {f},
                              !.todo = uids \ Mi!Existing(f), !.existing = uids, !.copied = {}, !.failed = {},
                              !.cached = IF w = "request" THEN {n \in GivenUids : rows[<<f, n>>] # "none"} ELSE {}]
    <2>2. /\ v.step = "mails" /\ v.kind = worker[w].kind /\ v.folder = f /\ v.folders \subseteq worker[w].folders
          /\ v.existing \subseteq v.todo \cup Mi!Present(v.folder)
      BY <1>1 DEF MigrationCarried, Mi!Existing
    <2>3. Mi!Set(w, v) /\ status' = status
      BY <1>5, <2>1 DEF Mi!List
    <2> HIDE DEF v, uids
    <2>4. worker'[w] = v
      BY <2>3, MigrationSetWork
    <2>5. w \in Mi!Tasks => MigrationOwner(w)'
      BY <1>1, <1>2, <2>2, <2>3, <2>4 DEF MigrationOwner, MigrationAtWork, Mi!Running
    <2>6. MigrationNoneSkipped(w)'
      BY <1>1, <2>2, <2>4 DEF MigrationNoneSkipped, MigrationAtWork, Mi!Present
    <2> QED
      BY <1>1, <2>2, <2>3, <2>5, <2>6, MigrationGoesOn
  <1>6. CASE Mi!NotListed(w)
    <2>1. PICK f \in worker[w].folders :
             \/ Mi!Set(w, [worker[w] EXCEPT !.folders = @ \ {f}]) /\ UNCHANGED status
             \/ /\ Mi!Set(w, Mi!Idle)
                /\ w \in Mi!Tasks => Mi!finish_folder_task({}, {}, worker[w].kind = "folder")
                /\ w = "request" => UNCHANGED status
      BY <1>6 DEF Mi!NotListed
    <2>2. CASE Mi!Set(w, [worker[w] EXCEPT !.folders = @ \ {f}]) /\ UNCHANGED status
      <3> DEFINE v == [worker[w] EXCEPT !.folders = @ \ {f}]
      <3>1. v.step = "folder" /\ v.kind = worker[w].kind /\ v.folders \subseteq worker[w].folders
        BY <1>1, <1>6 DEF MigrationCarried, Mi!NotListed
      <3>2. Mi!Set(w, v) /\ status' = status
        BY <2>2
      <3> HIDE DEF v
      <3> QED
        BY <1>3, <3>1, <3>2
    <2>3. CASE /\ Mi!Set(w, Mi!Idle)
               /\ w \in Mi!Tasks => Mi!finish_folder_task({}, {}, worker[w].kind = "folder")
               /\ w = "request" => UNCHANGED status
      <3>1. CASE w \in Mi!Tasks
        BY <1>1, <2>3, <3>1, MigrationEnds
      <3>2. CASE w \notin Mi!Tasks
        BY <1>4, <2>3, <3>2 DEF Mi!Workers
      <3> QED
        BY <3>1, <3>2
    <2> QED
      BY <2>1, <2>2, <2>3
  <1>7. CASE Mi!FolderEnds(w)
    <2> DEFINE v == [Mi!Idle EXCEPT !.step = "folder", !.kind = worker[w].kind, !.folders = worker[w].folders]
    <2>1. v.step = "folder" /\ v.kind = worker[w].kind /\ v.folders = worker[w].folders
      BY DEF Mi!Idle
    <2>2. CASE Mi!Set(w, v) /\ UNCHANGED status
      BY <1>3, <2>1, <2>2
    <2>3. CASE /\ Mi!Set(w, Mi!Idle)
               /\ w \in Mi!Tasks => Mi!finish_folder_task(worker[w].existing, worker[w].failed, FALSE)
               /\ w = "request" => UNCHANGED status
      <3>1. ASSUME w \in Mi!Tasks, ~status.shared, status.kind = "folder"
            PROVE  \A n \in worker[w].existing \ worker[w].failed : target[<<status.folder, n>>].there
        <4>1. worker[w].step = "mails" /\ worker[w].kind = "folder" /\ worker[w].folder = status.folder
          BY <1>1, <1>2, <1>7, <3>1 DEF Mi!FolderEnds, MigrationOwner, MigrationAtWork
        <4>2. worker[w].todo = {}
          BY <1>7, <4>1 DEF Mi!FolderEnds
        <4> QED
          BY <1>2, <3>1, <4>1, <4>2 DEF MigrationNoneSkipped, MigrationAtWork, Mi!Present
      <3>2. worker[w].existing \in SUBSET GivenUids /\ worker[w].failed \in SUBSET GivenUids
        BY <1>1 DEF MigrationCarried
      <3>3. CASE w \in Mi!Tasks
        BY <1>1, <2>3, <3>1, <3>2, <3>3, MigrationEnds
      <3>4. CASE w \notin Mi!Tasks
        BY <1>4, <2>3, <3>4 DEF Mi!Workers
      <3> QED
        BY <3>3, <3>4
    <2> QED
      BY <1>7, <2>2, <2>3 DEF Mi!FolderEnds
  <1> QED
    BY <1>5, <1>6, <1>7

(* A task that was let in sets the status; beside another it is shared.    *)
LEMMA MigrationStartSteps ==
    ASSUME MigrationTyped, MigrationGenuine, MigrationReported,
           \/ \E w \in Mi!Tasks : \/ Mi!start_migration(w) \/ Mi!Begin(w)
                                  \/ \E f \in MailFolders : Mi!start_folder_migration(w, f)
           \/ Mi!copy_account \/ \E f \in MailFolders : Mi!copy_folder_endpoint(f)
    PROVE  MigrationReported'
  <1>1. Mi!Tasks \subseteq Mi!Workers /\ "request" \in Mi!Workers /\ "request" \notin Mi!Tasks
    BY DEF Mi!Workers, Mi!Tasks
  <1>2. ASSUME NEW w \in Mi!Tasks, NEW kind, NEW folders, NEW folder, Mi!Asked(w, kind, folders, folder),
               kind = "folder" => folder \in MailFolders /\ folders = {folder}
        PROVE  MigrationReported'
    <2> DEFINE v == [Mi!Idle EXCEPT !.step = "starting", !.kind = kind, !.folders = folders, !.folder = folder]
    <2>1. v.step = "starting" /\ v.kind = kind /\ v.folders = folders /\ v.folder = folder
      BY DEF Mi!Idle
    <2>2. Mi!Set(w, v) /\ status' = status /\ MigrationTargetGrows /\ w \in Mi!Workers
      BY <1>1, <1>2 DEF Mi!Asked, Mi!Copies, MigrationTargetGrows
    <2> HIDE DEF v
    <2>3. MigrationNoneSkipped(w)'
      BY <2>1, <2>2, MigrationSetWork DEF MigrationNoneSkipped, MigrationAtWork
    <2> QED
      BY <1>2, <2>1, <2>2, <2>3, MigrationGoesOn
  <1>3. ASSUME NEW kind, NEW folders, Mi!Requested(kind, folders) PROVE MigrationReported'
    <2> DEFINE v == [Mi!Idle EXCEPT !.step = "folder", !.kind = kind, !.folders = folders]
    <2>1. v.step = "folder"
      BY DEF Mi!Idle
    <2>2. Mi!Set("request", v) /\ status' = status /\ MigrationTargetGrows
      BY <1>3 DEF Mi!Requested, Mi!Copies, MigrationTargetGrows
    <2> HIDE DEF v
    <2>3. MigrationNoneSkipped("request")'
      BY <1>1, <2>1, <2>2, MigrationSetWork DEF MigrationNoneSkipped, MigrationAtWork
    <2> QED
      BY <1>1, <2>1, <2>2, <2>3, MigrationGoesOn
  <1>4. ASSUME NEW w \in Mi!Tasks, Mi!Begin(w) PROVE MigrationReported'
    <2> DEFINE v == [worker[w] EXCEPT !.step = "folder"]
    <2>1. worker[w] \in MigrationCarried /\ worker[w].step = "starting" /\ w \in Mi!Workers
      BY <1>1, <1>4 DEF MigrationTyped, Mi!Begin
    <2>2. v.step = "folder" /\ v.kind = worker[w].kind /\ v.folders = worker[w].folders
      BY <2>1 DEF MigrationCarried
    <2>3. worker'[w] = v /\ \A u \in Mi!Workers : u # w => worker'[u] = worker[u]
      BY <1>4, <2>1, MigrationSetWork DEF Mi!Begin
    <2>4. /\ ~status'.done /\ status'.kind = worker[w].kind /\ status'.folder = worker[w].folder
          /\ status'.shared = \E u \in Mi!Tasks \ {w} : Mi!Running(u)
          /\ target' = target
      BY <1>4 DEF Mi!Begin, Mi!NoStatus, Mi!Copies
    <2> HIDE DEF v
    <2>5. MigrationStarts' /\ MigrationDone'
      BY <2>1, <2>2, <2>3, <2>4 DEF MigrationReported, MigrationStarts, MigrationDone
    <2>6. ~status'.shared => \A u \in Mi!Tasks : u # w => ~Mi!Running(u)'
      BY <1>1, <2>3, <2>4 DEF Mi!Running
    <2>7. MigrationAlone'
      BY <2>6 DEF MigrationAlone
    <2>8. ASSUME NEW u \in Mi!Tasks PROVE MigrationOwner(u)' /\ MigrationNoneSkipped(u)'
      <3>1. CASE u = w
        BY <2>1, <2>2, <2>3, <2>4, <3>1
           DEF MigrationOwner, MigrationNoneSkipped, MigrationAtWork, MigrationReported, MigrationStarts
      <3>2. CASE u # w
        BY <1>1, <2>3, <2>4, <2>6, <3>2
           DEF MigrationOwner, MigrationNoneSkipped, MigrationAtWork, MigrationReported, Mi!Present
      <3> QED
        BY <3>1, <3>2
    <2> QED
      BY <2>5, <2>7, <2>8 DEF MigrationReported
  <1> QED
    BY <1>2, <1>3, <1>4 DEF Mi!start_migration, Mi!start_folder_migration, Mi!copy_account, Mi!copy_folder_endpoint

(* A reset takes back what was listed with the rows; a restart forgets.    *)
LEMMA MigrationAroundSteps ==
    ASSUME MigrationTyped, MigrationReported,
           \/ Mi!reset_target \/ Mi!Restart \/ UNCHANGED Mi!vars
           \/ \E p \in Mi!Places : Mi!Arrives(p) \/ Mi!Gone(p) \/ Mi!Archived(p) \/ Mi!Pruned(p)
    PROVE  MigrationReported'
  <1>1. Mi!Tasks \subseteq Mi!Workers
    BY DEF Mi!Workers
  <1>2. CASE Mi!WipeRows
    <2>1. \A w \in Mi!Workers : /\ worker'[w] = [worker[w] EXCEPT !.existing = {}]
                                /\ worker[w] \in MigrationCarried
      BY <1>2 DEF Mi!WipeRows, MigrationTyped
    <2>2. \A w \in Mi!Workers :
             /\ worker'[w].step = worker[w].step /\ worker'[w].kind = worker[w].kind
             /\ worker'[w].folders = worker[w].folders /\ worker'[w].folder = worker[w].folder
             /\ worker'[w].existing = {}
      BY <2>1 DEF MigrationCarried
    <2>3. /\ status'.listed = {} /\ status'.done = status.done /\ status'.kind = status.kind
          /\ status'.folder = status.folder /\ status'.shared = status.shared
      BY <1>2 DEF Mi!WipeRows, MigrationTyped, MigrationReport
    <2>4. MigrationStarts' /\ MigrationDone'
      BY <2>2, <2>3 DEF MigrationReported, MigrationStarts, MigrationDone
    <2>5. MigrationAlone' /\ \A w \in Mi!Tasks : MigrationOwner(w)' /\ MigrationNoneSkipped(w)'
      BY <1>1, <2>2, <2>3 DEF MigrationReported, MigrationAlone, MigrationOwner, MigrationNoneSkipped,
         MigrationAtWork, Mi!Running
    <2> QED
      BY <2>4, <2>5 DEF MigrationReported
  <1>3. CASE Mi!Restart
    <2>1. (\A w \in Mi!Workers : worker'[w].step = "idle") /\ ~status'.done /\ status'.kind = "all"
      BY <1>3 DEF Mi!Restart, Mi!Idle, Mi!NoStatus
    <2> QED
      BY <1>1, <2>1 DEF MigrationReported, MigrationStarts, MigrationAlone, MigrationDone, MigrationOwner,
         MigrationNoneSkipped, MigrationAtWork, Mi!Running
  <1>4. ASSUME UNCHANGED <<target, worker, status>> PROVE MigrationReported'
    BY <1>4 DEF MigrationReported, MigrationStarts, MigrationAlone, MigrationDone, MigrationOwner,
       MigrationNoneSkipped, MigrationAtWork, Mi!Running, Mi!Present
  <1> QED
    BY <1>2, <1>3, <1>4 DEF Mi!reset_target, Mi!RemoveFiles, Mi!Arrives, Mi!Gone, Mi!Archived, Mi!Pruned,
       Mi!Copies, Mi!vars

LEMMA MigrationStaysReported ==
    ASSUME MigrationTyped, MigrationGenuine, MigrationReported, [Mi!Next]_Mi!vars PROVE MigrationReported'
  <1>1. ASSUME NEW w \in Mi!Workers,
               Mi!List(w) \/ Mi!NotListed(w) \/ Mi!FolderEnds(w) \/ Mi!copy_one_message(w)
        PROVE  MigrationReported'
    BY <1>1, MigrationFolderSteps, MigrationMailSteps
  <1> QED
    BY <1>1, MigrationStartSteps, MigrationAroundSteps DEF Mi!Next

-----------------------------------------------------------------------------
LEMMA MigrationTypeOK == ASSUME Mi!MigrationAssumption PROVE MigrationInv => Mi!TypeOK
  <1> SUFFICES ASSUME MigrationTyped PROVE Mi!TypeOK
    BY DEF MigrationInv
  <1>1. \A x \in MigrationHeads : x \in Mi!Mails
    BY DEF MigrationHeads, Mi!Mails
  <1>2. worker \in [Mi!Workers -> [step : MigrationSteps, kind : Mi!Kinds, folders : SUBSET MailFolders,
                     folder : MailFolders \cup {Absent}, todo : SUBSET GivenUids, existing : SUBSET GivenUids,
                     cached : SUBSET GivenUids, copied : SUBSET GivenUids, failed : SUBSET GivenUids,
                     number : GivenUids \cup {0}, head : Mi!Mails, bytes : Mi!Mails]]
    BY <1>1 DEF MigrationTyped, MigrationCarried
  <1>3. reset \in [open : 0 .. MaxResets, torn : BOOLEAN]
    <2>1. changes \in 0 .. MaxResets /\ reset \in [open : 0 .. changes, torn : BOOLEAN]
      BY DEF MigrationTyped, MigrationAmounts
    <2>2. 0 .. changes \subseteq 0 .. MaxResets
      BY <2>1 DEF Mi!MigrationAssumption
    <2>3. \A A, B : A \subseteq B => [open : A, torn : BOOLEAN] \subseteq [open : B, torn : BOOLEAN]
      OBVIOUS
    <2> QED
      BY <2>1, <2>2, <2>3
  <1> QED
    BY <1>2, <1>3 DEF MigrationTyped, MigrationSource, Mi!TypeOK, MigrationReport, MigrationCopy, MigrationAmounts,
       MigrationSteps

LEMMA MigrationInitially == ASSUME Mi!MigrationAssumption, Mi!Init PROVE MigrationInv
  <1>1. /\ Mi!NoMail \in Mi!Mails /\ Mi!OwnMail \in Mi!Mails /\ Mi!NoMail \in MigrationHeads
    BY DEF Mi!Mails, MigrationHeads
  <1>2. /\ Mi!Idle \in MigrationCarried /\ Mi!Idle.step = "idle"
        /\ Mi!NoStatus \in MigrationReport /\ ~Mi!NoStatus.done /\ Mi!NoStatus.kind = "all"
    BY <1>1 DEF Mi!Idle, Mi!NoStatus, MigrationCarried, MigrationSteps, MigrationReport, Mi!Kinds
  <1>3. /\ Mi!NoCopy \in MigrationCopy /\ ~Mi!NoCopy.there
        /\ Mi!OwnCopy \in MigrationCopy /\ Mi!OwnCopy.head = Mi!OwnMail
    BY <1>1 DEF Mi!NoCopy, Mi!OwnCopy, MigrationCopy
  <1>4. MigrationAmounts /\ MigrationSource
    BY DEF Mi!Init, MigrationAmounts, MigrationSource, Mi!MigrationAssumption
  <1>5. worker \in [Mi!Workers -> MigrationCarried] /\ \A w \in Mi!Workers : worker[w].step = "idle"
    BY <1>2 DEF Mi!Init
  <1>6. target \in [Mi!Places -> MigrationCopy] /\ files \in [Mi!Paths -> Mi!Mails]
    BY <1>1, <1>3 DEF Mi!Init
  <1>7. MigrationTyped
    BY <1>2, <1>4, <1>5, <1>6 DEF Mi!Init, MigrationTyped, MigrationNumbered
  <1>8. MigrationGenuine
    <2>1. \A p \in Mi!Places : ~target[p].there \/ target[p].head = Mi!OwnMail
      BY <1>3 DEF Mi!Init
    <2> QED
      BY <1>5, <2>1 DEF Mi!Init, MigrationGenuine, MigrationHonest, MigrationAtWork, MigrationFiles, MigrationLeads
  <1>9. MigrationReported
    BY <1>2, <1>5 DEF Mi!Init, Mi!Workers, MigrationReported, MigrationStarts, MigrationAlone, MigrationDone,
       MigrationOwner, MigrationNoneSkipped, MigrationAtWork, Mi!Running
  <1> QED
    BY <1>7, <1>8, <1>9 DEF MigrationInv

LEMMA MigrationTypedStep ==
    ASSUME Mi!MigrationAssumption, MigrationTyped, [Mi!Next]_Mi!vars PROVE MigrationTyped'
  <1>1. /\ MigrationSource
        /\ target \in [Mi!Places -> MigrationCopy] /\ files \in [Mi!Paths -> Mi!Mails]
        /\ worker \in [Mi!Workers -> MigrationCarried] /\ status \in MigrationReport
        /\ MigrationNumbered /\ MigrationAmounts
        /\ Mi!Tasks \subseteq Mi!Workers /\ "request" \in Mi!Workers /\ "request" \notin Mi!Tasks
    BY DEF MigrationTyped, Mi!Workers, Mi!Tasks
  <1> USE <1>1
  <1>2. /\ MaxMigrations \in Nat /\ MaxErrors \in Nat /\ MaxResets \in Nat
        /\ Mi!NoMail \in Mi!Mails /\ Mi!NoMail \in MigrationHeads /\ Mi!EmptyMail \in Mi!Mails
        /\ \A p \in Mi!Places : p \in Mi!Mails /\ p \in MigrationHeads
        /\ \A h \in MigrationHeads : h \in Mi!Mails /\ Mi!Rebuilt(h) \in Mi!Mails
    BY DEF Mi!MigrationAssumption, Mi!Mails, MigrationHeads, Mi!Rebuilt
  <1>3. Mi!Idle \in MigrationCarried /\ Mi!Idle.step = "idle" /\ Mi!NoStatus \in MigrationReport
    BY <1>2 DEF Mi!Idle, Mi!NoStatus, MigrationCarried, MigrationSteps, MigrationReport, Mi!Kinds
  <1>4. /\ Mi!Starts /\ UNCHANGED <<errors, changes, reset>> => MigrationAmounts'
        /\ Mi!Fails /\ UNCHANGED <<starts, changes, reset>> => MigrationAmounts'
        /\ Mi!Changes /\ UNCHANGED <<starts, errors, reset>> => MigrationAmounts'
        /\ UNCHANGED <<starts, errors, changes, reset>> => MigrationAmounts'
    <2>1. /\ starts \in 0 .. MaxMigrations /\ errors \in 0 .. MaxErrors /\ changes \in 0 .. MaxResets
          /\ reset \in [open : 0 .. changes, torn : BOOLEAN]
      BY DEF MigrationAmounts
    <2>2. 0 .. changes \subseteq 0 .. changes + 1
      BY <1>2, <2>1
    <2>3. \A A, B : A \subseteq B => [open : A, torn : BOOLEAN] \subseteq [open : B, torn : BOOLEAN]
      OBVIOUS
    <2>4. reset \in [open : 0 .. changes + 1, torn : BOOLEAN]
      BY <2>1, <2>2, <2>3
    <2> QED
      BY <1>2, <2>1, <2>4 DEF Mi!Starts, Mi!Fails, Mi!Changes, Mi!Room, MigrationAmounts
  <1>5. ASSUME NEW w \in Mi!Workers, NEW v \in MigrationCarried, Mi!Set(w, v),
               v.step \in {"read", "write", "insert"} => v.number \in GivenUids
        PROVE  worker' \in [Mi!Workers -> MigrationCarried] /\ MigrationNumbered'
    BY <1>5 DEF Mi!Set, MigrationNumbered
  <1>6. ASSUME NEW w \in Mi!Workers, Mi!Set(w, Mi!Idle)
        PROVE  worker' \in [Mi!Workers -> MigrationCarried] /\ MigrationNumbered'
    BY <1>3, <1>5, <1>6
  (* One worker goes on; the source stays as it is. *)
  <1>7. ASSUME UNCHANGED <<server, rows, ever>>, target' \in [Mi!Places -> MigrationCopy],
               files' \in [Mi!Paths -> Mi!Mails], MigrationAmounts', status' \in MigrationReport,
               worker' \in [Mi!Workers -> MigrationCarried] /\ MigrationNumbered'
        PROVE  MigrationTyped'
    BY <1>7 DEF MigrationTyped, MigrationSource
  <1>8. ASSUME NEW w \in Mi!Workers
        PROVE  /\ worker[w] \in MigrationCarried
               /\ worker[w].folders \subseteq MailFolders /\ worker[w].todo \subseteq GivenUids
               /\ worker[w].existing \subseteq GivenUids /\ worker[w].copied \subseteq GivenUids
               /\ worker[w].failed \subseteq GivenUids /\ worker[w].head \in MigrationHeads
               /\ worker[w].bytes \in Mi!Mails /\ worker[w].kind \in Mi!Kinds
               /\ worker[w].folder \in MailFolders \cup {Absent}
    BY DEF MigrationCarried
  <1>9. ASSUME NEW L \in SUBSET GivenUids, NEW F \in SUBSET GivenUids, NEW error \in BOOLEAN,
               Mi!finish_folder_task(L, F, error)
        PROVE  status' \in MigrationReport
    BY <1>9 DEF Mi!finish_folder_task, MigrationReport
  <1>10. ASSUME NEW w \in Mi!Tasks, NEW kind \in Mi!Kinds, NEW folders \in SUBSET MailFolders,
                NEW folder \in MailFolders \cup {Absent}, Mi!Asked(w, kind, folders, folder)
         PROVE  MigrationTyped'
    <2> DEFINE v == [Mi!Idle EXCEPT !.step = "starting", !.kind = kind, !.folders = folders, !.folder = folder]
    <2>1. v \in MigrationCarried /\ v.step = "starting"
      BY <1>3 DEF MigrationCarried, MigrationSteps
    <2>2. Mi!Set(w, v) /\ w \in Mi!Workers
      BY <1>10 DEF Mi!Asked
    <2> HIDE DEF v
    <2>3. worker' \in [Mi!Workers -> MigrationCarried] /\ MigrationNumbered'
      BY <1>5, <2>1, <2>2
    <2> QED
      BY <1>4, <1>7, <1>10, <2>3 DEF Mi!Asked, Mi!Mailbox, Mi!Copies
  <1>11. ASSUME NEW w \in Mi!Tasks, Mi!Begin(w) PROVE MigrationTyped'
    <2> DEFINE v == [worker[w] EXCEPT !.step = "folder"]
               s == [Mi!NoStatus EXCEPT !.running = TRUE, !.kind = worker[w].kind, !.folder = worker[w].folder,
                                        !.shared = \E u \in Mi!Tasks \ {w} : Mi!Running(u)]
    <2>1. v \in MigrationCarried /\ v.step = "folder" /\ w \in Mi!Workers
      BY <1>8 DEF MigrationCarried, MigrationSteps
    <2>2. s \in MigrationReport
      <3>1. (\E u \in Mi!Tasks \ {w} : Mi!Running(u)) \in BOOLEAN
        OBVIOUS
      <3> QED
        BY <1>3, <1>8, <2>1, <3>1 DEF MigrationReport
    <2>3. Mi!Set(w, v) /\ status' = s
      BY <1>11 DEF Mi!Begin
    <2> HIDE DEF v, s
    <2>4. worker' \in [Mi!Workers -> MigrationCarried] /\ MigrationNumbered'
      BY <1>5, <2>1, <2>3
    <2> QED
      BY <1>4, <1>7, <1>11, <2>2, <2>3, <2>4 DEF Mi!Begin, Mi!Mailbox, Mi!Copies
  <1>12. ASSUME NEW kind \in Mi!Kinds, NEW folders \in SUBSET MailFolders, Mi!Requested(kind, folders)
         PROVE  MigrationTyped'
    <2> DEFINE v == [Mi!Idle EXCEPT !.step = "folder", !.kind = kind, !.folders = folders]
    <2>1. v \in MigrationCarried /\ v.step = "folder"
      BY <1>3 DEF MigrationCarried, MigrationSteps
    <2>2. Mi!Set("request", v)
      BY <1>12 DEF Mi!Requested
    <2> HIDE DEF v
    <2>3. worker' \in [Mi!Workers -> MigrationCarried] /\ MigrationNumbered'
      BY <1>5, <2>1, <2>2
    <2> QED
      BY <1>4, <1>7, <1>12, <2>3 DEF Mi!Requested, Mi!Mailbox, Mi!Copies
  <1>13. ASSUME NEW w \in Mi!Workers, Mi!List(w) PROVE MigrationTyped'
    <2>1. PICK f \in worker[w].folders :
             LET uids == {n \in GivenUids : <<f, n>> \in server}
             IN Mi!Set(w, [worker[w] EXCEPT !.step = "mails", !.folder = f, !.folders = @ \ {f},
                              !.todo = uids \ Mi!Existing(f), !.existing = uids, !.copied = {}, !.failed = {},
                              !.cached = IF w = "request" THEN {n \in GivenUids : rows[<<f, n>>] # "none"} ELSE {}])
      BY <1>13 DEF Mi!List
    <2> DEFINE uids == {n \in GivenUids : <<f, n>> \in server}
               kept == IF w = "request" THEN {n \in GivenUids : rows[<<f, n>>] # "none"} ELSE {}
               v == [worker[w] EXCEPT !.step = "mails", !.folder = f, !.folders = @ \ {f},
                                      !.todo = uids \ Mi!Existing(f), !.existing = uids,
                                      !.copied = {}, !.failed = {}, !.cached = kept]
    <2>2. kept \subseteq GivenUids /\ uids \subseteq GivenUids
      OBVIOUS
    <2>3. Mi!Set(w, v)
      BY <2>1
    <2> HIDE DEF kept, uids
    <2>4. v \in MigrationCarried /\ v.step = "mails"
      BY <1>8, <2>1, <2>2 DEF MigrationCarried, MigrationSteps
    <2> HIDE DEF v
    <2>5. worker' \in [Mi!Workers -> MigrationCarried] /\ MigrationNumbered'
      BY <1>5, <2>3, <2>4
    <2> QED
      BY <1>4, <1>7, <1>13, <2>5 DEF Mi!List, Mi!Mailbox, Mi!Copies
  <1>14. ASSUME NEW w \in Mi!Workers, Mi!NotListed(w) PROVE MigrationTyped'
    <2>1. PICK f \in worker[w].folders :
             \/ Mi!Set(w, [worker[w] EXCEPT !.folders = @ \ {f}]) /\ UNCHANGED status
             \/ /\ Mi!Set(w, Mi!Idle)
                /\ w \in Mi!Tasks => Mi!finish_folder_task({}, {}, worker[w].kind = "folder")
                /\ w = "request" => UNCHANGED status
      BY <1>14 DEF Mi!NotListed
    <2>2. status' \in MigrationReport
      BY <1>9, <2>1 DEF Mi!Workers
    <2> DEFINE v == [worker[w] EXCEPT !.folders = @ \ {f}]
    <2>3. v \in MigrationCarried /\ v.step = worker[w].step /\ v.number = worker[w].number
      BY <1>8 DEF MigrationCarried
    <2> HIDE DEF v
    <2>4. Mi!Set(w, v) \/ Mi!Set(w, Mi!Idle)
      BY <2>1 DEF v
    <2>5. worker' \in [Mi!Workers -> MigrationCarried] /\ MigrationNumbered'
      BY <1>5, <1>6, <2>3, <2>4 DEF MigrationNumbered
    <2> QED
      BY <1>4, <1>7, <1>14, <2>2, <2>5 DEF Mi!NotListed, Mi!Mailbox, Mi!Copies
  <1>15. ASSUME NEW w \in Mi!Workers, Mi!FolderEnds(w) PROVE MigrationTyped'
    <2>1. status' \in MigrationReport
      BY <1>8, <1>9, <1>15 DEF Mi!FolderEnds, Mi!Workers
    <2> DEFINE v == [Mi!Idle EXCEPT !.step = "folder", !.kind = worker[w].kind, !.folders = worker[w].folders]
    <2>2. v \in MigrationCarried /\ v.step = "folder"
      BY <1>3, <1>8 DEF MigrationCarried, MigrationSteps
    <2> HIDE DEF v
    <2>3. Mi!Set(w, v) \/ Mi!Set(w, Mi!Idle)
      BY <1>15 DEF Mi!FolderEnds, v
    <2>4. worker' \in [Mi!Workers -> MigrationCarried] /\ MigrationNumbered'
      BY <1>5, <1>6, <2>2, <2>3
    <2> QED
      BY <1>4, <1>7, <1>15, <2>1, <2>4 DEF Mi!FolderEnds, Mi!Mailbox, Mi!Copies
  <1>16. ASSUME NEW w \in Mi!Workers, Mi!Look(w) PROVE MigrationTyped'
    <2>1. PICK n \in worker[w].todo :
             Mi!Set(w, [worker[w] EXCEPT !.step = "read", !.number = n,
                            !.cached = IF w \in Mi!Tasks THEN {m \in {n} : Mi!RowsOf(m) # {}} ELSE @])
      BY <1>16 DEF Mi!Look
    <2> DEFINE v == [worker[w] EXCEPT !.step = "read", !.number = n,
                            !.cached = IF w \in Mi!Tasks THEN {m \in {n} : Mi!RowsOf(m) # {}} ELSE @]
    <2>2. v \in MigrationCarried /\ v.number = n /\ n \in GivenUids
      BY <1>8 DEF MigrationCarried, MigrationSteps
    <2>3. Mi!Set(w, v)
      BY <2>1
    <2> HIDE DEF v
    <2>4. worker' \in [Mi!Workers -> MigrationCarried] /\ MigrationNumbered'
      BY <1>5, <2>2, <2>3
    <2> QED
      BY <1>4, <1>7, <1>16, <2>4 DEF Mi!Look, Mi!Mailbox, Mi!Copies
  <1>17. ASSUME NEW w \in Mi!Workers, NEW copied \in SUBSET GivenUids, NEW failed \in SUBSET GivenUids,
                Mi!GoesOn(w, copied, failed)
         PROVE  worker' \in [Mi!Workers -> MigrationCarried] /\ MigrationNumbered'
    <2> DEFINE v == [worker[w] EXCEPT !.step = "mails", !.todo = @ \ {worker[w].number}, !.number = 0,
                                    !.head = Mi!NoMail, !.bytes = Mi!NoMail, !.copied = @ \cup copied,
                                    !.failed = @ \cup failed]
    <2>1. v \in MigrationCarried /\ v.step = "mails"
      BY <1>2, <1>8 DEF MigrationCarried, MigrationSteps
    <2>2. Mi!Set(w, v)
      BY <1>17 DEF Mi!GoesOn
    <2> HIDE DEF v
    <2> QED
      BY <1>5, <2>1, <2>2
  <1>18. ASSUME NEW w \in Mi!Workers, Mi!Read(w) PROVE MigrationTyped'
    <2> DEFINE number == worker[w].number
    <2>1. PICK h \in Mi!Heads(number) :
             \/ Mi!Take(w, h, h) \/ Mi!Skip(w) \/ Mi!Take(w, h, Mi!Rebuilt(h))
             \/ <<worker[w].folder, number>> \in server /\ Mi!Take(w, h, <<worker[w].folder, number>>)
      BY <1>18 DEF Mi!Read
    <2>2. number \in GivenUids /\ h \in MigrationHeads
      BY <1>2, <1>18 DEF Mi!Heads, Mi!RowsOf, Mi!Read, MigrationNumbered
    <2>3. <<worker[w].folder, number>> \in server => <<worker[w].folder, number>> \in Mi!Mails
      BY <1>2 DEF MigrationSource
    <2>4. ASSUME NEW b \in Mi!Mails, Mi!Take(w, h, b)
          PROVE  worker' \in [Mi!Workers -> MigrationCarried] /\ MigrationNumbered'
      <3> DEFINE v == [worker[w] EXCEPT !.step = "write", !.head = h, !.bytes = b]
      <3>1. v \in MigrationCarried /\ v.number = number
        BY <1>8, <2>2 DEF MigrationCarried, MigrationSteps
      <3>2. Mi!Set(w, v)
        BY <2>4 DEF Mi!Take
      <3> HIDE DEF v
      <3> QED
        BY <1>5, <2>2, <3>1, <3>2
    <2>5. Mi!Skip(w) => worker' \in [Mi!Workers -> MigrationCarried] /\ MigrationNumbered'
      BY <1>17, <2>2 DEF Mi!Skip
    <2>6. worker' \in [Mi!Workers -> MigrationCarried] /\ MigrationNumbered'
      BY <1>2, <2>1, <2>2, <2>3, <2>4, <2>5
    <2>7. Mi!Fails \/ UNCHANGED errors
      BY <1>18 DEF Mi!Read
    <2>8. UNCHANGED <<server, rows, ever, target, files, reset, status, starts, changes>>
      BY <1>18 DEF Mi!Read, Mi!Mailbox, Mi!Copies
    <2> QED
      BY <1>4, <1>7, <2>6, <2>7, <2>8
  <1>19. ASSUME NEW w \in Mi!Workers, Mi!WriteFile(w) PROVE MigrationTyped'
    <2> DEFINE v == [worker[w] EXCEPT !.step = "insert"]
    <2>1. v \in MigrationCarried /\ v.number = worker[w].number
      BY <1>8 DEF MigrationCarried, MigrationSteps
    <2>2. Mi!Set(w, v) /\ worker[w].step = "write"
      BY <1>19 DEF Mi!WriteFile
    <2> HIDE DEF v
    <2>3. worker' \in [Mi!Workers -> MigrationCarried] /\ MigrationNumbered'
      BY <1>5, <2>1, <2>2 DEF MigrationNumbered
    <2>4. files' \in [Mi!Paths -> Mi!Mails]
      BY <1>8, <1>19 DEF Mi!WriteFile
    <2> QED
      BY <1>4, <1>7, <1>19, <2>3, <2>4 DEF Mi!WriteFile, Mi!Mailbox
  <1>20. ASSUME NEW w \in Mi!Workers, Mi!Insert(w) PROVE MigrationTyped'
    <2> DEFINE path == <<worker[w].number, worker[w].head>>
               place == <<worker[w].folder, worker[w].number>>
               copy == [there |-> TRUE, head |-> worker[w].head, path |-> path]
    <2>1. worker[w].number \in GivenUids /\ worker[w].head \in MigrationHeads /\ worker[w].head \in Mi!Mails
      BY <1>2, <1>8, <1>20 DEF Mi!Insert, MigrationNumbered
    <2>2. path \in Mi!Paths
      BY <2>1 DEF Mi!Paths, MigrationHeads
    <2>3. copy \in MigrationCopy
      BY <2>1, <2>2 DEF MigrationCopy
    <2>4. /\ Mi!GoesOn(w, {}, {worker[w].number}) \/ Mi!GoesOn(w, {worker[w].number}, {})
          /\ target' = target \/ target' = [target EXCEPT ![place] = copy]
      BY <1>20 DEF Mi!Insert, Mi!Skip
    <2> HIDE DEF copy, path, place
    <2>5. target' \in [Mi!Places -> MigrationCopy]
      BY <2>3, <2>4
    <2>6. worker' \in [Mi!Workers -> MigrationCarried] /\ MigrationNumbered'
      <3> DEFINE none == {}
                 one == {worker[w].number}
      <3>1. none \in SUBSET GivenUids /\ one \in SUBSET GivenUids
        BY <2>1
      <3>2. Mi!GoesOn(w, none, one) \/ Mi!GoesOn(w, one, none)
        BY <2>4
      <3> HIDE DEF none, one
      <3> QED
        BY <1>17, <3>1, <3>2
    <2> QED
      BY <1>4, <1>7, <1>20, <2>5, <2>6 DEF Mi!Insert, Mi!Mailbox
  <1>21. ASSUME Mi!RemoveFiles PROVE MigrationTyped'
    <2>1. files' \in [Mi!Paths -> Mi!Mails]
      BY <1>2, <1>21 DEF Mi!RemoveFiles
    <2>2. MigrationAmounts'
      BY <1>2, <1>21 DEF Mi!RemoveFiles, Mi!Changes, MigrationAmounts
    <2> QED
      BY <1>7, <1>21, <2>1, <2>2 DEF Mi!RemoveFiles, Mi!Mailbox, MigrationNumbered
  <1>22. ASSUME Mi!WipeRows PROVE MigrationTyped'
    <2>1. Mi!NoCopy \in MigrationCopy
      BY <1>2 DEF Mi!NoCopy, MigrationCopy
    <2>2. [status EXCEPT !.listed = {}] \in MigrationReport
      BY DEF MigrationReport
    <2>3. \A w \in Mi!Workers : /\ [worker[w] EXCEPT !.existing = {}] \in MigrationCarried
                                /\ [worker[w] EXCEPT !.existing = {}].step = worker[w].step
                                /\ [worker[w] EXCEPT !.existing = {}].number = worker[w].number
      BY DEF MigrationCarried
    <2>4. worker' \in [Mi!Workers -> MigrationCarried] /\ MigrationNumbered'
      BY <1>22, <2>3 DEF Mi!WipeRows, MigrationNumbered
    <2>5. target' \in [Mi!Places -> MigrationCopy]
      BY <1>22, <2>1 DEF Mi!WipeRows
    <2>6. MigrationAmounts'
      <3>1. PICK n \in 0 .. 1 : reset' = [open |-> reset.open - n, torn |-> FALSE]
        BY <1>22 DEF Mi!WipeRows
      <3>2. reset.open \in 0 .. changes /\ reset.open > 0 /\ changes \in Nat
        BY <1>2, <1>22 DEF Mi!WipeRows, MigrationAmounts
      <3>3. reset.open - n \in 0 .. changes
        BY <3>2
      <3> QED
        BY <1>22, <3>1, <3>3 DEF Mi!WipeRows, MigrationAmounts
    <2> QED
      BY <1>7, <1>22, <2>2, <2>4, <2>5, <2>6 DEF Mi!WipeRows, Mi!Mailbox
  <1>23. ASSUME NEW p \in Mi!Places, Mi!Arrives(p) \/ Mi!Gone(p) \/ Mi!Archived(p) \/ Mi!Pruned(p)
         PROVE  MigrationTyped'
    <2>1. MigrationSource'
      BY <1>23 DEF Mi!Arrives, Mi!Gone, Mi!Archived, Mi!Pruned, MigrationSource
    <2>2. UNCHANGED <<target, files, worker, status>> /\ MigrationAmounts'
      BY <1>4, <1>23 DEF Mi!Arrives, Mi!Gone, Mi!Archived, Mi!Pruned, Mi!Copies
    <2> QED
      BY <2>1, <2>2 DEF MigrationTyped, MigrationNumbered
  <1>24. ASSUME Mi!Restart PROVE MigrationTyped'
    <2>1. worker' \in [Mi!Workers -> MigrationCarried] /\ MigrationNumbered'
      BY <1>3, <1>24 DEF Mi!Restart, MigrationNumbered
    <2>2. reset' \in [open : 0 .. changes', torn : BOOLEAN]
      BY <1>24 DEF Mi!Restart, Mi!Changes, MigrationAmounts
    <2>3. MigrationAmounts'
      BY <1>2, <1>24, <2>2 DEF Mi!Restart, Mi!Changes, MigrationAmounts
    <2> QED
      BY <1>3, <1>7, <1>24, <2>1, <2>3 DEF Mi!Restart, Mi!Mailbox
  <1>25. ASSUME UNCHANGED Mi!vars PROVE MigrationTyped'
    BY <1>25 DEF Mi!vars, MigrationTyped, MigrationSource, MigrationNumbered, MigrationAmounts
  <1>26. ASSUME NEW w \in Mi!Tasks,
                Mi!start_migration(w) \/ Mi!Begin(w) \/ \E f \in MailFolders : Mi!start_folder_migration(w, f)
         PROVE  MigrationTyped'
    BY <1>10, <1>11, <1>26 DEF Mi!start_migration, Mi!start_folder_migration, Mi!Kinds
  <1>27. ASSUME Mi!copy_account \/ \E f \in MailFolders : Mi!copy_folder_endpoint(f) PROVE MigrationTyped'
    BY <1>12, <1>27 DEF Mi!copy_account, Mi!copy_folder_endpoint, Mi!Kinds
  <1> QED
    BY <1>13, <1>14, <1>15, <1>16, <1>18, <1>19, <1>20, <1>21, <1>22, <1>23, <1>24, <1>25, <1>26, <1>27
       DEF Mi!Next, Mi!copy_one_message, Mi!reset_target

LEMMA MigrationInductive ==
    ASSUME Mi!MigrationAssumption, MigrationInv, [Mi!Next]_Mi!vars PROVE MigrationInv'
  BY MigrationTypedStep, MigrationStaysGenuine, MigrationStaysReported DEF MigrationInv
=============================================================================
