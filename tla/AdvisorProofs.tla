---------------------------- MODULE AdvisorProofs ---------------------------
(***************************************************************************)
(* What the gateway to the language models, the assistant, the ideas, the  *)
(* summaries and the learning keep true: the inductive invariant of each   *)
(* holds at first and every step keeps it, for any users, plans, memos,    *)
(* endpoints, mails and bounds.                                            *)
(***************************************************************************)
EXTENDS Advisor, FiniteSetTheorems, SequenceTheorems, TLAPS

-----------------------------------------------------------------------------
(***************************************************************************)
(* The gateway: one holder of a client at a time, and a breaker on         *)
(* probation watches a probe (ai/client.rs, ai/circuit_breaker.rs).        *)
(***************************************************************************)
GatewayConstants == Ai!KindsAssumption /\ Ai!GatewayAssumption

(* Who is about to try again has a try left. *)
GatewayTriesLeft == \A r \in Ai!Requests : at[r] = "backoff" => attempt[r] < MaxRetries

(* OneCallPerClient without counting. *)
GatewayOneHolder == \A r, s \in Users \cup Background :
                       (uses[r] = uses[s] /\ {at[r], at[s]} \subseteq Ai!Steps \ {"idle", "admitted"}) => r = s

(* A half-open breaker has a probe under way, or lost one. *)
GatewayProbeUnderWay(c) == \E r \in breaker[c].probes \ Streams : uses[r] = c /\ at[r] # "idle"
GatewayWatched == \A c \in Ai!Clients : breaker[c].state = "halfOpen" /\ ~breaker[c].lost => GatewayProbeUnderWay(c)

GatewayInv == Ai!TypeOK /\ GatewayTriesLeft /\ GatewayOneHolder /\ GatewayWatched

USE DEF GatewayConstants, Ai!KindsAssumption, Ai!GatewayAssumption

(* The module counts as the theorems about finite sets do. *)
LEMMA GatewayCounted ==
    \A S : Ai!Cardinality(S) = Cardinality(S) /\ (Ai!IsFiniteSet(S) <=> IsFiniteSet(S))
  BY DEF Ai!Cardinality, Cardinality, Ai!IsFiniteSet, IsFiniteSet

-----------------------------------------------------------------------------
(* What the breaker makes of a breaker is one. *)
LEMMA GatewayBreakerTypes ==
    ASSUME GatewayConstants, NEW b \in Ai!Breaker, NEW r \in Ai!Requests
    PROVE  /\ Ai!allow_request(b, r) \in Ai!Breaker
           /\ Ai!record_failure(b) \in Ai!Breaker
           /\ Ai!record_success(b) \in Ai!Breaker
  <1> USE DEF Ai!Breaker
  <1>1. Ai!allow_request(b, r) \in Ai!Breaker
    BY DEF Ai!allow_request, Ai!ProbeTaken
  <1>2. Ai!Counted(b) \in Ai!Breaker
    BY DEF Ai!Counted
  <1>3. Ai!record_failure(b) \in Ai!Breaker
    BY <1>2 DEF Ai!record_failure, Ai!Opened
  <1>4. Ai!record_success(b) \in Ai!Breaker
    BY DEF Ai!record_success, Ai!Closed
  <1> QED
    BY <1>1, <1>3, <1>4

(* After a failure was recorded the breaker is not half open. *)
LEMMA GatewayNeverHalfOpenAfterRecord ==
    ASSUME GatewayConstants, NEW b \in Ai!Breaker
    PROVE  Ai!record_failure(b).state # "halfOpen" /\ Ai!record_success(b).state # "halfOpen"
  <1>1. Ai!Counted(b).state = b.state /\ Ai!Counted(b) \in Ai!Breaker
    BY DEF Ai!Counted, Ai!Breaker
  <1>2. Ai!Opened(Ai!Counted(b)).state = "open"
    BY <1>1 DEF Ai!Opened, Ai!Breaker
  <1>3. Ai!record_success(b).state = "closed"
    BY DEF Ai!record_success, Ai!Closed
  <1> QED
    BY <1>1, <1>2, <1>3 DEF Ai!record_failure

LEMMA GatewayInitially == ASSUME GatewayConstants PROVE Ai!Init => GatewayInv
  <1> SUFFICES ASSUME Ai!Init PROVE GatewayInv
    OBVIOUS
  <1>1. 1 \in Ai!Clients
    BY DEF Ai!Clients
  <1>2. Ai!TypeOK
    BY <1>1 DEF Ai!Init, Ai!TypeOK, Ai!Closed, Ai!Breaker, Ai!Steps
  <1>3. GatewayTriesLeft /\ GatewayOneHolder /\ GatewayWatched
    BY DEF Ai!Init, GatewayTriesLeft, GatewayOneHolder, GatewayWatched, Ai!Closed, Ai!Requests
  <1> QED
    BY <1>2, <1>3 DEF GatewayInv

-----------------------------------------------------------------------------
(* The steps of a request, one lemma each where they touch the breaker.    *)
LEMMA GatewayAskStep ==
    ASSUME GatewayConstants, GatewayInv, NEW r \in Ai!Requests, Ai!Ask(r)
    PROVE  GatewayInv'
  <1> USE DEF GatewayInv
  <1> DEFINE b == Ai!allow_request(breaker[current], r)
  <1>1. b \in Ai!Breaker /\ breaker[current] \in Ai!Breaker
    BY GatewayBreakerTypes DEF Ai!TypeOK
  <1>2. Ai!TypeOK'
    BY <1>1 DEF Ai!TypeOK, Ai!Ask, Ai!Go, Ai!Steps
  <1>3. GatewayTriesLeft'
    BY DEF Ai!TypeOK, Ai!Ask, Ai!Go, GatewayTriesLeft
  <1>4. GatewayOneHolder'
    BY DEF Ai!TypeOK, Ai!Ask, Ai!Go, GatewayOneHolder, Ai!Requests
  <1>5. ASSUME NEW c \in Ai!Clients, breaker'[c].state = "halfOpen", ~breaker'[c].lost
        PROVE  GatewayProbeUnderWay(c)'
    <2>1. CASE c # current
      <3>1. breaker'[c] = breaker[c]
        BY <2>1 DEF Ai!Ask, Ai!TypeOK
      <3>2. PICK p \in breaker[c].probes \ Streams : uses[p] = c /\ at[p] # "idle"
        BY <3>1, <1>5 DEF GatewayWatched, GatewayProbeUnderWay
      <3>3. p \in Ai!Requests /\ p # r
        BY <3>2 DEF Ai!TypeOK, Ai!Breaker, Ai!Ask
      <3> QED
        BY <3>1, <3>2, <3>3 DEF Ai!Ask, Ai!Go, Ai!TypeOK, GatewayProbeUnderWay
    <2>2. CASE c = current
      <3>1. breaker'[c] = b
        BY <2>2 DEF Ai!Ask, Ai!TypeOK
      <3>2. breaker[current].state # "closed"
        BY <3>1, <1>5 DEF Ai!allow_request
      <3>3. r \in b.probes
        BY <3>2, <1>1 DEF Ai!allow_request, Ai!ProbeTaken, Ai!Breaker
      <3>4. r \notin Streams /\ uses'[r] = c /\ at'[r] = "admitted"
        BY <2>2 DEF Ai!Ask, Ai!Go, Ai!TypeOK
      <3> QED
        BY <3>1, <3>3, <3>4 DEF GatewayProbeUnderWay
    <2> QED
      BY <2>1, <2>2
  <1>6. GatewayWatched'
    BY <1>5 DEF GatewayWatched
  <1> QED
    BY <1>2, <1>3, <1>4, <1>6

LEMMA GatewayLeaveStep ==
    ASSUME GatewayConstants, GatewayInv, NEW r \in Ai!Requests, Ai!Leave(r)
    PROVE  GatewayInv'
  <1> USE DEF GatewayInv
  <1> DEFINE u == uses[r]
             b == [breaker[u] EXCEPT !.probes = @ \ {r}, !.lost = @ \/ r \in breaker[u].probes]
  <1>1. u \in Ai!Clients /\ breaker[u] \in Ai!Breaker /\ 1 \in Ai!Clients
    BY DEF Ai!TypeOK, Ai!Clients
  <1>2. b \in Ai!Breaker
    BY <1>1 DEF Ai!Breaker
  <1>3. breaker' = [breaker EXCEPT ![u] = b]
    BY <1>1 DEF Ai!Leave, Ai!TypeOK, Ai!Breaker
  <1>4. Ai!TypeOK'
    BY <1>1, <1>2, <1>3 DEF Ai!TypeOK, Ai!Leave, Ai!Go, Ai!Steps
  <1>5. GatewayTriesLeft'
    BY DEF Ai!TypeOK, Ai!Leave, Ai!Go, GatewayTriesLeft
  <1>6. GatewayOneHolder'
    BY DEF Ai!TypeOK, Ai!Leave, Ai!Go, GatewayOneHolder, Ai!Requests
  <1>7. ASSUME NEW c \in Ai!Clients, breaker'[c].state = "halfOpen", ~breaker'[c].lost
        PROVE  GatewayProbeUnderWay(c)'
    <2>1. /\ breaker[c].state = "halfOpen" /\ ~breaker[c].lost
          /\ breaker[c].probes \ {r} \subseteq breaker'[c].probes
          /\ c = u => r \notin breaker[c].probes
      <3>1. CASE c = u
        <4>1. breaker'[c] = b
          BY <3>1, <1>3 DEF Ai!TypeOK
        <4> QED
          BY <4>1, <3>1, <1>1, <1>7 DEF Ai!Breaker
      <3>2. CASE c # u
        <4>1. breaker'[c] = breaker[c]
          BY <3>2, <1>3 DEF Ai!TypeOK
        <4> QED
          BY <4>1, <3>2, <1>7 DEF Ai!TypeOK
      <3> QED
        BY <3>1, <3>2
    <2>2. PICK p \in breaker[c].probes \ Streams : uses[p] = c /\ at[p] # "idle"
      BY <2>1 DEF GatewayWatched, GatewayProbeUnderWay
    <2>3. p # r /\ p \in Ai!Requests
      BY <2>1, <2>2 DEF Ai!TypeOK, Ai!Breaker
    <2> QED
      BY <2>1, <2>2, <2>3 DEF Ai!Leave, Ai!Go, Ai!TypeOK, GatewayProbeUnderWay
  <1>8. GatewayWatched'
    BY <1>7 DEF GatewayWatched
  <1> QED
    BY <1>4, <1>5, <1>6, <1>8

LEMMA GatewayRecordStep ==
    ASSUME GatewayConstants, GatewayInv, NEW r \in Ai!Requests, Ai!Record(r)
    PROVE  GatewayInv'
  <1> USE DEF GatewayInv
  <1> DEFINE u == uses[r]
             a == IF at[r] = "answered" THEN Ai!record_success(breaker[u]) ELSE Ai!record_failure(breaker[u])
             b == [a EXCEPT !.probes = {}, !.lost = FALSE]
  <1>1. u \in Ai!Clients /\ breaker[u] \in Ai!Breaker
    BY DEF Ai!TypeOK
  <1>2. a \in Ai!Breaker /\ a.state # "halfOpen"
    BY <1>1, GatewayBreakerTypes, GatewayNeverHalfOpenAfterRecord
  <1> HIDE DEF a
  <1>3. b \in Ai!Breaker /\ b.state # "halfOpen"
    BY <1>2 DEF Ai!Breaker
  <1>4. breaker' = [breaker EXCEPT ![u] = b]
    BY <1>1 DEF Ai!Record, Ai!TypeOK, a
  <1> HIDE DEF b
  <1>5. Ai!TypeOK'
    BY <1>1, <1>3, <1>4 DEF Ai!TypeOK, Ai!Record, Ai!Go, Ai!Steps
  <1>6. GatewayTriesLeft'
    BY DEF Ai!TypeOK, Ai!Record, Ai!Go, GatewayTriesLeft
  <1>7. GatewayOneHolder'
    BY DEF Ai!TypeOK, Ai!Record, Ai!Go, GatewayOneHolder, Ai!Requests, Ai!Steps
  <1>8. ASSUME NEW c \in Ai!Clients, breaker'[c].state = "halfOpen", ~breaker'[c].lost
        PROVE  GatewayProbeUnderWay(c)'
    <2>1. c # u /\ breaker'[c] = breaker[c]
      BY <1>3, <1>4, <1>8 DEF Ai!TypeOK
    <2>2. PICK p \in breaker[c].probes \ Streams : uses[p] = c /\ at[p] # "idle"
      BY <2>1, <1>8 DEF GatewayWatched, GatewayProbeUnderWay
    <2>3. p # r /\ p \in Ai!Requests
      BY <2>1, <2>2 DEF Ai!TypeOK, Ai!Breaker
    <2> QED
      BY <2>1, <2>2, <2>3 DEF Ai!Record, Ai!Go, Ai!TypeOK, GatewayProbeUnderWay
  <1>9. GatewayWatched'
    BY <1>8 DEF GatewayWatched
  <1> QED
    BY <1>5, <1>6, <1>7, <1>9

(* A step that changes the place of one request only, and not to "idle".   *)
LEMMA GatewayPlaceStep ==
    ASSUME GatewayConstants, GatewayInv, NEW r \in Ai!Requests, NEW s \in Ai!Steps \ {"idle"},
           Ai!Go(r, s),
           UNCHANGED <<breaker, current>>,
           \A q \in Ai!Requests : at[q] # "idle" => uses'[q] = uses[q],
           uses' \in [Ai!Requests -> Ai!Clients], attempt' \in [Ai!Requests -> 0 .. MaxRetries],
           GatewayTriesLeft', GatewayOneHolder'
    PROVE  GatewayInv'
  <1> USE DEF GatewayInv
  <1>1. Ai!TypeOK'
    BY DEF Ai!TypeOK, Ai!Go
  <1>2. ASSUME NEW c \in Ai!Clients, breaker'[c].state = "halfOpen", ~breaker'[c].lost
        PROVE  GatewayProbeUnderWay(c)'
    <2>1. PICK p \in breaker[c].probes \ Streams : uses[p] = c /\ at[p] # "idle"
      BY <1>2 DEF GatewayWatched, GatewayProbeUnderWay
    <2>2. p \in Ai!Requests
      BY <2>1 DEF Ai!TypeOK, Ai!Breaker
    <2> QED
      BY <2>1, <2>2 DEF Ai!Go, Ai!TypeOK, GatewayProbeUnderWay
  <1>3. GatewayWatched'
    BY <1>2 DEF GatewayWatched
  <1> QED
    BY <1>1, <1>3

(* The steps that touch no breaker. *)
LEMMA GatewayOtherSteps ==
    ASSUME GatewayConstants, GatewayInv, NEW r \in Ai!Requests,
           Ai!AskStream(r) \/ Ai!Acquire(r) \/ Ai!Fails(r) \/ Ai!Again(r) \/ Ai!Answers(r)
    PROVE  GatewayInv'
  <1> USE DEF GatewayInv, Ai!Steps
  <1>1. CASE Ai!AskStream(r)
    <2>1. GatewayTriesLeft' /\ GatewayOneHolder'
      BY <1>1 DEF Ai!AskStream, Ai!Go, Ai!TypeOK, GatewayTriesLeft, GatewayOneHolder, Ai!Requests
    <2> QED
      BY <1>1, <2>1, GatewayPlaceStep DEF Ai!AskStream, Ai!TypeOK
  <1>2. CASE Ai!Acquire(r)
    <2>1. GatewayTriesLeft'
      BY <1>2 DEF Ai!Acquire, Ai!Go, Ai!TypeOK, GatewayTriesLeft
    <2>2. \A q \in Users \cup Background : uses[q] = uses[r] => at[q] \in {"idle", "admitted"}
      BY <1>2 DEF Ai!Acquire, Ai!MayEnter, Ai!Holders, Ai!TypeOK, Ai!Requests
    <2>3. GatewayOneHolder'
      BY <1>2, <2>2 DEF Ai!Acquire, Ai!Go, Ai!TypeOK, GatewayOneHolder, Ai!Requests
    <2> QED
      BY <1>2, <2>1, <2>3, GatewayPlaceStep DEF Ai!Acquire, Ai!TypeOK
  <1>3. CASE Ai!Fails(r)
    <2>1. PICK s \in {"backoff", "failed"} : Ai!Go(r, s) /\ (s = "backoff" => attempt[r] < MaxRetries)
      BY <1>3 DEF Ai!Fails, Ai!MoreTries
    <2>2. GatewayTriesLeft'
      BY <1>3, <2>1 DEF Ai!Fails, Ai!Go, Ai!TypeOK, GatewayTriesLeft
    <2>3. GatewayOneHolder'
      BY <1>3, <2>1 DEF Ai!Fails, Ai!Go, Ai!TypeOK, GatewayOneHolder, Ai!Requests
    <2> QED
      BY <1>3, <2>1, <2>2, <2>3, GatewayPlaceStep DEF Ai!Fails, Ai!TypeOK
  <1>4. CASE Ai!Again(r)
    <2>1. attempt[r] + 1 \in 0 .. MaxRetries
      BY <1>4 DEF Ai!Again, Ai!TypeOK, GatewayTriesLeft
    <2>2. GatewayTriesLeft' /\ attempt' \in [Ai!Requests -> 0 .. MaxRetries]
      BY <1>4, <2>1 DEF Ai!Again, Ai!Go, Ai!TypeOK, GatewayTriesLeft
    <2>3. GatewayOneHolder'
      BY <1>4 DEF Ai!Again, Ai!Go, Ai!TypeOK, GatewayOneHolder, Ai!Requests
    <2> QED
      BY <1>4, <2>2, <2>3, GatewayPlaceStep DEF Ai!Again, Ai!TypeOK
  <1>5. CASE Ai!Answers(r)
    <2>1. GatewayTriesLeft' /\ GatewayOneHolder'
      BY <1>5 DEF Ai!Answers, Ai!Go, Ai!TypeOK, GatewayTriesLeft, GatewayOneHolder, Ai!Requests
    <2> QED
      BY <1>5, <2>1, GatewayPlaceStep DEF Ai!Answers, Ai!TypeOK
  <1> QED
    BY <1>1, <1>2, <1>3, <1>4, <1>5

(* Time, the user's reset and the exchange of the client. *)
LEMMA GatewayBreakerSteps ==
    ASSUME GatewayConstants, GatewayInv, Ai!Time \/ Ai!Reset \/ Ai!NewClient
    PROVE  GatewayInv'
  <1> USE DEF GatewayInv
  <1>1. /\ breaker' \in [Ai!Clients -> Ai!Breaker] /\ current' \in Ai!Clients
        /\ UNCHANGED <<uses, at, attempt>>
        /\ \A c \in Ai!Clients : breaker'[c].state = "halfOpen" /\ ~breaker'[c].lost =>
               /\ breaker[c].state = "halfOpen" /\ ~breaker[c].lost
               /\ breaker'[c].probes = breaker[c].probes
    <2>1. CASE Ai!Time
      <3>1. PICK d \in Ai!Clients :
               \/ breaker[d].failures > 0 /\ breaker' = [breaker EXCEPT ![d].failures = @ - 1]
               \/ breaker[d].state = "open" /\ breaker' = [breaker EXCEPT ![d].cooled = TRUE]
        BY <2>1 DEF Ai!Time
      <3>2. breaker[d] \in Ai!Breaker
        BY DEF Ai!TypeOK
      <3>3. PICK b \in Ai!Breaker : /\ breaker' = [breaker EXCEPT ![d] = b]
                                    /\ b.state = breaker[d].state /\ b.lost = breaker[d].lost
                                    /\ b.probes = breaker[d].probes
        <4>1. CASE breaker[d].failures > 0 /\ breaker' = [breaker EXCEPT ![d].failures = @ - 1]
          <5>1. [breaker[d] EXCEPT !.failures = @ - 1] \in Ai!Breaker
            BY <3>2, <4>1 DEF Ai!Breaker
          <5> QED
            BY <3>2, <4>1, <5>1 DEF Ai!Breaker
        <4>2. CASE breaker' = [breaker EXCEPT ![d].cooled = TRUE]
          <5>1. [breaker[d] EXCEPT !.cooled = TRUE] \in Ai!Breaker
            BY <3>2 DEF Ai!Breaker
          <5> QED
            BY <3>2, <4>2, <5>1 DEF Ai!Breaker
        <4> QED
          BY <3>1, <4>1, <4>2
      <3> QED
        BY <2>1, <3>3 DEF Ai!Time, Ai!TypeOK
    <2>2. CASE Ai!Reset
      BY <2>2 DEF Ai!Reset, Ai!record_success, Ai!Closed, Ai!TypeOK, Ai!Breaker
    <2>3. CASE Ai!NewClient
      BY <2>3 DEF Ai!NewClient, Ai!TypeOK, Ai!Clients
    <2> QED
      BY <2>1, <2>2, <2>3
  <1>2. Ai!TypeOK'
    BY <1>1 DEF Ai!TypeOK
  <1>3. GatewayTriesLeft' /\ GatewayOneHolder'
    BY <1>1 DEF GatewayTriesLeft, GatewayOneHolder
  <1>4. GatewayWatched'
    BY <1>1 DEF GatewayWatched, GatewayProbeUnderWay
  <1> QED
    BY <1>2, <1>3, <1>4

LEMMA GatewayInductive ==
    ASSUME GatewayConstants
    PROVE  GatewayInv /\ [Ai!Next]_Ai!vars => GatewayInv'
  <1> SUFFICES ASSUME GatewayInv, [Ai!Next]_Ai!vars PROVE GatewayInv'
    OBVIOUS
  <1>1. CASE Ai!Time \/ Ai!Reset \/ Ai!NewClient
    BY <1>1, GatewayBreakerSteps
  <1>2. ASSUME NEW r \in Ai!Requests, Ai!Ask(r) \/ Ai!AskStream(r) \/ Ai!Works(r) \/ Ai!Drop(r)
        PROVE  GatewayInv'
    <2>1. CASE Ai!Ask(r)
      BY <2>1, GatewayAskStep
    <2>2. CASE Ai!AskStream(r) \/ Ai!Acquire(r) \/ Ai!Fails(r) \/ Ai!Again(r) \/ Ai!Answers(r)
      BY <2>2, GatewayOtherSteps
    <2>3. CASE Ai!Record(r)
      BY <2>3, GatewayRecordStep
    <2>4. CASE Ai!Busy(r) \/ Ai!Done(r) \/ Ai!Drop(r)
      <3>1. Ai!Leave(r)
        BY <2>4 DEF Ai!Busy, Ai!Done, Ai!Drop
      <3> QED
        BY <3>1, GatewayLeaveStep
    <2> QED
      BY <1>2, <2>1, <2>2, <2>3, <2>4 DEF Ai!Works
  <1>3. CASE UNCHANGED Ai!vars
    BY <1>3 DEF Ai!vars, GatewayInv, Ai!TypeOK, GatewayTriesLeft, GatewayOneHolder, GatewayWatched,
       GatewayProbeUnderWay
  <1> QED
    BY <1>1, <1>2, <1>3 DEF Ai!Next

(* No two requests hold the permit of a client. *)
LEMMA GatewayOneCall == ASSUME GatewayInv PROVE Ai!OneCallPerClient
  <1> SUFFICES ASSUME NEW c \in Ai!Clients PROVE Ai!Cardinality(Ai!Holders(c)) <= 1
    BY DEF Ai!OneCallPerClient
  <1>1. \A r, s \in Ai!Holders(c) : r = s
    BY DEF GatewayInv, GatewayOneHolder, Ai!Holders
  <1>2. CASE Ai!Holders(c) = {}
    BY <1>2, FS_EmptySet, GatewayCounted
  <1>3. CASE Ai!Holders(c) # {}
    <2>1. PICK r : Ai!Holders(c) = {r}
      BY <1>1, <1>3
    <2>2. Ai!Cardinality({r}) = 1
      BY FS_Singleton, GatewayCounted
    <2> QED
      BY <2>1, <2>2
  <1> QED
    BY <1>2, <1>3

(* Half open with nobody under way: its probe is not watched any more. *)
LEMMA GatewayOnlyLostProbes == ASSUME GatewayInv PROVE Ai!OnlyLostProbesLatch
  BY DEF GatewayInv, Ai!TypeOK, Ai!Breaker, GatewayWatched, GatewayProbeUnderWay,
     Ai!OnlyLostProbesLatch, Ai!Latched

-----------------------------------------------------------------------------
(***************************************************************************)
(* The assistant: the confirmation of a plan that was never disturbed is   *)
(* the only one (ai/plaene.rs).                                            *)
(***************************************************************************)
AssistantMessage == [role : {"user", "assistant"}, turn : Nat]
AssistantConfirmation == [plan : 0 .. MaxPlans, step : 1 .. MaxCards + 1, failed : BOOLEAN]

(* One confirmation at a time has a plan that was never disturbed, what it *)
(* has not come to has not run, and a plan that waits has not run at all.  *)
AssistantSound(p) ==
    /\ Len(plans[p].runs) = Len(plans[p].steps) /\ Len(plans[p].steps) <= MaxCards
    /\ ~plans[p].overlap =>
          /\ \A i \in 1 .. Len(plans[p].runs) : plans[p].runs[i] <= 1
          /\ \A c, d \in Confirms : confirm[c].plan = p /\ confirm[d].plan = p => c = d
          /\ \A c \in Confirms : confirm[c].plan = p =>
                \A i \in 1 .. Len(plans[p].runs) : i >= confirm[c].step => plans[p].runs[i] = 0
          /\ plans[p].status = "pending" /\ (\A c \in Confirms : confirm[c].plan # p) =>
                \A i \in 1 .. Len(plans[p].runs) : plans[p].runs[i] = 0
(* The bounds: a loop can end, and its cards become a plan.                *)
AssistantOpen == /\ run = "loop" => turns < MaxTurns
                 /\ cards # <<>> => run = "loop" /\ Len(plans) < MaxPlans
AssistantPointed == \A c \in Confirms : confirm[c].plan <= Len(plans)
AssistantInv == As!TypeOK /\ AssistantOpen /\ AssistantPointed /\ \A p \in 1 .. Len(plans) : AssistantSound(p)

LEMMA AssistantTyped ==
    As!TypeOK <=> /\ run \in {"off", "loop"} /\ known \subseteq Things
                  /\ cards \in Seq(As!Card) /\ Len(cards) <= MaxCards
                  /\ turns \in 0 .. MaxTurns
                  /\ session \in Seq(AssistantMessage) /\ Len(session) <= MaxMessages
                  /\ plans \in Seq(As!Plan) /\ Len(plans) <= MaxPlans
                  /\ confirm \in [Confirms -> AssistantConfirmation]
  BY DEF As!TypeOK, AssistantMessage, AssistantConfirmation

LEMMA AssistantWhole ==
    As!TypeOK' <=> /\ run' \in {"off", "loop"} /\ known' \subseteq Things
                   /\ cards' \in Seq(As!Card) /\ Len(cards') <= MaxCards
                   /\ turns' \in 0 .. MaxTurns
                   /\ session' \in Seq(AssistantMessage) /\ Len(session') <= MaxMessages
                   /\ plans' \in Seq(As!Plan) /\ Len(plans') <= MaxPlans
                   /\ confirm' \in [Confirms -> AssistantConfirmation]
  BY DEF As!TypeOK, AssistantMessage, AssistantConfirmation

LEMMA AssistantNobody ==
    ASSUME As!LimitsAssumption
    PROVE  As!Idle \in AssistantConfirmation /\ As!Idle.plan = 0 /\ As!Idle.step = 1
  BY DEF As!LimitsAssumption, As!Idle, AssistantConfirmation

LEMMA AssistantInitially == ASSUME As!LimitsAssumption PROVE As!Init => AssistantInv
  <1> SUFFICES ASSUME As!Init PROVE AssistantInv
    OBVIOUS
  <1>1. Len(<<>>) = 0 /\ plans = <<>> /\ session = <<>> /\ cards = <<>>
    BY DEF As!Init
  <1>2. As!TypeOK
    BY AssistantNobody, AssistantTyped, <1>1 DEF As!Init, As!LimitsAssumption
  <1>3. AssistantOpen /\ AssistantPointed /\ \A p \in 1 .. Len(plans) : AssistantSound(p)
    BY AssistantNobody, <1>1 DEF As!Init, AssistantOpen, AssistantPointed
  <1> QED
    BY <1>2, <1>3 DEF AssistantInv

LEMMA AssistantSequenceOf ==
    ASSUME NEW S, NEW n \in Nat, NEW f \in [1 .. n -> S]
    PROVE  f \in Seq(S) /\ Len(f) = n
  OBVIOUS

(* What append_message leaves of a session are its newest messages.        *)
LEMMA AssistantTrimmed ==
    ASSUME As!LimitsAssumption, NEW s \in Seq(AssistantMessage), NEW m \in AssistantMessage,
           NEW t \in As!append_message(s, m)
    PROVE  t \in Seq(AssistantMessage) /\ Len(t) <= MaxMessages
  <1> DEFINE a == Append(s, m)
  <1>1. a \in Seq(AssistantMessage) /\ Len(a) \in Nat
    OBVIOUS
  <1> HIDE DEF a
  <1>2. PICK n \in 1 .. IF Len(a) < MaxMessages THEN Len(a) ELSE MaxMessages : t = As!Newest(a, n)
    BY DEF As!append_message, a
  <1>3. n \in Nat /\ 1 <= n /\ n <= Len(a) /\ n <= MaxMessages
    BY <1>1, <1>2 DEF As!LimitsAssumption
  <1>4. t = SubSeq(a, Len(a) - n + 1, Len(a))
    BY <1>2 DEF As!Newest
  <1>5. Len(a) - n + 1 \in 1 .. Len(a) /\ Len(a) - n + 1 <= Len(a)
    BY <1>1, <1>3
  <1>6. t \in Seq(AssistantMessage) /\ Len(t) = Len(a) - (Len(a) - n + 1) + 1
    BY <1>1, <1>4, <1>5
  <1> QED
    BY <1>1, <1>3, <1>6

(* Plans changed in part.                                                  *)
LEMMA AssistantChanged ==
    ASSUME NEW x \in As!Plan
    PROVE  /\ \A s \in {"pending", "executed", "cancelled", "expired", "failed"} :
                 /\ [x EXCEPT !.status = s] \in As!Plan /\ [x EXCEPT !.status = s].status = s
                 /\ [x EXCEPT !.status = s].steps = x.steps
                 /\ [x EXCEPT !.status = s].overlap = x.overlap
                 /\ [x EXCEPT !.status = s].runs = x.runs
           /\ [x EXCEPT !.old = TRUE] \in As!Plan /\ [x EXCEPT !.old = TRUE].status = x.status
           /\ [x EXCEPT !.old = TRUE].steps = x.steps /\ [x EXCEPT !.old = TRUE].overlap = x.overlap
           /\ [x EXCEPT !.old = TRUE].runs = x.runs
  BY DEF As!Plan

LEMMA AssistantMarked ==
    ASSUME NEW x \in As!Plan, NEW b \in BOOLEAN
    PROVE  /\ [x EXCEPT !.overlap = b] \in As!Plan /\ [x EXCEPT !.overlap = b].status = x.status
           /\ [x EXCEPT !.overlap = b].steps = x.steps /\ [x EXCEPT !.overlap = b].overlap = b
           /\ [x EXCEPT !.overlap = b].runs = x.runs
  BY DEF As!Plan

LEMMA AssistantSettled ==
    ASSUME NEW x \in As!Plan, NEW s \in {"pending", "executed", "cancelled", "expired", "failed"}
    PROVE  /\ [x EXCEPT !.status = s] \in As!Plan /\ [x EXCEPT !.status = s].status = s
           /\ [x EXCEPT !.status = s].steps = x.steps /\ [x EXCEPT !.status = s].overlap = x.overlap
           /\ [x EXCEPT !.status = s].runs = x.runs
  BY DEF As!Plan

LEMMA AssistantTaken ==
    ASSUME NEW y \in AssistantConfirmation, NEW p \in 0 .. MaxPlans
    PROVE  /\ [y EXCEPT !.plan = p] \in AssistantConfirmation /\ [y EXCEPT !.plan = p].plan = p
           /\ [y EXCEPT !.plan = p].step = y.step
  BY DEF AssistantConfirmation

LEMMA AssistantRan ==
    ASSUME NEW x \in As!Plan, NEW r \in Seq(0 .. 2)
    PROVE  /\ [x EXCEPT !.runs = r] \in As!Plan /\ [x EXCEPT !.runs = r].status = x.status
           /\ [x EXCEPT !.runs = r].steps = x.steps /\ [x EXCEPT !.runs = r].overlap = x.overlap
           /\ [x EXCEPT !.runs = r].runs = r
  BY DEF As!Plan

LEMMA AssistantNew ==
    ASSUME NEW s \in Seq(As!Card)
    PROVE  /\ As!NewPlan(s) \in As!Plan /\ As!NewPlan(s).steps = s
           /\ As!NewPlan(s).status = "pending" /\ ~As!NewPlan(s).overlap
           /\ As!NewPlan(s).runs \in Seq(0 .. 2) /\ Len(As!NewPlan(s).runs) = Len(s)
           /\ \A i \in 1 .. Len(s) : As!NewPlan(s).runs[i] = 0
  <1> DEFINE r == [i \in 1 .. Len(s) |-> 0]
  <1>1. Len(s) \in Nat /\ r \in [1 .. Len(s) -> 0 .. 2]
    OBVIOUS
  <1>2. r \in Seq(0 .. 2) /\ Len(r) = Len(s)
    BY <1>1, AssistantSequenceOf
  <1>3. \A i \in 1 .. Len(s) : r[i] = 0
    OBVIOUS
  <1> HIDE DEF r
  <1>4. As!NewPlan(s) = [status |-> "pending", old |-> FALSE, steps |-> s, overlap |-> FALSE, runs |-> r]
    BY DEF As!NewPlan, r
  <1> QED
    BY <1>2, <1>3, <1>4 DEF As!Plan

LEMMA AssistantInductive ==
    ASSUME As!ThingsAssumption, As!LimitsAssumption, AssistantInv, [As!Next]_As!vars
    PROVE  AssistantInv'
  <1>1. /\ As!TypeOK /\ AssistantOpen /\ AssistantPointed
        /\ (\A p \in 1 .. Len(plans) : AssistantSound(p))
        /\ run \in {"off", "loop"} /\ known \subseteq Things
        /\ cards \in Seq(As!Card) /\ Len(cards) <= MaxCards /\ turns \in 0 .. MaxTurns
        /\ session \in Seq(AssistantMessage) /\ Len(session) <= MaxMessages
        /\ plans \in Seq(As!Plan) /\ Len(plans) <= MaxPlans
        /\ confirm \in [Confirms -> AssistantConfirmation]
        /\ MaxPlans \in Nat /\ MaxTurns \in Nat /\ MaxCards \in Nat \ {0} /\ MaxMessages \in Nat
    BY AssistantTyped DEF AssistantInv, As!LimitsAssumption
  <1> USE <1>1
  <1>2. Len(plans) \in Nat /\ \A p \in 1 .. Len(plans) : plans[p] \in As!Plan
    OBVIOUS
  (* A plan keeps what ran, and so do those who run it. *)
  <1>3. ASSUME NEW p \in 1 .. Len(plans), plans'[p].steps = plans[p].steps,
               plans'[p].runs = plans[p].runs,
               plans'[p].overlap = plans[p].overlap, plans'[p].status = "pending" => plans[p].status = "pending",
               \A c \in Confirms : confirm[c].plan = p \/ confirm'[c].plan = p => confirm'[c] = confirm[c]
        PROVE  AssistantSound(p)'
    <2>1. AssistantSound(p) /\ \A c \in Confirms : confirm[c].plan = p <=> confirm'[c].plan = p
      BY <1>3
    <2>2. \A c \in Confirms : confirm'[c].plan = p => confirm[c].plan = p /\ confirm'[c].step = confirm[c].step
      BY <1>3
    <2> QED
      BY <1>3, <2>1, <2>2 DEF AssistantSound
  <1>4. ASSUME UNCHANGED <<plans, confirm>>, run' \in {"off", "loop"}, known' \subseteq Things,
               cards' \in Seq(As!Card),
               Len(cards') <= MaxCards, turns' \in 0 .. MaxTurns, AssistantOpen', session' \in Seq(AssistantMessage), Len(session') <= MaxMessages
        PROVE  AssistantInv'
    <2>1. As!TypeOK'
      BY <1>4, AssistantWhole
    <2>2. AssistantPointed' /\ \A p \in 1 .. Len(plans') : AssistantSound(p)'
      BY <1>4 DEF AssistantPointed, AssistantSound
    <2> QED
      BY <1>4, <2>1, <2>2 DEF AssistantInv
  <1>5. ASSUME plans' \in Seq(As!Plan), Len(plans') = Len(plans), UNCHANGED confirm,
               \A p \in 1 .. Len(plans) : /\ plans'[p].steps = plans[p].steps /\ plans'[p].runs = plans[p].runs
                                          /\ plans'[p].overlap = plans[p].overlap
                                          /\ plans'[p].status = "pending" => plans[p].status = "pending",
               run' \in {"off", "loop"}, known' \subseteq Things, cards' \in Seq(As!Card), Len(cards') <= MaxCards,
               AssistantOpen', UNCHANGED <<turns, session>>
        PROVE  AssistantInv'
    <2>1. As!TypeOK'
      BY <1>5, AssistantWhole
    <2>2. AssistantPointed' /\ \A p \in 1 .. Len(plans') : AssistantSound(p)'
      BY <1>3, <1>5 DEF AssistantPointed
    <2> QED
      BY <1>5, <2>1, <2>2 DEF AssistantInv
  <1>6. <<>> \in Seq(As!Card) /\ Len(<<>>) = 0
    OBVIOUS
  <1>7. ASSUME As!Begin PROVE AssistantInv'
    <2> DEFINE F(i) == IF plans[i].status = "pending" /\ plans[i].old THEN [plans[i] EXCEPT !.status = "expired"] ELSE plans[i]
    <2>1. /\ plans' = [i \in 1 .. Len(plans) |-> F(i)] /\ run' = "loop" /\ known' = {}
          /\ cards' = <<>> /\ UNCHANGED <<turns, session, confirm>>
      BY <1>7 DEF As!Begin, As!expire_pending
    <2>2. ASSUME NEW i \in 1 .. Len(plans)
          PROVE  F(i) \in As!Plan /\ F(i).steps = plans[i].steps /\ F(i).runs = plans[i].runs
                 /\ F(i).overlap = plans[i].overlap
                 /\ (F(i).status = "pending" => plans[i].status = "pending")
      <3>1. plans[i] \in As!Plan
        BY <1>2, <2>2
      <3>2. CASE plans[i].status = "pending" /\ plans[i].old
        <4> DEFINE x == [plans[i] EXCEPT !.status = "expired"]
        <4>1. /\ x \in As!Plan /\ x.steps = plans[i].steps /\ x.runs = plans[i].runs
              /\ x.overlap = plans[i].overlap
          BY <3>1, AssistantChanged
        <4>2. F(i) = x /\ plans[i].status = "pending"
          BY <3>2
        <4> HIDE DEF F, x
        <4> QED
          BY <4>1, <4>2
      <3>3. CASE ~(plans[i].status = "pending" /\ plans[i].old)
        BY <3>1, <3>3
      <3> QED
        BY <3>2, <3>3
    <2> HIDE DEF F
    <2>3. plans' \in [1 .. Len(plans) -> As!Plan] /\ \A i \in 1 .. Len(plans) : plans'[i] = F(i)
      BY <2>1, <2>2
    <2>4. plans' \in Seq(As!Plan) /\ Len(plans') = Len(plans)
      BY <1>2, <2>3, AssistantSequenceOf
    <2> QED
      <3>1. AssistantOpen'
        BY <1>7, <2>1 DEF As!Begin, AssistantOpen
      <3> QED
        BY <1>5, <1>6, <2>1, <2>2, <2>3, <2>4, <3>1
  <1>8. ASSUME As!Midnight PROVE AssistantInv'
    <2> DEFINE F(i) == [plans[i] EXCEPT !.old = TRUE]
    <2>1. /\ plans' = [i \in 1 .. Len(plans) |-> F(i)]
          /\ UNCHANGED <<run, known, cards, turns, session, confirm>>
      BY <1>8 DEF As!Midnight
    <2>2. ASSUME NEW i \in 1 .. Len(plans)
          PROVE  F(i) \in As!Plan /\ F(i).steps = plans[i].steps /\ F(i).runs = plans[i].runs
                 /\ F(i).overlap = plans[i].overlap
                 /\ (F(i).status = "pending" => plans[i].status = "pending")
      BY <1>2, <2>2, AssistantChanged
    <2> HIDE DEF F
    <2>3. plans' \in [1 .. Len(plans) -> As!Plan] /\ \A i \in 1 .. Len(plans) : plans'[i] = F(i)
      BY <2>1, <2>2
    <2>4. plans' \in Seq(As!Plan) /\ Len(plans') = Len(plans)
      BY <1>2, <2>3, AssistantSequenceOf
    <2> QED
      <3>1. AssistantOpen'
        BY <2>1, <2>4 DEF AssistantOpen
      <3> QED
        BY <1>5, <2>1, <2>2, <2>3, <2>4, <3>1
  <1>9. ASSUME As!Read PROVE AssistantInv'
    <2>1. known' \subseteq Things
      BY <1>9 DEF As!Read, As!mail_search, As!calendar_list_events, As!Lists, As!Shown
    <2>2. AssistantOpen'
      BY <1>9 DEF As!Read, AssistantOpen
    <2> QED
      BY <1>4, <1>9, <2>1, <2>2 DEF As!Read
  (* The cards a tool makes are cards.                                     *)
  <1>10. ASSUME NEW k \in {"mail", "event"}, NEW u \in Things,
                NEW t \in As!Addressed(k, NumberOf[u])
        PROVE  [kind |-> k, number |-> NumberOf[u], label |-> u, target |-> t] \in As!Card
    <2>1. NumberOf[u] \in As!Numbers /\ t \in Things \cup {As!Nothing}
      BY <1>10 DEF As!Addressed, As!Numbers
    <2> QED
      BY <2>1 DEF As!Card
  <1>11. ASSUME NEW k \in {"mail", "event"} PROVE As!CardsOf(k, known) \subseteq As!Card
    BY <1>10 DEF As!CardsOf
  <1>12. ASSUME As!Write PROVE AssistantInv'
    <2>1. PICK c \in As!mail_cards \cup As!event_cards \cup {As!Create} : cards' = Append(cards, c)
      BY <1>12 DEF As!Write
    <2>2. As!mail_cards \subseteq As!Card /\ As!event_cards \subseteq As!Card
      BY <1>11 DEF As!mail_cards, As!event_cards
    <2>3. As!Create \in As!Card
      BY DEF As!Create, As!Card
    <2>4. c \in As!Card /\ Len(cards) < MaxCards /\ Len(cards) \in Nat
      BY <1>12, <2>2, <2>3 DEF As!Write
    <2>5. cards' \in Seq(As!Card) /\ Len(cards') = Len(cards) + 1
      BY <2>1, <2>4
    <2>6. UNCHANGED <<run, known, turns, session, plans, confirm>>
      BY <1>12 DEF As!Write
    <2>7. AssistantOpen'
      BY <1>12, <2>6 DEF As!Write, AssistantOpen
    <2> QED
      BY <1>4, <2>4, <2>5, <2>6, <2>7
  (* A new plan, which nobody has yet.                                     *)
  <1>13. ASSUME NEW s \in Seq(As!Card), Len(s) <= MaxCards, plans' = Append(plans, As!NewPlan(s)),
                Len(plans) < MaxPlans, UNCHANGED confirm
         PROVE  /\ plans' \in Seq(As!Plan) /\ Len(plans') = Len(plans) + 1
                /\ Len(plans') <= MaxPlans
                /\ AssistantPointed' /\ \A p \in 1 .. Len(plans') : AssistantSound(p)'
    <2>1. /\ As!NewPlan(s) \in As!Plan /\ As!NewPlan(s).steps = s
          /\ Len(As!NewPlan(s).runs) = Len(s) /\ \A i \in 1 .. Len(s) : As!NewPlan(s).runs[i] = 0
      BY <1>13, AssistantNew
    <2>2. /\ plans' \in Seq(As!Plan) /\ Len(plans') = Len(plans) + 1
          /\ plans'[Len(plans) + 1] = As!NewPlan(s)
          /\ \A p \in 1 .. Len(plans) : plans'[p] = plans[p]
      BY <1>13, <2>1
    <2>3. \A c \in Confirms : confirm[c].plan # Len(plans) + 1 /\ confirm[c].plan <= Len(plans) + 1
      BY <1>2 DEF AssistantPointed, AssistantConfirmation
    <2>4. AssistantPointed'
      BY <1>13, <2>2, <2>3 DEF AssistantPointed
    <2>5. ASSUME NEW p \in 1 .. Len(plans) PROVE AssistantSound(p)'
      BY <1>3, <1>13, <2>2
    <2>6. ASSUME NEW p, p = Len(plans) + 1 PROVE AssistantSound(p)'
      <3>1. plans'[p] = As!NewPlan(s) /\ \A c \in Confirms : confirm'[c].plan # p
        BY <1>13, <2>2, <2>3, <2>6
      <3>2. \A i \in 1 .. Len(plans'[p].runs) : plans'[p].runs[i] = 0 /\ plans'[p].runs[i] <= 1
        BY <2>1, <3>1
      <3>3. Len(plans'[p].runs) = Len(plans'[p].steps) /\ Len(plans'[p].steps) <= MaxCards
        BY <1>13, <2>1, <3>1
      <3> QED
        BY <3>1, <3>2, <3>3 DEF AssistantSound
    <2>7. /\ Len(plans') <= MaxPlans
          /\ \A p \in 1 .. Len(plans') : p \in 1 .. Len(plans) \/ p = Len(plans) + 1
      BY <1>2, <1>13, <2>2
    <2> QED
      BY <2>2, <2>4, <2>5, <2>6, <2>7
  <1>14. ASSUME As!plan_create PROVE AssistantInv'
    <2>1. PICK u \in Things : \E t \in As!Addressed("mail", NumberOf[u]) :
             plans' = Append(plans, As!NewPlan(<<[kind |-> "mail", number |-> NumberOf[u], label |-> u, target |-> t]>>))
      BY <1>14 DEF As!plan_create
    <2>2. PICK t \in As!Addressed("mail", NumberOf[u]) :
             plans' = Append(plans, As!NewPlan(<<[kind |-> "mail", number |-> NumberOf[u], label |-> u, target |-> t]>>))
      BY <2>1
    <2> DEFINE card == [kind |-> "mail", number |-> NumberOf[u], label |-> u, target |-> t]
    <2>3. card \in As!Card
      BY <1>10
    <2> HIDE DEF card
    <2>4. <<card>> \in Seq(As!Card) /\ Len(<<card>>) = 1 /\ 1 <= MaxCards
      BY <2>3
    <2>5. plans' = Append(plans, As!NewPlan(<<card>>))
      BY <2>2 DEF card
    <2>6. /\ Len(plans) < MaxPlans /\ turns < MaxTurns /\ turns' = turns + 1
          /\ UNCHANGED <<run, known, cards, session, confirm>>
      BY <1>14 DEF As!plan_create
    <2>7. turns' \in 0 .. MaxTurns
      BY <2>6
    <2>8. /\ plans' \in Seq(As!Plan) /\ Len(plans') = Len(plans) + 1 /\ Len(plans') <= MaxPlans
          /\ AssistantPointed' /\ \A p \in 1 .. Len(plans') : AssistantSound(p)'
      BY <1>13, <2>4, <2>5, <2>6
    <2>9. As!TypeOK'
      BY <2>6, <2>7, <2>8, AssistantWhole
    <2>10. AssistantOpen'
      BY <1>14, <2>6 DEF As!plan_create, AssistantOpen
    <2> QED
      BY <2>8, <2>9, <2>10 DEF AssistantInv
  <1>15. ASSUME As!Fail \/ As!session_delete PROVE AssistantInv'
    <2>1. CASE As!Fail
      <3>1. /\ run' = "off" /\ cards' = <<>> /\ known' = {} /\ turns' = turns + 1
            /\ turns < MaxTurns
            /\ UNCHANGED <<session, plans, confirm>>
        BY <2>1 DEF As!Fail, AssistantOpen
      <3>2. turns' \in 0 .. MaxTurns /\ AssistantOpen'
        BY <3>1 DEF AssistantOpen
      <3> QED
        BY <1>4, <1>6, <3>1, <3>2
    <2>2. CASE As!session_delete
      <3>1. /\ session' \in Seq(AssistantMessage) /\ Len(session') <= MaxMessages
            /\ UNCHANGED <<run, known, cards, turns, plans, confirm>>
        BY <2>2 DEF As!session_delete
      <3>2. AssistantOpen'
        BY <3>1 DEF AssistantOpen
      <3> QED
        BY <1>4, <3>1, <3>2
    <2> QED
      BY <1>15, <2>1, <2>2
  <1>16. ASSUME As!Finish PROVE AssistantInv'
    <2>1. /\ run = "loop" /\ run' = "off" /\ cards' = <<>> /\ known' = {} /\ turns' = turns + 1
          /\ UNCHANGED confirm
          /\ plans' = IF cards = <<>> THEN plans ELSE Append(plans, As!NewPlan(cards))
      BY <1>16 DEF As!Finish
    <2>2. PICK s \in As!append_message(session, [role |-> "user", turn |-> turns']) :
             session' \in As!append_message(s, [role |-> "assistant", turn |-> turns'])
      BY <1>16 DEF As!Finish
    <2>3. /\ [role |-> "user", turn |-> turns'] \in AssistantMessage
          /\ [role |-> "assistant", turn |-> turns'] \in AssistantMessage
      BY <2>1 DEF AssistantMessage
    <2>4. s \in Seq(AssistantMessage)
      BY <2>2, <2>3, AssistantTrimmed
    <2>5. session' \in Seq(AssistantMessage) /\ Len(session') <= MaxMessages
      BY <2>2, <2>3, <2>4, AssistantTrimmed
    <2>6. turns' \in 0 .. MaxTurns /\ AssistantOpen'
      BY <2>1 DEF AssistantOpen
    <2>7. CASE cards = <<>>
      <3>1. UNCHANGED <<plans, confirm>>
        BY <2>1, <2>7
      <3> QED
        BY <1>4, <1>6, <2>1, <2>5, <2>6, <3>1
    <2>8. CASE cards # <<>>
      <3>1. /\ plans' \in Seq(As!Plan) /\ Len(plans') = Len(plans) + 1 /\ Len(plans') <= MaxPlans
            /\ AssistantPointed' /\ \A p \in 1 .. Len(plans') : AssistantSound(p)'
        BY <1>13, <2>1, <2>8 DEF AssistantOpen
      <3>2. As!TypeOK'
        BY <1>6, <2>1, <2>5, <2>6, <3>1, AssistantWhole
      <3> QED
        BY <2>6, <3>1, <3>2 DEF AssistantInv
    <2> QED
      BY <2>7, <2>8
  (* One plan changes, and what those do who run it. *)
  <1>17. ASSUME NEW p \in 1 .. Len(plans), NEW x \in As!Plan, plans' = [plans EXCEPT ![p] = x],
                confirm' \in [Confirms -> AssistantConfirmation],
                \A c \in Confirms : confirm'[c] = confirm[c] \/ ({confirm[c].plan, confirm'[c].plan} \subseteq {0, p}),
                AssistantSound(p)', UNCHANGED <<run, known, cards, turns, session>>
         PROVE  AssistantInv'
    <2>1. /\ plans' \in Seq(As!Plan) /\ Len(plans') = Len(plans)
          /\ \A q \in (1 .. Len(plans)) \ {p} : plans'[q] = plans[q]
      BY <1>17
    <2>2. As!TypeOK'
      BY <1>17, <2>1, AssistantWhole
    <2>3. \A q \in 1 .. Len(plans) : AssistantSound(q)'
      <3> SUFFICES ASSUME NEW q \in 1 .. Len(plans), q # p PROVE AssistantSound(q)'
        BY <1>17
      <3>1. \A c \in Confirms : confirm[c].plan = q \/ confirm'[c].plan = q => confirm'[c] = confirm[c]
        <4> SUFFICES ASSUME NEW c \in Confirms, q \in {confirm[c].plan, confirm'[c].plan}
                     PROVE  confirm'[c] = confirm[c]
          OBVIOUS
        <4>1. q \notin {0, p}
          BY <1>17
        <4>2. ~({confirm[c].plan, confirm'[c].plan} \subseteq {0, p})
          BY <4>1
        <4> QED
          BY <1>17, <4>2
      <3>2. plans'[q] = plans[q]
        BY <2>1
      <3> QED
        BY <1>3, <3>1, <3>2
    <2>4. AssistantOpen'
      BY <1>17, <2>1 DEF AssistantOpen
    <2>5. AssistantPointed'
      BY <1>2, <1>17, <2>1 DEF AssistantPointed
    <2> QED
      BY <2>1, <2>2, <2>3, <2>4, <2>5 DEF AssistantInv
  <1>18. ASSUME NEW p \in 1 .. Len(plans), As!cancel_plan(p) PROVE AssistantInv'
    <2> DEFINE x == [plans[p] EXCEPT !.status = "cancelled"]
    <2>1. /\ x \in As!Plan /\ x.steps = plans[p].steps /\ x.runs = plans[p].runs
          /\ x.overlap = plans[p].overlap /\ x.status = "cancelled"
      <3>1. plans[p] \in As!Plan
        BY <1>2
      <3> QED
        BY <3>1, AssistantChanged
    <2>2. /\ plans' = [plans EXCEPT ![p] = x]
          /\ UNCHANGED <<run, known, cards, turns, session, confirm>>
      BY <1>18 DEF As!cancel_plan
    <2> HIDE DEF x
    <2>3. plans'[p] = x
      BY <2>2
    <2>4. AssistantSound(p)'
      BY <1>3, <2>1, <2>2, <2>3
    <2> QED
      BY <1>17, <2>1, <2>2, <2>4
  <1>19. ASSUME NEW c \in Confirms, NEW x \in AssistantConfirmation,
                confirm' = [confirm EXCEPT ![c] = x]
         PROVE  /\ confirm' \in [Confirms -> AssistantConfirmation] /\ confirm'[c] = x
                /\ \A d \in Confirms \ {c} : confirm'[d] = confirm[d]
    BY <1>19
  <1>20. ASSUME NEW p \in 1 .. Len(plans), NEW c \in Confirms, As!plan_confirm(c, p)
         PROVE  AssistantInv'
    <2> DEFINE b == plans[p].overlap \/ As!Running(p) # {}
               x == [plans[p] EXCEPT !.overlap = b]
               y == [confirm[c] EXCEPT !.plan = p]
    <2>1. /\ confirm[c] = As!Idle /\ plans[p].status = "pending"
          /\ confirm' = [confirm EXCEPT ![c] = y]
          /\ plans' = [plans EXCEPT ![p] = x] /\ UNCHANGED <<run, known, cards, turns, session>>
      BY <1>20 DEF As!plan_confirm, As!Confirmable
    <2>2. b \in BOOLEAN /\ plans[p] \in As!Plan
      BY <1>2 DEF As!Plan
    <2>3. x \in As!Plan /\ x.steps = plans[p].steps /\ x.runs = plans[p].runs /\ x.overlap = b
      <3> HIDE DEF b
      <3> QED
        BY <2>2, AssistantMarked
    <2>4. y \in AssistantConfirmation /\ y.plan = p /\ y.step = 1
      <3>1. p \in 0 .. MaxPlans /\ confirm[c] \in AssistantConfirmation /\ confirm[c].step = 1
        BY <1>2, <2>1, AssistantNobody
      <3> QED
        BY <3>1, AssistantTaken
    <2> HIDE DEF x, y
    <2>5. /\ confirm' \in [Confirms -> AssistantConfirmation] /\ confirm'[c].plan = p
          /\ confirm'[c].step = 1
          /\ \A d \in Confirms \ {c} : confirm'[d] = confirm[d]
      BY <1>19, <2>1, <2>4
    <2>6. \A d \in Confirms : confirm'[d] = confirm[d] \/ ({confirm[d].plan, confirm'[d].plan} \subseteq {0, p})
      BY <2>1, <2>5, AssistantNobody
    <2>7. plans'[p] = x
      BY <2>1
    <2>8. AssistantSound(p)'
      <3>1. AssistantSound(p)
        OBVIOUS
      <3>2. ASSUME ~b
            PROVE  /\ \A i \in 1 .. Len(plans[p].runs) : plans[p].runs[i] = 0 /\ plans[p].runs[i] <= 1
                   /\ \A d \in Confirms : confirm'[d].plan = p => d = c
        <4>1. ~plans[p].overlap /\ \A d \in Confirms : confirm[d].plan # p
          BY <3>2 DEF As!Running
        <4>2. \A i \in 1 .. Len(plans[p].runs) : plans[p].runs[i] = 0
          BY <2>1, <3>1, <4>1 DEF AssistantSound
        <4> QED
          BY <2>5, <4>1, <4>2
      <3> HIDE DEF b
      <3> QED
        BY <2>3, <2>5, <2>7, <3>1, <3>2 DEF AssistantSound
    <2> QED
      BY <1>17, <2>1, <2>3, <2>5, <2>6, <2>8
  <1>21. ASSUME NEW c \in Confirms, confirm[c].plan # 0
         PROVE  /\ confirm[c] \in AssistantConfirmation /\ confirm[c].plan \in 1 .. Len(plans)
                /\ AssistantSound(confirm[c].plan)
                /\ plans[confirm[c].plan] \in As!Plan /\ confirm[c].step \in 1 .. MaxCards + 1
    <2>1. confirm[c] \in AssistantConfirmation
      BY <1>21
    <2>2. confirm[c].plan \in 1 .. Len(plans)
      BY <1>2, <1>21, <2>1 DEF AssistantPointed, AssistantConfirmation
    <2> QED
      BY <1>2, <2>1, <2>2 DEF AssistantConfirmation
  <1>22. ASSUME NEW c \in Confirms, As!execute_prepared(c) PROVE AssistantInv'
    <2>1. PICK p \in 1 .. Len(plans), i \in 1 .. MaxCards + 1 : p = confirm[c].plan /\ i = confirm[c].step
      BY <1>21, <1>22 DEF As!execute_prepared
    <2> DEFINE r == [plans[p].runs EXCEPT ![i] = IF @ = 2 THEN 2 ELSE @ + 1]
               x == [plans[p] EXCEPT !.runs = r]
               y(ok) == [confirm[c] EXCEPT !.step = @ + 1, !.failed = @ \/ ~ok]
    <2>2. /\ i <= Len(plans[p].steps)
          /\ (\E ok \in BOOLEAN : confirm' = [confirm EXCEPT ![c] = y(ok)])
          /\ plans' = [plans EXCEPT ![p] = x] /\ UNCHANGED <<run, known, cards, turns, session>>
      BY <1>22, <2>1 DEF As!execute_prepared
    <2>3. AssistantSound(p) /\ plans[p] \in As!Plan /\ confirm[c] \in AssistantConfirmation
      BY <1>21, <2>1
    <2>4. /\ plans[p].runs \in Seq(0 .. 2) /\ Len(plans[p].runs) = Len(plans[p].steps)
          /\ Len(plans[p].steps) <= MaxCards
          /\ Len(plans[p].steps) \in Nat
      BY <2>3 DEF AssistantSound, As!Plan
    <2>5. r \in Seq(0 .. 2) /\ Len(r) = Len(plans[p].runs) /\ (plans[p].runs[i] = 0 => r[i] = 1)
          /\ \A j \in (1 .. Len(plans[p].runs)) \ {i} : r[j] = plans[p].runs[j]
      BY <2>2, <2>4
    <2> HIDE DEF r
    <2>6. /\ x \in As!Plan /\ x.steps = plans[p].steps /\ x.runs = r
          /\ x.overlap = plans[p].overlap /\ x.status = plans[p].status
      BY <2>3, <2>5, AssistantRan
    <2>7. ASSUME NEW ok \in BOOLEAN
          PROVE  y(ok) \in AssistantConfirmation /\ y(ok).plan = p /\ y(ok).step = i + 1
      <3>1. i + 1 \in 1 .. MaxCards + 1
        BY <2>2, <2>4
      <3> QED
        BY <2>1, <2>3, <3>1 DEF AssistantConfirmation
    <2> HIDE DEF x, y
    <2>8. PICK z \in AssistantConfirmation : confirm' = [confirm EXCEPT ![c] = z] /\ z.plan = p /\ z.step = i + 1
      BY <2>2, <2>7
    <2>9. /\ confirm' \in [Confirms -> AssistantConfirmation] /\ confirm'[c].plan = p
          /\ confirm'[c].step = i + 1
          /\ \A d \in Confirms \ {c} : confirm'[d] = confirm[d]
      BY <1>19, <2>8
    <2>10. plans'[p] = x
      BY <2>2
    <2>11. AssistantSound(p)'
      <3>1. \A d \in Confirms : confirm'[d].plan = confirm[d].plan
        BY <2>1, <2>9
      <3>2. ASSUME ~plans[p].overlap
            PROVE  /\ \A d, e \in Confirms : confirm[d].plan = p /\ confirm[e].plan = p => d = e
                   /\ \A j \in 1 .. Len(plans[p].runs) : r[j] <= 1 /\ (j >= i + 1 => r[j] = 0)
        <4>1. /\ plans[p].runs[i] = 0
              /\ \A j \in 1 .. Len(plans[p].runs) : plans[p].runs[j] <= 1 /\ (j >= i => plans[p].runs[j] = 0)
          <5>1. /\ i \in 1 .. Len(plans[p].runs) /\ confirm[c].plan = p /\ confirm[c].step = i
            BY <2>1, <2>2, <2>4
          <5>2. /\ \A j \in 1 .. Len(plans[p].runs) : plans[p].runs[j] <= 1
                /\ \A j \in 1 .. Len(plans[p].runs) : j >= confirm[c].step => plans[p].runs[j] = 0
            BY <2>3, <3>2, <5>1 DEF AssistantSound
          <5> QED
            BY <5>1, <5>2
        <4> QED
          BY <2>3, <2>5, <3>2, <4>1 DEF AssistantSound
      <3>3. \A d \in Confirms : confirm'[d].plan = p /\ ~plans[p].overlap => d = c
        BY <2>1, <3>1, <3>2
      <3>4. Len(r) = Len(plans[p].steps) /\ Len(plans[p].steps) <= MaxCards
        BY <2>4, <2>5
      <3>5. /\ plans'[p].runs = r /\ plans'[p].steps = plans[p].steps
            /\ plans'[p].overlap = plans[p].overlap
        BY <2>6, <2>10
      <3>6. ASSUME ~plans[p].overlap
            PROVE  /\ \A j \in 1 .. Len(r) : r[j] <= 1
                   /\ \A d, e \in Confirms : confirm'[d].plan = p /\ confirm'[e].plan = p => d = e
        BY <2>5, <3>2, <3>3, <3>6
      <3>7. ASSUME ~plans[p].overlap, NEW d \in Confirms, confirm'[d].plan = p
            PROVE  \A j \in 1 .. Len(r) : j >= confirm'[d].step => r[j] = 0
        <4>1. d = c /\ confirm'[d].step = i + 1
          BY <2>9, <3>3, <3>7
        <4> QED
          BY <2>5, <3>2, <3>7, <4>1
      <3>8. confirm'[c].plan = p
        BY <2>9
      <3> QED
        BY <3>4, <3>5, <3>6, <3>7, <3>8 DEF AssistantSound
    <2>12. \A d \in Confirms : confirm'[d] = confirm[d] \/ ({confirm[d].plan, confirm'[d].plan} \subseteq {0, p})
      BY <2>1, <2>9
    <2> QED
      BY <1>17, <2>2, <2>6, <2>9, <2>11, <2>12
  <1>23. ASSUME NEW c \in Confirms, NEW p \in 1 .. Len(plans), p = confirm[c].plan,
                NEW x \in As!Plan,
                x.steps = plans[p].steps, x.runs = plans[p].runs,
                x.overlap \/ (x.overlap = plans[p].overlap /\ x.status # "pending"),
                plans' = [plans EXCEPT ![p] = x], confirm' = [confirm EXCEPT ![c] = As!Idle], UNCHANGED <<run, known, cards, turns, session>>
         PROVE  AssistantInv'
    <2>1. /\ confirm' \in [Confirms -> AssistantConfirmation] /\ confirm'[c].plan = 0
          /\ \A d \in Confirms \ {c} : confirm'[d] = confirm[d]
      BY <1>19, <1>23, AssistantNobody
    <2>2. plans'[p] = x /\ AssistantSound(p)
      BY <1>23
    <2>3. \A d \in Confirms : confirm'[d].plan = p => d # c /\ confirm'[d] = confirm[d] /\ confirm[d].plan = p
      BY <2>1
    <2>4. AssistantSound(p)'
      BY <1>23, <2>2, <2>3 DEF AssistantSound
    <2>5. \A d \in Confirms : confirm'[d] = confirm[d] \/ ({confirm[d].plan, confirm'[d].plan} \subseteq {0, p})
      BY <1>23, <2>1
    <2> QED
      BY <1>17, <1>23, <2>1, <2>4, <2>5
  <1>24. ASSUME NEW c \in Confirms, As!set_status(c) PROVE AssistantInv'
    <2>1. PICK p \in 1 .. Len(plans) : p = confirm[c].plan
      BY <1>21, <1>24 DEF As!set_status
    <2> DEFINE s == IF confirm[c].failed THEN "failed" ELSE "executed"
               x == [plans[p] EXCEPT !.status = s]
    <2>2. /\ plans' = [plans EXCEPT ![p] = x] /\ confirm' = [confirm EXCEPT ![c] = As!Idle]
          /\ UNCHANGED <<run, known, cards, turns, session>>
      BY <1>24, <2>1 DEF As!set_status
    <2>3. s \in {"executed", "failed"} /\ plans[p] \in As!Plan
      BY <1>2
    <2> HIDE DEF s
    <2>4. /\ x \in As!Plan /\ x.steps = plans[p].steps /\ x.runs = plans[p].runs
          /\ x.overlap = plans[p].overlap /\ x.status = s
      <3>1. s \in {"pending", "executed", "cancelled", "expired", "failed"}
        BY <2>3
      <3> QED
        BY <2>3, <3>1, AssistantSettled
    <2> HIDE DEF x
    <2> QED
      BY <1>23, <2>1, <2>2, <2>3, <2>4
  <1>25. ASSUME NEW c \in Confirms, As!Hangup(c) PROVE AssistantInv'
    <2>1. PICK p \in 1 .. Len(plans) : p = confirm[c].plan
      BY <1>21, <1>25 DEF As!Hangup
    <2> DEFINE x == [plans[p] EXCEPT !.overlap = TRUE]
    <2>2. /\ plans' = [plans EXCEPT ![p] = x] /\ confirm' = [confirm EXCEPT ![c] = As!Idle]
          /\ UNCHANGED <<run, known, cards, turns, session>>
      BY <1>25, <2>1 DEF As!Hangup
    <2>3. plans[p] \in As!Plan
      BY <1>2
    <2>4. x \in As!Plan /\ x.steps = plans[p].steps /\ x.runs = plans[p].runs /\ x.overlap = TRUE
      BY <2>3, AssistantMarked
    <2> HIDE DEF x
    <2> QED
      BY <1>23, <2>1, <2>2, <2>4
  <1>26. ASSUME UNCHANGED As!vars PROVE AssistantInv'
    <2>1. UNCHANGED <<run, known, cards, turns, session, plans, confirm>>
      BY <1>26 DEF As!vars
    <2>2. AssistantOpen'
      BY <2>1 DEF AssistantOpen
    <2> QED
      BY <1>4, <2>1, <2>2
  <1> QED
    BY <1>7, <1>8, <1>9, <1>12, <1>14, <1>15, <1>16, <1>18, <1>20, <1>22, <1>24, <1>25, <1>26
       DEF As!Next

(* A plan that was never disturbed is sound. *)
LEMMA AssistantOnce == ASSUME AssistantInv PROVE As!OnceUnlessOverlapping
  BY DEF AssistantInv, AssistantSound, As!OnceUnlessOverlapping

-----------------------------------------------------------------------------
(***************************************************************************)
(* Ideas: the claim of a memo is one run's (cache/ideas.rs).               *)
(***************************************************************************)
IdeasClaim == [attempts : 0 .. Attempts, task : BOOLEAN]
IdeasRunType == [step : Id!Steps, dry : BOOLEAN, read : [Memos -> 0 .. MaxVersion], work : SUBSET Memos,
                 memo : SUBSET Memos, claimed : [Memos -> IdeasClaim]]
IdeasAt(r) == run[r].work \cup run[r].memo
IdeasBefore == {"ask", "model", "make", "must", "fallback"}
IdeasWithout == {"model", "make", "must"}
IdeasAfter == {"note", "finish"}

(* A run has claimed nothing before its claim, and is at one memo. *)
IdeasOrdered == \A r \in Runs : /\ run[r].step \in {"idle", "scan", "store", "claim"} => IdeasAt(r) = {}
                                /\ run[r].step = "next" => run[r].memo = {}
                                /\ run[r].work \cap run[r].memo = {}
                                /\ \A f, g \in run[r].memo : f = g
                                /\ run[r].dry => run[r].step \notin {"make", "must", "note"}
(* What one run is at, its row says, and no other run is at it; without    *)
(* the task until it is made: but the fallback is made with or without.    *)
IdeasClaims == \A r \in Runs : \A f \in IdeasAt(r) \ excused :
              /\ row[f].status = "processing" /\ ~row[f].old
              /\ \A q \in Runs \ {r} : f \notin IdeasAt(q)
              /\ f \in run[r].work \/ run[r].step \in IdeasBefore => run[r].claimed[f].task = row[f].task
              /\ f \in run[r].memo /\ ~run[r].dry /\ run[r].step \in IdeasWithout => ~row[f].task
(* A task made is noted, or about to be. *)
IdeasNoted == \A f \in made \ excused : row[f].task \/ \E r \in Runs : f \in run[r].memo /\ run[r].step \in IdeasAfter
IdeasInv == Id!TypeOK /\ IdeasOrdered /\ IdeasClaims /\ IdeasNoted /\ Id!OneRunPerIdea

LEMMA IdeasBounds ==
    ASSUME Id!IdeasAssumption
    PROVE  /\ Attempts \in Nat \ {0} /\ MaxVersion \in Nat /\ MaxErrors \in Nat /\ MaxCalls \in Nat
           /\ MaxStops \in Nat
  BY DEF Id!IdeasAssumption

LEMMA IdeasSimple ==
    ASSUME Id!IdeasAssumption
    PROVE  /\ Id!NoRow \in Id!Rows /\ Id!NoClaim \in IdeasClaim /\ Id!Idle \in IdeasRunType
           /\ Id!Idle.step = "idle" /\ Id!Idle.work = {} /\ Id!Idle.memo = {}
  BY IdeasBounds DEF Id!NoRow, Id!Rows, Id!NoClaim, IdeasClaim, Id!Idle, IdeasRunType, Id!Steps

LEMMA IdeasInitially == ASSUME Id!IdeasAssumption PROVE Id!Init => IdeasInv
  <1> SUFFICES ASSUME Id!Init PROVE IdeasInv
    OBVIOUS
  <1>1. Id!TypeOK
    BY IdeasSimple, IdeasBounds DEF Id!Init, Id!TypeOK, IdeasRunType, IdeasClaim
  <1>2. IdeasOrdered /\ IdeasClaims /\ IdeasNoted /\ Id!OneRunPerIdea
    BY IdeasSimple DEF Id!Init, IdeasOrdered, IdeasClaims, IdeasNoted, Id!OneRunPerIdea, IdeasAt,
       Id!Idle
  <1> QED
    BY <1>1, <1>2 DEF IdeasInv

(* The parts of the type that every step has to keep. *)
LEMMA IdeasTyped ==
    ASSUME Id!TypeOK
    PROVE  /\ row \in [Memos -> Id!Rows] /\ run \in [Runs -> IdeasRunType]
           /\ made \subseteq Memos /\ twice \subseteq Memos /\ excused \subseteq Memos /\ unread \subseteq Memos
           /\ abandoned \subseteq Memos
  BY DEF Id!TypeOK, IdeasRunType, IdeasClaim

LEMMA IdeasFallible ==
    ASSUME Id!IdeasAssumption, Id!TypeOK, Id!Fails
    PROVE  errors' \in 0 .. MaxErrors
  BY IdeasBounds DEF Id!TypeOK, Id!Fails

(* A run is set to another record; the others stay as they are. *)
LEMMA IdeasSet_ ==
    ASSUME Id!TypeOK, NEW r \in Runs, NEW new \in IdeasRunType, Id!Set(r, new)
    PROVE  /\ run' \in [Runs -> IdeasRunType] /\ run'[r] = new
           /\ \A q \in Runs \ {r} : run'[q] = run[q]
  BY IdeasTyped DEF Id!Set

(* A run at a memo goes on with it. *)
LEMMA IdeasStays ==
    ASSUME IdeasInv, NEW r \in Runs, NEW f \in run[r].memo,
           NEW stage \in IdeasBefore \cup IdeasAfter, Id!Go(r, stage),
           UNCHANGED row, excused \subseteq excused',
           run[r].dry => stage \notin {"make", "must", "note"},
           run[r].step \in IdeasAfter => stage \in IdeasAfter,
           run[r].step \in IdeasWithout \/ stage \notin IdeasWithout \/ ~run[r].claimed[f].task \/ run[r].dry,
           made' = made \/ (made' = made \cup {f} /\ (stage \in IdeasAfter \/ f \in excused'))
    PROVE  run' \in [Runs -> IdeasRunType] /\ IdeasOrdered' /\ IdeasClaims' /\ IdeasNoted'
  <1> DEFINE new == [run[r] EXCEPT !.step = stage]
  <1>1. run[r] \in IdeasRunType /\ stage \in Id!Steps
    BY IdeasTyped DEF IdeasInv, IdeasBefore, IdeasAfter, Id!Steps
  <1>2. /\ new \in IdeasRunType /\ new.step = stage /\ new.work = run[r].work
        /\ new.memo = run[r].memo
        /\ new.dry = run[r].dry /\ new.claimed = run[r].claimed
    BY <1>1 DEF IdeasRunType
  <1> HIDE DEF new
  <1>3. run' \in [Runs -> IdeasRunType] /\ run'[r] = new /\ \A q \in Runs \ {r} : run'[q] = run[q]
    BY <1>2, IdeasSet_ DEF Id!Go, IdeasInv, new
  <1>4. \A q \in Runs : /\ IdeasAt(q)' = IdeasAt(q) /\ run'[q].work = run[q].work /\ run'[q].memo = run[q].memo
                        /\ run'[q].dry = run[q].dry /\ run'[q].claimed = run[q].claimed
                        /\ q # r => run'[q].step = run[q].step
    BY <1>2, <1>3 DEF IdeasAt
  <1>5. run[r].step \notin {"idle", "scan", "store", "claim", "next"}
    BY DEF IdeasInv, IdeasOrdered, IdeasAt
  <1>6. IdeasOrdered'
    BY <1>2, <1>3, <1>4, <1>5 DEF IdeasInv, IdeasOrdered, IdeasBefore, IdeasAfter
  <1>7. run[r].step \in IdeasBefore \cup IdeasAfter
    BY <1>1, <1>5 DEF IdeasRunType, Id!Steps, IdeasBefore, IdeasAfter
  <1>8. IdeasClaims'
    <2> SUFFICES ASSUME NEW q \in Runs, NEW g \in IdeasAt(q) \ excused
                 PROVE  /\ row[g].status = "processing" /\ ~row[g].old
                        /\ \A p \in Runs \ {q} : g \notin IdeasAt(p)
                        /\ g \in run[q].work \/ run'[q].step \in IdeasBefore => run[q].claimed[g].task = row[g].task
                        /\ g \in run[q].memo /\ ~run[q].dry /\ run'[q].step \in IdeasWithout => ~row[g].task
      BY <1>4 DEF IdeasClaims
    <2>1. CASE q # r
      BY <1>4, <2>1 DEF IdeasInv, IdeasClaims
    <2>2. CASE q = r
      <3>1. run'[r].step = stage /\ (stage \in IdeasBefore => run[r].step \in IdeasBefore)
            /\ IdeasWithout \subseteq IdeasBefore
        BY <1>2, <1>3, <1>7 DEF IdeasBefore, IdeasAfter, IdeasWithout
      <3>2. g \in run[r].memo => g = f
        BY <2>2 DEF IdeasInv, IdeasOrdered
      <3>3. stage \in IdeasBefore => run[r].claimed[g].task = row[g].task
        BY <2>2, <3>1 DEF IdeasInv, IdeasClaims
      <3> QED
        BY <2>2, <3>1, <3>2, <3>3 DEF IdeasInv, IdeasClaims
    <2> QED
      BY <2>1, <2>2
  <1>9. IdeasNoted'
    BY <1>2, <1>3, <1>4 DEF IdeasInv, IdeasNoted
  <1> QED
    BY <1>3, <1>6, <1>8, <1>9

(* A run leaves its memo with the row as given. *)
LEMMA IdeasLeaves ==
    ASSUME Id!IdeasAssumption, IdeasInv, NEW r \in Runs, NEW f \in run[r].memo, NEW new \in Id!Rows,
           Id!Over(r, f), row' = [row EXCEPT ![f] = new],
           excused \subseteq excused', made' = made \/ (made' = made \cup {f} /\ f \in excused'),
           f \in excused' \/ (IF run[r].step \in IdeasAfter THEN new.task ELSE new.task = row[f].task)
    PROVE  /\ run' \in [Runs -> IdeasRunType] /\ row' \in [Memos -> Id!Rows] /\ IdeasOrdered'
           /\ IdeasClaims' /\ IdeasNoted'
  <1> DEFINE rec == [run[r] EXCEPT !.step = "next", !.memo = {}, !.claimed[f] = Id!NoClaim]
  <1>1. f \in Memos /\ run[r] \in IdeasRunType
    BY IdeasTyped DEF IdeasInv, IdeasRunType
  <1>2. /\ rec \in IdeasRunType /\ rec.step = "next" /\ rec.work = run[r].work /\ rec.memo = {}
        /\ \A g \in Memos \ {f} : rec.claimed[g] = run[r].claimed[g]
    BY <1>1, IdeasSimple DEF IdeasRunType, Id!Steps
  <1> HIDE DEF rec
  <1>3. run' \in [Runs -> IdeasRunType] /\ run'[r] = rec /\ \A q \in Runs \ {r} : run'[q] = run[q]
    BY <1>2, IdeasSet_ DEF Id!Over, IdeasInv, rec
  <1>4. row' \in [Memos -> Id!Rows] /\ row'[f] = new /\ \A g \in Memos \ {f} : row'[g] = row[g]
    BY <1>1, IdeasTyped DEF IdeasInv
  <1>5. /\ \A q \in Runs \ {r} : IdeasAt(q)' = IdeasAt(q)
        /\ IdeasAt(r)' = run[r].work /\ f \notin run[r].work /\ run[r].memo = {f}
    BY <1>2, <1>3 DEF IdeasAt, IdeasInv, IdeasOrdered
  <1>6. IdeasOrdered'
    BY <1>2, <1>3, <1>5 DEF IdeasInv, IdeasOrdered
  <1>7. ASSUME NEW q \in Runs, NEW g \in IdeasAt(q)' \ excused'
        PROVE  g # f /\ g \in IdeasAt(q) \ excused /\ row'[g] = row[g]
    <2>1. g \in IdeasAt(q) \ excused
      BY <1>5, <1>7 DEF IdeasAt
    <2>2. g \in Memos
      BY <2>1, IdeasTyped DEF IdeasAt, IdeasRunType, IdeasInv
    <2>3. q # r => g # f
      BY <1>5, <2>1 DEF IdeasInv, IdeasClaims, IdeasAt
    <2> QED
      BY <1>4, <1>5, <1>7, <2>1, <2>2, <2>3
  <1>8. IdeasClaims'
    <2> SUFFICES ASSUME NEW q \in Runs, NEW g \in IdeasAt(q)' \ excused'
                 PROVE  /\ row'[g].status = "processing" /\ ~row'[g].old
                        /\ \A p \in Runs \ {q} : g \notin IdeasAt(p)'
                        /\ g \in run'[q].work \/ run'[q].step \in IdeasBefore => run'[q].claimed[g].task = row'[g].task
                        /\ g \in run'[q].memo /\ ~run'[q].dry /\ run'[q].step \in IdeasWithout => ~row'[g].task
      BY DEF IdeasClaims
    <2>1. /\ g # f /\ g \in IdeasAt(q) /\ g \notin excused /\ row'[g] = row[g] /\ g \in Memos
      BY <1>7, IdeasTyped DEF IdeasAt, IdeasRunType, IdeasInv
    <2>2. \A p \in Runs : IdeasAt(p)' \subseteq IdeasAt(p)
      BY <1>5 DEF IdeasAt
    <2>3. CASE q = r
      BY <1>2, <1>3, <2>1, <2>2, <2>3 DEF IdeasInv, IdeasClaims, IdeasBefore, IdeasWithout
    <2>4. CASE q # r
      BY <1>3, <2>1, <2>2, <2>4 DEF IdeasInv, IdeasClaims
    <2> QED
      BY <2>3, <2>4
  <1>9. IdeasNoted'
    <2> SUFFICES ASSUME NEW g \in made' \ excused'
                 PROVE  row'[g].task \/ \E q \in Runs : g \in run'[q].memo /\ run'[q].step \in IdeasAfter
      BY DEF IdeasNoted
    <2>1. g \in made \ excused /\ g \in Memos
      BY IdeasTyped DEF IdeasInv
    <2>2. row[g].task \/ \E q \in Runs : g \in run[q].memo /\ run[q].step \in IdeasAfter
      BY <2>1 DEF IdeasInv, IdeasNoted
    <2>3. CASE g = f
      <3>1. \A q \in Runs \ {r} : f \notin IdeasAt(q)
        BY <2>1, <2>3 DEF IdeasInv, IdeasClaims, IdeasAt
      <3> QED
        BY <1>4, <2>2, <2>3, <3>1 DEF IdeasAt
    <2>4. CASE g # f
      BY <1>3, <1>4, <1>5, <2>1, <2>2, <2>4
    <2> QED
      BY <2>3, <2>4
  <1> QED
    BY <1>3, <1>4, <1>6, <1>8, <1>9

(* What may be made of a row is one. *)
LEMMA IdeasRowsOf ==
    ASSUME Id!IdeasAssumption, Id!TypeOK, NEW f \in Memos
    PROVE  /\ row[f] \in Id!Rows
           /\ \A v \in 0 .. MaxVersion : Id!upsert_idea(f, v) \in Id!Rows /\ Id!upsert_idea(f, v).task = row[f].task
           /\ \A v \in 0 .. MaxVersion : /\ Id!upsert_idea(f, v).version = row[f].version =>
                                             /\ Id!upsert_idea(f, v).status = row[f].status
                                             /\ ~row[f].old => ~Id!upsert_idea(f, v).old
           /\ Id!Claimed(f) \in Id!Rows /\ Id!Claimed(f).status = "processing"
           /\ ~Id!Claimed(f).old /\ Id!Claimed(f).task = row[f].task
           /\ Id!reset_all[f] \in Id!Rows
           /\ [[row[f] EXCEPT !.status = "done", !.task = TRUE, !.due = TRUE] EXCEPT !.old = FALSE] \in Id!Rows
           /\ [[row[f] EXCEPT !.status = "done", !.task = TRUE, !.due = TRUE] EXCEPT !.old = FALSE].task
           /\ [[row[f] EXCEPT !.task = TRUE] EXCEPT !.old = FALSE] \in Id!Rows
  <1>1. row[f] \in Id!Rows
    BY IdeasTyped
  <1>2. Attempts \in Nat \ {0} /\ MaxVersion \in Nat
    BY IdeasBounds
  <1>3. ASSUME NEW v \in 0 .. MaxVersion
        PROVE  /\ Id!upsert_idea(f, v) \in Id!Rows /\ Id!upsert_idea(f, v).task = row[f].task
               /\ Id!upsert_idea(f, v).version = row[f].version =>
                         Id!upsert_idea(f, v).status = row[f].status /\ (~row[f].old => ~Id!upsert_idea(f, v).old)
    <2>1. CASE v = 0
      BY <1>1, <2>1 DEF Id!upsert_idea
    <2>2. CASE v # 0 /\ v = row[f].version
      BY <1>1, <2>2 DEF Id!upsert_idea, Id!Rows
    <2>3. CASE v # 0 /\ v # row[f].version
      <3>1. Id!upsert_idea(f, v) = [status |-> "pending", version |-> v, attempts |-> 0, due |-> TRUE,
                                    task |-> row[f].task, old |-> FALSE]
        BY <2>3 DEF Id!upsert_idea, Id!Changed, Id!NoRow
      <3> QED
        BY <1>1, <1>2, <2>3, <3>1 DEF Id!Rows
    <2> QED
      BY <2>1, <2>2, <2>3
  <1>4. /\ Id!Claimed(f) \in Id!Rows /\ Id!Claimed(f).status = "processing" /\ ~Id!Claimed(f).old
        /\ Id!Claimed(f).task = row[f].task
    BY <1>1 DEF Id!Claimed, Id!Rows
  <1>5. Id!reset_all[f] \in Id!Rows
    <2>1. Id!NoRow \in Id!Rows /\ row[f].version \in 0 .. MaxVersion
      BY <1>1, IdeasSimple DEF Id!Rows
    <2>2. [Id!NoRow EXCEPT !.status = "pending", !.version = row[f].version] \in Id!Rows
      BY <2>1 DEF Id!Rows
    <2> QED
      BY <2>1, <2>2 DEF Id!reset_all
  <1>6. /\ [[row[f] EXCEPT !.status = "done", !.task = TRUE, !.due = TRUE] EXCEPT !.old = FALSE] \in Id!Rows
        /\ [[row[f] EXCEPT !.status = "done", !.task = TRUE, !.due = TRUE] EXCEPT !.old = FALSE].task
        /\ [[row[f] EXCEPT !.task = TRUE] EXCEPT !.old = FALSE] \in Id!Rows
    BY <1>1 DEF Id!Rows
  <1> QED
    BY <1>1, <1>3, <1>4, <1>5, <1>6

LEMMA IdeasFailures ==
    ASSUME Id!IdeasAssumption, Id!TypeOK, NEW f \in Memos
    PROVE  /\ [[row[f] EXCEPT !.status = "failed", !.due = FALSE] EXCEPT !.old = FALSE] \in Id!Rows
           /\ [[row[f] EXCEPT !.status = "failed", !.due = FALSE] EXCEPT !.old = FALSE].task = row[f].task
           /\ LET new == [[row[f] EXCEPT !.status = "failed", !.due = FALSE,
                                         !.attempts = IF @ < Attempts THEN @ + 1 ELSE @] EXCEPT !.old = FALSE] IN
              new \in Id!Rows /\ new.task = row[f].task
  <1>1. row[f] \in Id!Rows /\ row[f].attempts \in 0 .. Attempts /\ Attempts \in Nat
    BY IdeasTyped, IdeasBounds DEF Id!Rows
  <1>2. (IF row[f].attempts < Attempts THEN row[f].attempts + 1 ELSE row[f].attempts) \in 0 .. Attempts
    BY <1>1
  <1> QED
    BY <1>1, <1>2 DEF Id!Rows

(* The rows may change where no run is at them, or where it is excused. *)
LEMMA IdeasElsewhere ==
    ASSUME IdeasInv, UNCHANGED <<run, made>>, excused \subseteq excused',
           row' \in [Memos -> Id!Rows],
           \A f \in Memos \ excused' : row'[f].task = row[f].task,
           \A r \in Runs : \A f \in IdeasAt(r) \ excused' : row'[f].status = row[f].status /\ row'[f].old = row[f].old
    PROVE  run' \in [Runs -> IdeasRunType] /\ IdeasOrdered' /\ IdeasClaims' /\ IdeasNoted'
  <1>1. \A r \in Runs : run[r] \in IdeasRunType /\ IdeasAt(r)' = IdeasAt(r) /\ IdeasAt(r) \subseteq Memos
    BY IdeasTyped DEF IdeasInv, IdeasAt, IdeasRunType
  <1>2. IdeasOrdered'
    BY <1>1 DEF IdeasInv, IdeasOrdered
  <1>3. IdeasClaims'
    <2> SUFFICES ASSUME NEW q \in Runs, NEW g \in IdeasAt(q)' \ excused'
                 PROVE  /\ row'[g].status = "processing" /\ ~row'[g].old
                        /\ \A p \in Runs \ {q} : g \notin IdeasAt(p)'
                        /\ g \in run'[q].work \/ run'[q].step \in IdeasBefore => run'[q].claimed[g].task = row'[g].task
                        /\ g \in run'[q].memo /\ ~run'[q].dry /\ run'[q].step \in IdeasWithout => ~row'[g].task
      BY DEF IdeasClaims
    <2>1. g \in IdeasAt(q) \ excused /\ g \in Memos
      BY <1>1
    <2> QED
      BY <1>1, <2>1 DEF IdeasInv, IdeasClaims
  <1>4. IdeasNoted'
    <2>1. made \subseteq Memos
      BY IdeasTyped DEF IdeasInv
    <2> QED
      BY <2>1 DEF IdeasInv, IdeasNoted
  <1> QED
    BY <1>2, <1>3, <1>4, IdeasTyped DEF IdeasInv

(* A run that is at nothing, and is at nothing after the step. *)
LEMMA IdeasAside ==
    ASSUME IdeasInv, NEW r \in Runs, NEW new \in IdeasRunType, Id!Set(r, new), IdeasAt(r) = {},
           new.step \in {"idle", "scan", "store", "claim"}, new.work = {}, new.memo = {},
           UNCHANGED made, excused \subseteq excused', row' \in [Memos -> Id!Rows],
           \A f \in Memos \ excused' : row'[f].task = row[f].task,
           \A q \in Runs : \A f \in IdeasAt(q) \ excused' : row'[f].status = row[f].status /\ (~row[f].old => ~row'[f].old)
    PROVE  run' \in [Runs -> IdeasRunType] /\ IdeasOrdered' /\ IdeasClaims' /\ IdeasNoted'
  <1>1. run' \in [Runs -> IdeasRunType] /\ run'[r] = new /\ \A q \in Runs \ {r} : run'[q] = run[q]
    BY IdeasSet_ DEF IdeasInv
  <1>2. /\ IdeasAt(r)' = {}
        /\ \A q \in Runs : IdeasAt(q)' = IdeasAt(q) /\ IdeasAt(q) \subseteq Memos
        /\ new.step \notin {"next", "make", "must", "note"}
    <2>1. IdeasAt(r)' = {}
      BY <1>1 DEF IdeasAt
    <2>2. \A q \in Runs : run[q] \in IdeasRunType
      BY IdeasTyped DEF IdeasInv
    <2> QED
      BY <1>1, <2>1, <2>2 DEF IdeasAt, IdeasRunType
  <1>3. IdeasOrdered'
    BY <1>1, <1>2 DEF IdeasInv, IdeasOrdered
  <1>4. IdeasClaims'
    <2> SUFFICES ASSUME NEW q \in Runs, NEW g \in IdeasAt(q)' \ excused'
                 PROVE  /\ row'[g].status = "processing" /\ ~row'[g].old
                        /\ \A p \in Runs \ {q} : g \notin IdeasAt(p)'
                        /\ g \in run'[q].work \/ run'[q].step \in IdeasBefore => run'[q].claimed[g].task = row'[g].task
                        /\ g \in run'[q].memo /\ ~run'[q].dry /\ run'[q].step \in IdeasWithout => ~row'[g].task
      BY DEF IdeasClaims
    <2>1. g \in IdeasAt(q) \ excused /\ g \in Memos /\ q # r
      BY <1>2
    <2> QED
      BY <1>1, <1>2, <2>1 DEF IdeasInv, IdeasClaims
  <1>5. IdeasNoted'
    <2> SUFFICES ASSUME NEW g \in made' \ excused'
                 PROVE  row'[g].task \/ \E q \in Runs : g \in run'[q].memo /\ run'[q].step \in IdeasAfter
      BY DEF IdeasNoted
    <2>1. g \in made \ excused /\ g \in Memos
      BY IdeasTyped DEF IdeasInv
    <2>2. CASE row[g].task
      BY <2>1, <2>2
    <2>3. ASSUME NEW q \in Runs, g \in run[q].memo, run[q].step \in IdeasAfter
          PROVE  \E p \in Runs : g \in run'[p].memo /\ run'[p].step \in IdeasAfter
      BY <1>1, <2>3 DEF IdeasAt
    <2> QED
      BY <2>1, <2>2, <2>3 DEF IdeasInv, IdeasNoted
  <1> QED
    BY <1>1, <1>3, <1>4, <1>5

(* A task is made of a memo for the first time, unless it is excused. *)
LEMMA IdeasMade ==
    ASSUME Id!IdeasAssumption, IdeasInv, NEW r \in Runs, NEW f \in run[r].memo,
           run[r].step \in IdeasBefore, ~row[f].task
    PROVE  f \notin excused => f \notin made
  <1>1. f \in Memos /\ f \in IdeasAt(r)
    BY IdeasTyped DEF IdeasInv, IdeasRunType, IdeasAt
  <1> SUFFICES ASSUME f \notin excused, f \in made PROVE FALSE
    OBVIOUS
  <1>2. ~row[f].task /\ \A q \in Runs \ {r} : f \notin IdeasAt(q)
    BY <1>1 DEF IdeasInv, IdeasClaims
  <1>3. PICK q \in Runs : f \in run[q].memo /\ run[q].step \in IdeasAfter
    BY <1>2 DEF IdeasInv, IdeasNoted
  <1> QED
    BY <1>2, <1>3 DEF IdeasAt, IdeasBefore, IdeasAfter

LEMMA IdeasMaking ==
    ASSUME Id!IdeasAssumption, IdeasInv, NEW r \in Runs, NEW f \in run[r].memo,
           run[r].step \in {"make", "must"}, Id!create_task(f), UNCHANGED unread
    PROVE  twice' \subseteq excused' \cup unread'
  <1>1. ~run[r].dry /\ run[r].step \in IdeasBefore /\ run[r].step \in IdeasWithout /\ f \in IdeasAt(r)
    BY DEF IdeasInv, IdeasOrdered, IdeasBefore, IdeasWithout, IdeasAt
  <1>2. f \in excused \/ ~row[f].task
    BY <1>1 DEF IdeasInv, IdeasClaims
  <1> QED
    BY <1>1, <1>2, IdeasMade DEF Id!create_task, IdeasInv, Id!OneRunPerIdea

LEMMA IdeasInductive == ASSUME Id!IdeasAssumption, IdeasInv, [Id!Next]_Id!vars PROVE IdeasInv'
  <1> DEFINE Keeps == run' \in [Runs -> IdeasRunType] /\ IdeasOrdered' /\ IdeasClaims' /\ IdeasNoted'
  <1>1. /\ \A r \in Runs : run[r] \in IdeasRunType /\ IdeasAt(r) \subseteq Memos /\ run[r].memo \subseteq IdeasAt(r) /\ run[r].work \subseteq IdeasAt(r)
        /\ row \in [Memos -> Id!Rows] /\ made \subseteq Memos /\ twice \subseteq excused \cup unread
        /\ excused \subseteq Memos /\ unread \subseteq Memos
        /\ abandoned \subseteq Memos /\ twice \subseteq Memos
        /\ Id!WorkedAt = UNION {IdeasAt(r) : r \in Runs}
        /\ file \in [Memos -> 0 .. MaxVersion] /\ version \in 0 .. MaxVersion
        /\ errors \in 0 .. MaxErrors
        /\ calls \in 0 .. MaxCalls /\ crashes \in 0 .. MaxStops
    <2>1. \A r \in Runs : run[r] \in IdeasRunType
      BY IdeasTyped DEF IdeasInv
    <2> QED
      BY <2>1, IdeasTyped DEF IdeasAt, IdeasRunType, Id!WorkedAt, IdeasInv, Id!OneRunPerIdea,
         Id!TypeOK
  <1>2. ASSUME Keeps, row' \in [Memos -> Id!Rows], file' \in [Memos -> 0 .. MaxVersion],
               made' \subseteq Memos,
               excused' \subseteq Memos, unread' \subseteq Memos, abandoned' \subseteq Memos,
               twice' \subseteq excused' \cup unread',
               version' \in 0 .. MaxVersion, errors' \in 0 .. MaxErrors, calls' \in 0 .. MaxCalls, crashes' \in 0 .. MaxStops
        PROVE  IdeasInv'
    BY <1>2 DEF IdeasInv, Id!TypeOK, IdeasRunType, IdeasClaim, Id!OneRunPerIdea
  <1>3. ASSUME UNCHANGED <<row, run, made, twice, excused, unread, abandoned, errors, calls, crashes>>,
               file' \in [Memos -> 0 .. MaxVersion], version' \in 0 .. MaxVersion
        PROVE  IdeasInv'
    <2>1. Keeps
      BY <1>1, <1>3, IdeasElsewhere
    <2> QED
      BY <1>1, <1>2, <1>3, <2>1
  <1>4. ASSUME NEW f \in Memos, Id!Export(f) \/ Id!Remove(f) PROVE IdeasInv'
    <2>1. file' \in [Memos -> 0 .. MaxVersion] /\ version' \in 0 .. MaxVersion
      BY <1>1, <1>4, IdeasBounds DEF Id!Export, Id!Remove
    <2> QED
      BY <1>3, <1>4, <2>1 DEF Id!Export, Id!Remove
  <1>5. ASSUME NEW f \in Memos, Id!Due(f) PROVE IdeasInv'
    <2>1. [row[f] EXCEPT !.due = TRUE] \in Id!Rows
      BY <1>1 DEF Id!Rows
    <2>2. row' \in [Memos -> Id!Rows] /\ \A g \in Memos : row'[g].task = row[g].task /\ row'[g].status = row[g].status
                                                      /\ row'[g].old = row[g].old
      BY <1>1, <1>5, <2>1 DEF Id!Due, Id!Put, Id!Rows
    <2>3. Keeps
      BY <1>1, <1>5, <2>2, IdeasElsewhere DEF Id!Due
    <2> QED
      BY <1>1, <1>2, <1>5, <2>2, <2>3 DEF Id!Due
  <1>6. ASSUME NEW f \in Memos, Id!Quarter(f) PROVE IdeasInv'
    <2>1. [row[f] EXCEPT !.old = TRUE] \in Id!Rows
      BY <1>1 DEF Id!Rows
    <2>2. /\ row' \in [Memos -> Id!Rows]
          /\ \A g \in Memos : row'[g].task = row[g].task /\ row'[g].status = row[g].status
                            /\ (g # f => row'[g].old = row[g].old)
      BY <1>1, <1>6, <2>1 DEF Id!Quarter, Id!Put, Id!Rows
    <2>3. /\ excused \subseteq excused' /\ excused' \subseteq Memos
          /\ \A r \in Runs : f \in IdeasAt(r) => f \in excused'
      BY <1>1, <1>6 DEF Id!Quarter
    <2>4. Keeps
      BY <1>1, <1>6, <2>2, <2>3, IdeasElsewhere DEF Id!Quarter
    <2> QED
      BY <1>1, <1>2, <1>6, <2>2, <2>3, <2>4 DEF Id!Quarter
  <1>7. ASSUME Id!spawn_loop PROVE IdeasInv'
    <2>1. Ticker \in Runs /\ IdeasAt(Ticker) = {}
      BY <1>7 DEF Id!spawn_loop, Id!Is, IdeasInv, IdeasOrdered, Id!IdeasAssumption
    <2>2. LET new == [Id!Idle EXCEPT !.step = "scan"] IN
          new \in IdeasRunType /\ new.step = "scan" /\ new.work = {} /\ new.memo = {}
      BY IdeasSimple DEF IdeasRunType, Id!Steps
    <2>3. Keeps
      BY <1>1, <1>7, <2>1, <2>2, IdeasAside DEF Id!spawn_loop
    <2> QED
      BY <1>1, <1>2, <1>7, <2>3 DEF Id!spawn_loop
  <1>8. ASSUME NEW r \in Runs, NEW dry \in BOOLEAN, NEW again \in BOOLEAN,
               Id!process_ideas(r, dry, again)
        PROVE  IdeasInv'
    <2>1. IdeasAt(r) = {} /\ calls' \in 0 .. MaxCalls
      BY <1>1, <1>8, IdeasBounds DEF Id!process_ideas, Id!Is, IdeasInv, IdeasOrdered
    <2>2. LET new == [Id!Idle EXCEPT !.step = "scan", !.dry = dry] IN
          new \in IdeasRunType /\ new.step = "scan" /\ new.work = {} /\ new.memo = {}
      BY IdeasSimple DEF IdeasRunType, Id!Steps
    <2>3. /\ row' \in [Memos -> Id!Rows] /\ excused \subseteq excused' /\ excused' \subseteq Memos
          /\ (excused' = Memos \/ UNCHANGED row)
      <3>1. Id!reset_all \in [Memos -> Id!Rows]
        BY IdeasRowsOf DEF IdeasInv, Id!reset_all
      <3> QED
        BY <1>1, <1>8, <3>1 DEF Id!process_ideas
    <2>4. Keeps
      BY <1>1, <1>8, <2>1, <2>2, <2>3, IdeasAside DEF Id!process_ideas
    <2> QED
      BY <1>1, <1>2, <1>8, <2>1, <2>3, <2>4 DEF Id!process_ideas
  <1>9. ASSUME NEW r \in Runs, Id!run_ideas_scan(r) PROVE IdeasInv'
    <2>1. IdeasAt(r) = {}
      BY <1>9 DEF Id!run_ideas_scan, Id!Is, IdeasInv, IdeasOrdered
    <2>2. LET new == [run[r] EXCEPT !.step = "store", !.read = file] IN
          new \in IdeasRunType /\ new.step = "store" /\ new.work = {} /\ new.memo = {}
      BY <1>1, <2>1 DEF IdeasRunType, Id!Steps, IdeasAt
    <2>3. Keeps
      BY <1>1, <1>9, <2>1, <2>2, IdeasAside DEF Id!run_ideas_scan
    <2> QED
      BY <1>1, <1>2, <1>9, <2>3 DEF Id!run_ideas_scan
  <1>10. ASSUME NEW r \in Runs, Id!Store(r) PROVE IdeasInv'
    <2>1. IdeasAt(r) = {}
      BY <1>10 DEF Id!Store, Id!Is, IdeasInv, IdeasOrdered
    <2>2. LET new == [run[r] EXCEPT !.step = "claim", !.read = Id!Idle.read] IN
          new \in IdeasRunType /\ new.step = "claim" /\ new.work = {} /\ new.memo = {}
      BY <1>1, <2>1, IdeasSimple DEF IdeasRunType, Id!Steps, IdeasAt
    <2>3. \A f \in Memos : /\ run[r].read[f] \in 0 .. MaxVersion /\ row'[f] = Id!upsert_idea(f, run[r].read[f])
      BY <1>1, <1>10 DEF Id!Store, IdeasRunType
    <2>4. row' \in [Memos -> Id!Rows] /\ \A f \in Memos : row'[f].task = row[f].task
      BY <1>10, <2>3, IdeasRowsOf DEF Id!Store, IdeasInv
    <2>5. excused \subseteq excused' /\ excused' \subseteq Memos
      BY <1>1, <1>10 DEF Id!Store
    <2>6. \A q \in Runs : \A f \in IdeasAt(q) \ excused' : row'[f].status = row[f].status /\ (~row[f].old => ~row'[f].old)
      <3> SUFFICES ASSUME NEW q \in Runs, NEW f \in IdeasAt(q) \ excused'
                   PROVE  row'[f].status = row[f].status /\ (~row[f].old => ~row'[f].old)
        OBVIOUS
      <3>1. f \in Id!WorkedAt /\ f \in Memos
        BY <1>1
      <3>2. row'[f].version = row[f].version
        BY <1>10, <3>1 DEF Id!Store
      <3> QED
        BY <2>3, <3>1, <3>2, IdeasRowsOf DEF IdeasInv
    <2>7. Keeps
      BY <1>1, <1>10, <2>1, <2>2, <2>4, <2>5, <2>6, IdeasAside DEF Id!Store
    <2> QED
      BY <1>1, <1>2, <1>10, <2>4, <2>5, <2>7 DEF Id!Store
  <1>11. ASSUME NEW r \in Runs, Id!claim_due_ideas(r) PROVE IdeasInv'
    <2> DEFINE new == [run[r] EXCEPT !.step = "next", !.work = Id!DueRows,
                             !.claimed = [f \in Memos |-> IF f \in Id!DueRows THEN [attempts |-> row[f].attempts, task |-> row[f].task]
                                                  ELSE Id!NoClaim]]
    <2>1. IdeasAt(r) = {} /\ Id!DueRows \subseteq Memos
      BY <1>11 DEF Id!claim_due_ideas, Id!Is, IdeasInv, IdeasOrdered, Id!DueRows
    <2>2. \A f \in Memos : [attempts |-> row[f].attempts, task |-> row[f].task] \in IdeasClaim
      BY <1>1 DEF Id!Rows, IdeasClaim
    <2>3. [f \in Memos |-> IF f \in Id!DueRows THEN [attempts |-> row[f].attempts, task |-> row[f].task] ELSE Id!NoClaim] \in [Memos -> IdeasClaim]
      BY <2>2, IdeasSimple
    <2>4. /\ new \in IdeasRunType /\ new.step = "next" /\ new.work = Id!DueRows /\ new.memo = {}
          /\ \A f \in Id!DueRows : new.claimed[f].task = row[f].task
      BY <1>1, <2>1, <2>3 DEF IdeasRunType, Id!Steps, IdeasAt
    <2>5. Id!Set(r, new)
      BY <1>11 DEF Id!claim_due_ideas
    <2> HIDE DEF new
    <2>6. run' \in [Runs -> IdeasRunType] /\ run'[r] = new /\ \A q \in Runs \ {r} : run'[q] = run[q]
      BY <2>4, <2>5, IdeasSet_ DEF IdeasInv
    <2>7. /\ row' \in [Memos -> Id!Rows]
          /\ \A f \in Id!DueRows : row'[f].status = "processing" /\ ~row'[f].old /\ row'[f].task = row[f].task
          /\ \A f \in Memos \ Id!DueRows : row'[f] = row[f]
      <3>1. row' = [f \in Memos |-> IF f \in Id!DueRows THEN Id!Claimed(f) ELSE row[f]]
        BY <1>11 DEF Id!claim_due_ideas
      <3> QED
        BY <1>1, <2>1, <3>1, IdeasRowsOf DEF IdeasInv
    <2>8. \A q \in Runs : \A f \in IdeasAt(q) \ excused : f \notin Id!DueRows
      <3> SUFFICES ASSUME NEW q \in Runs, NEW f \in IdeasAt(q) \ excused PROVE f \notin Id!DueRows
        OBVIOUS
      <3>1. row[f].status = "processing" /\ ~row[f].old
        BY DEF IdeasInv, IdeasClaims
      <3> QED
        BY <3>1 DEF Id!DueRows
    <2>9. IdeasAt(r)' = Id!DueRows /\ \A q \in Runs \ {r} : IdeasAt(q)' = IdeasAt(q)
      BY <2>4, <2>6 DEF IdeasAt
    <2>10. IdeasOrdered'
      BY <2>1, <2>4, <2>6, <2>9 DEF IdeasInv, IdeasOrdered
    <2>11. UNCHANGED <<file, made, twice, excused, unread, abandoned, version, errors, calls, crashes>>
      BY <1>11 DEF Id!claim_due_ideas
    <2>12. IdeasClaims'
      <3> SUFFICES ASSUME NEW q \in Runs, NEW g \in IdeasAt(q)' \ excused
                   PROVE  /\ row'[g].status = "processing" /\ ~row'[g].old
                          /\ \A p \in Runs \ {q} : g \notin IdeasAt(p)'
                          /\ g \in run'[q].work \/ run'[q].step \in IdeasBefore => run'[q].claimed[g].task = row'[g].task
                          /\ g \in run'[q].memo /\ ~run'[q].dry /\ run'[q].step \in IdeasWithout => ~row'[g].task
        BY <2>11 DEF IdeasClaims
      <3>1. CASE q = r
        BY <2>4, <2>6, <2>7, <2>8, <2>9, <3>1
      <3>2. CASE q # r
        <4>1. g \in IdeasAt(q) \ excused /\ g \notin Id!DueRows /\ g \in Memos
          BY <1>1, <2>8, <2>9, <3>2
        <4>2. row'[g] = row[g] /\ run'[q] = run[q] /\ \A p \in Runs \ {q} : g \notin IdeasAt(p)'
          BY <2>6, <2>7, <2>9, <3>2, <4>1 DEF IdeasInv, IdeasClaims
        <4> QED
          BY <4>1, <4>2 DEF IdeasInv, IdeasClaims
      <3> QED
        BY <3>1, <3>2
    <2>13. IdeasNoted'
      <3> SUFFICES ASSUME NEW g \in made \ excused
                   PROVE  row'[g].task \/ \E q \in Runs : g \in run'[q].memo /\ run'[q].step \in IdeasAfter
        BY <2>11 DEF IdeasNoted
      <3>1. CASE row[g].task
        BY <1>1, <2>7, <3>1
      <3>2. ASSUME NEW q \in Runs, g \in run[q].memo, run[q].step \in IdeasAfter
            PROVE  \E p \in Runs : g \in run'[p].memo /\ run'[p].step \in IdeasAfter
        BY <2>1, <2>6, <3>2 DEF IdeasAt
      <3> QED
        BY <3>1, <3>2 DEF IdeasInv, IdeasNoted
    <2> QED
      BY <1>1, <1>2, <2>6, <2>7, <2>10, <2>11, <2>12, <2>13
  <1>12. ASSUME NEW r \in Runs, Id!Ready(r) PROVE IdeasInv'
    <2>1. IdeasAt(r) = {}
      BY <1>12 DEF Id!Ready, Id!Is, IdeasInv, IdeasOrdered, IdeasAt
    <2>2. Keeps
      BY <1>1, <1>12, <2>1, IdeasSimple, IdeasAside DEF Id!Ready
    <2> QED
      BY <1>1, <1>2, <1>12, <2>2 DEF Id!Ready
  <1>13. ASSUME NEW r \in Runs, NEW f \in run[r].work, Id!process_due_ideas(r, f) PROVE IdeasInv'
    <2> DEFINE new == [run[r] EXCEPT !.work = @ \ {f}, !.memo = {f}, !.step = "ask"]
    <2>1. /\ f \in Memos /\ run[r].memo = {} /\ run[r].step = "next" /\ f \in IdeasAt(r)
          /\ Id!Set(r, new)
          /\ UNCHANGED <<file, row, made, twice, excused, unread, abandoned, version, errors, calls, crashes>>
      BY <1>1, <1>13 DEF Id!process_due_ideas, Id!Is, IdeasInv, IdeasOrdered
    <2>2. /\ new \in IdeasRunType /\ new.step = "ask" /\ new.work = run[r].work \ {f}
          /\ new.memo = {f}
          /\ new.claimed = run[r].claimed /\ new.dry = run[r].dry
      BY <1>1, <2>1 DEF IdeasRunType, Id!Steps
    <2> HIDE DEF new
    <2>3. /\ run' \in [Runs -> IdeasRunType] /\ run'[r] = new
          /\ \A q \in Runs \ {r} : run'[q] = run[q]
      BY <2>1, <2>2, IdeasSet_ DEF IdeasInv
    <2>4. \A q \in Runs : IdeasAt(q)' = IdeasAt(q)
      BY <2>1, <2>2, <2>3 DEF IdeasAt
    <2>5. IdeasOrdered'
      BY <2>1, <2>2, <2>3, <2>4 DEF IdeasInv, IdeasOrdered
    <2>6. IdeasClaims'
      <3> SUFFICES ASSUME NEW q \in Runs, NEW g \in IdeasAt(q)' \ excused
                   PROVE  /\ row[g].status = "processing" /\ ~row[g].old
                          /\ \A p \in Runs \ {q} : g \notin IdeasAt(p)'
                          /\ g \in run'[q].work \/ run'[q].step \in IdeasBefore => run'[q].claimed[g].task = row[g].task
                          /\ g \in run'[q].memo /\ ~run'[q].dry /\ run'[q].step \in IdeasWithout => ~row[g].task
        BY <2>1 DEF IdeasClaims
      <3>1. g \in IdeasAt(q) \ excused /\ \A p \in Runs \ {q} : g \notin IdeasAt(p)'
        BY <2>4 DEF IdeasInv, IdeasClaims
      <3>2. CASE q = r
        <4>1. g \in run[r].work /\ run[r].claimed[g].task = row[g].task
          BY <2>1, <3>1, <3>2 DEF IdeasInv, IdeasClaims, IdeasAt
        <4> QED
          BY <2>2, <2>3, <3>1, <3>2, <4>1 DEF IdeasInv, IdeasClaims, IdeasWithout
      <3>3. CASE q # r
        BY <2>3, <3>1, <3>3 DEF IdeasInv, IdeasClaims
      <3> QED
        BY <3>2, <3>3
    <2>7. IdeasNoted'
      <3> SUFFICES ASSUME NEW g \in made \ excused
                   PROVE  row[g].task \/ \E q \in Runs : g \in run'[q].memo /\ run'[q].step \in IdeasAfter
        BY <2>1 DEF IdeasNoted
      <3>1. ASSUME NEW q \in Runs, g \in run[q].memo, run[q].step \in IdeasAfter
            PROVE  \E p \in Runs : g \in run'[p].memo /\ run'[p].step \in IdeasAfter
        BY <2>1, <2>3, <3>1
      <3> QED
        BY <3>1 DEF IdeasInv, IdeasNoted
    <2> QED
      BY <1>1, <1>2, <2>1, <2>3, <2>5, <2>6, <2>7
  <1>14. ASSUME NEW r \in Runs, NEW f \in run[r].memo
         PROVE  /\ f \in Memos /\ f \in Id!WorkedAt
                /\ run[r].step \notin {"idle", "scan", "store", "claim", "next"}
                /\ run[r].dry => run[r].step \notin {"make", "must", "note"}
    BY <1>1 DEF IdeasInv, IdeasOrdered
  (* An attempt that failed, whatever it had made. *)
  <1>15. ASSUME NEW r \in Runs, NEW f \in run[r].memo, Id!Failed(r, f),
                run[r].step \in {"ask", "model", "must"},
                excused \subseteq excused', made' = made \/ (made' = made \cup {f} /\ f \in excused')
         PROVE  Keeps /\ row' \in [Memos -> Id!Rows]
    <2>1. CASE run[r].claimed[f].attempts + 1 >= Attempts
      <3>1. Id!Go(r, "fallback") /\ UNCHANGED row
        BY <1>15, <2>1 DEF Id!Failed
      <3> QED
        BY <1>1, <1>15, <3>1, IdeasStays DEF IdeasBefore, IdeasAfter, IdeasWithout
    <2>2. CASE ~(run[r].claimed[f].attempts + 1 >= Attempts)
      <3>1. Id!mark_failed(f) /\ Id!Over(r, f) /\ f \in Memos
        BY <1>14, <1>15, <2>2 DEF Id!Failed
      <3> QED
        BY <1>15, <3>1, IdeasFailures, IdeasLeaves DEF IdeasInv, Id!mark_failed, Id!Mark, Id!Put,
           IdeasAfter
    <2> QED
      BY <2>1, <2>2
  <1>26. ASSUME NEW r \in Runs, NEW f \in run[r].memo, Id!process_one(r, f) PROVE IdeasInv'
    <2>1. /\ f \in Memos /\ run[r].step = "ask"
          /\ UNCHANGED <<file, made, twice, excused, unread, abandoned, version, errors, calls, crashes>>
          /\ f \in excused \/ run[r].claimed[f].task = row[f].task
      BY <1>1, <1>14, <1>26 DEF Id!process_one, Id!Is, IdeasInv, IdeasClaims, IdeasBefore
    <2>2. CASE Id!Failed(r, f)
      BY <1>1, <1>2, <1>15, <2>1, <2>2
    <2>3. CASE run[r].claimed[f].task /\ ~run[r].dry /\ Id!mark_done(f) /\ Id!Over(r, f)
      <3>1. Keeps /\ row' \in [Memos -> Id!Rows]
        BY <2>1, <2>3, IdeasRowsOf, IdeasLeaves DEF IdeasInv, Id!mark_done, Id!Mark, Id!Put, IdeasAfter
      <3> QED
        BY <1>1, <1>2, <2>1, <3>1
    <2>4. CASE ~(run[r].claimed[f].task /\ ~run[r].dry) /\ Id!Go(r, "model") /\ UNCHANGED row
      <3>1. run[r].claimed[f].task \in BOOLEAN
        BY <1>1, <2>1 DEF IdeasRunType, IdeasClaim
      <3>2. Keeps
        BY <2>1, <2>4, <3>1, IdeasStays DEF IdeasBefore, IdeasAfter, IdeasWithout
      <3> QED
        BY <1>1, <1>2, <2>1, <2>4, <3>2
    <2> QED
      BY <1>26, <2>2, <2>3, <2>4 DEF Id!process_one
  <1>16. ASSUME NEW r \in Runs, NEW f \in run[r].memo, Id!Model(r, f) PROVE IdeasInv'
    <2>1. /\ f \in Memos /\ run[r].step = "model"
          /\ UNCHANGED <<file, made, twice, excused, unread, version, calls, crashes>>
      BY <1>14, <1>16 DEF Id!Model, Id!Is
    <2>2. CASE ~run[r].dry /\ Id!Go(r, "make") /\ UNCHANGED <<row, abandoned, errors>>
      <3>1. Keeps
        BY <2>1, <2>2, IdeasStays DEF IdeasBefore, IdeasAfter, IdeasWithout
      <3> QED
        BY <1>1, <1>2, <2>1, <2>2, <3>1
    <2>3. CASE run[r].dry /\ Id!Over(r, f) /\ abandoned' = abandoned \cup {f} /\ UNCHANGED <<row, errors>>
      <3>1. row' = [row EXCEPT ![f] = row[f]] /\ row[f] \in Id!Rows
        BY <1>1, <2>1, <2>3
      <3>2. Keeps
        BY <2>1, <2>3, <3>1, IdeasLeaves DEF IdeasAfter
      <3> QED
        BY <1>1, <1>2, <2>1, <2>3, <3>2
    <2>4. CASE Id!Failed(r, f) /\ UNCHANGED <<abandoned, errors>>
      BY <1>1, <1>2, <1>15, <2>1, <2>4
    <2>5. CASE Id!Fails /\ Id!mark_retry(f) /\ Id!Over(r, f) /\ UNCHANGED abandoned
      <3>1. Keeps /\ row' \in [Memos -> Id!Rows]
        BY <2>1, <2>5, IdeasFailures, IdeasLeaves DEF IdeasInv, Id!mark_retry, Id!Mark, Id!Put,
           IdeasAfter
      <3>2. errors' \in 0 .. MaxErrors
        BY <2>5, IdeasFallible DEF IdeasInv
      <3> QED
        BY <1>1, <1>2, <2>1, <2>5, <3>1, <3>2
    <2> QED
      BY <1>16, <2>2, <2>3, <2>4, <2>5 DEF Id!Model
  <1>17. ASSUME NEW f \in Memos, Id!CreateFails(f)
         PROVE  /\ made' \subseteq Memos /\ excused \subseteq excused' /\ excused' \subseteq Memos
                /\ (UNCHANGED unread => twice' \subseteq excused' \cup unread')
                /\ (made' = made \/ (made' = made \cup {f} /\ f \in excused'))
                /\ errors' \in 0 .. MaxErrors
    BY <1>1, <1>17, IdeasFallible DEF Id!CreateFails, IdeasInv
  <1>18. ASSUME NEW r \in Runs, NEW f \in run[r].memo, Id!plan_item(r, f) PROVE IdeasInv'
    <2>1. /\ f \in Memos /\ run[r].step = "make" /\ ~run[r].dry
          /\ UNCHANGED <<file, row, unread, abandoned, version, calls, crashes>>
      BY <1>14, <1>18 DEF Id!plan_item, Id!Is
    <2>2. CASE (Id!create_task(f) \/ Id!append_task(f)) /\ Id!Go(r, "note")
      <3>1. Id!create_task(f)
        BY <2>2 DEF Id!append_task
      <3>2. Keeps
        BY <2>1, <2>2, <3>1, IdeasStays DEF Id!create_task, IdeasBefore, IdeasAfter, IdeasWithout
      <3>3. twice' \subseteq excused' \cup unread'
        BY <2>1, <3>1, IdeasMaking
      <3> QED
        BY <1>1, <1>2, <2>1, <3>1, <3>2, <3>3 DEF Id!create_task
    <2>3. CASE Id!CreateFails(f) /\ Id!Go(r, "must")
      <3>1. Keeps
        BY <1>17, <2>1, <2>3, IdeasStays DEF IdeasBefore, IdeasAfter, IdeasWithout
      <3> QED
        BY <1>1, <1>2, <1>17, <2>1, <2>3, <3>1
    <2>4. CASE Id!Go(r, "must") /\ UNCHANGED <<made, twice, excused, errors>>
      <3>1. Keeps
        BY <2>1, <2>4, IdeasStays DEF IdeasBefore, IdeasAfter, IdeasWithout
      <3> QED
        BY <1>1, <1>2, <2>1, <2>4, <3>1
    <2> QED
      BY <1>18, <2>2, <2>3, <2>4 DEF Id!plan_item
  <1>19. ASSUME NEW r \in Runs, NEW f \in run[r].memo, Id!set_task_uid(r, f) PROVE IdeasInv'
    <2>1. /\ f \in Memos /\ run[r].step = "note" /\ f \in IdeasAt(r) /\ ~run[r].dry
          /\ UNCHANGED <<file, made, twice, excused, unread, abandoned, version, errors, calls, crashes>>
      BY <1>14, <1>19 DEF Id!set_task_uid, Id!Is, IdeasAt
    <2> DEFINE new == [run[r] EXCEPT !.step = "finish"]
               noted == [[row[f] EXCEPT !.task = TRUE] EXCEPT !.old = FALSE]
    <2>2. /\ new \in IdeasRunType /\ new.step = "finish" /\ new.work = run[r].work
          /\ new.memo = run[r].memo
          /\ new.claimed = run[r].claimed /\ new.dry = run[r].dry
      BY <1>1 DEF IdeasRunType, Id!Steps
    <2>3. Id!Set(r, new) /\ row' = [row EXCEPT ![f] = noted]
      BY <1>19 DEF Id!set_task_uid, Id!Go, Id!Mark, Id!Put
    <2>4. noted \in Id!Rows /\ noted.task /\ noted.status = row[f].status /\ ~noted.old
      BY <1>1, <2>1 DEF Id!Rows
    <2> HIDE DEF new, noted
    <2>5. run' \in [Runs -> IdeasRunType] /\ run'[r] = new /\ \A q \in Runs \ {r} : run'[q] = run[q]
      BY <2>2, <2>3, IdeasSet_ DEF IdeasInv
    <2>6. row' \in [Memos -> Id!Rows] /\ row'[f] = noted /\ \A g \in Memos \ {f} : row'[g] = row[g]
      BY <1>1, <2>1, <2>3, <2>4
    <2>7. \A q \in Runs : IdeasAt(q)' = IdeasAt(q)
      BY <2>2, <2>5 DEF IdeasAt
    <2>8. IdeasOrdered'
      BY <2>1, <2>2, <2>5, <2>7 DEF IdeasInv, IdeasOrdered
    <2>9. IdeasClaims'
      <3> SUFFICES ASSUME NEW q \in Runs, NEW g \in IdeasAt(q)' \ excused
                   PROVE  /\ row'[g].status = "processing" /\ ~row'[g].old
                          /\ \A p \in Runs \ {q} : g \notin IdeasAt(p)'
                          /\ g \in run'[q].work \/ run'[q].step \in IdeasBefore => run'[q].claimed[g].task = row'[g].task
                          /\ g \in run'[q].memo /\ ~run'[q].dry /\ run'[q].step \in IdeasWithout => ~row'[g].task
        BY <2>1 DEF IdeasClaims
      <3>1. g \in IdeasAt(q) \ excused /\ g \in Memos /\ \A p \in Runs \ {q} : g \notin IdeasAt(p)'
        BY <1>1, <2>7 DEF IdeasInv, IdeasClaims
      <3>2. row[g].status = "processing" /\ ~row[g].old
        BY <3>1 DEF IdeasInv, IdeasClaims
      <3>3. CASE g = f
        <4>1. q = r /\ f \notin run[r].work
          BY <2>1, <3>1, <3>3 DEF IdeasInv, IdeasClaims, IdeasOrdered
        <4> QED
          BY <2>2, <2>4, <2>5, <2>6, <3>1, <3>2, <3>3, <4>1 DEF IdeasBefore, IdeasWithout
      <3>4. CASE g # f
        <4>1. row'[g] = row[g] /\ run'[q].work = run[q].work /\ run'[q].claimed = run[q].claimed
              /\ run'[q].memo = run[q].memo /\ run'[q].dry = run[q].dry
              /\ (run'[q].step \in IdeasBefore => run[q].step \in IdeasBefore)
              /\ (run'[q].step \in IdeasWithout => run[q].step \in IdeasWithout)
          BY <2>2, <2>5, <2>6, <3>1, <3>4 DEF IdeasBefore, IdeasWithout
        <4> QED
          BY <3>1, <3>2, <4>1 DEF IdeasInv, IdeasClaims
      <3> QED
        BY <3>3, <3>4
    <2>10. IdeasNoted'
      <3> SUFFICES ASSUME NEW g \in made \ excused
                   PROVE  row'[g].task \/ \E q \in Runs : g \in run'[q].memo /\ run'[q].step \in IdeasAfter
        BY <2>1 DEF IdeasNoted
      <3>1. CASE row[g].task
        BY <1>1, <2>4, <2>6, <3>1
      <3>2. ASSUME NEW q \in Runs, g \in run[q].memo, run[q].step \in IdeasAfter
            PROVE  \E p \in Runs : g \in run'[p].memo /\ run'[p].step \in IdeasAfter
        BY <2>2, <2>5, <3>2 DEF IdeasAfter
      <3> QED
        BY <3>1, <3>2 DEF IdeasInv, IdeasNoted
    <2> QED
      BY <1>1, <1>2, <2>1, <2>5, <2>6, <2>8, <2>9, <2>10
  <1>20. ASSUME NEW r \in Runs, NEW f \in run[r].memo, Id!Guarantee(r, f) PROVE IdeasInv'
    <2>1. /\ f \in Memos /\ run[r].step = "must" /\ ~run[r].dry
          /\ UNCHANGED <<file, unread, abandoned, version, calls, crashes>>
      BY <1>14, <1>20 DEF Id!Guarantee, Id!Is
    <2>2. CASE Id!create_task(f) /\ Id!Go(r, "finish") /\ UNCHANGED row
      <3>1. Keeps
        BY <2>1, <2>2, IdeasStays DEF Id!create_task, IdeasBefore, IdeasAfter, IdeasWithout
      <3>2. twice' \subseteq excused' \cup unread'
        BY <2>1, <2>2, IdeasMaking
      <3> QED
        BY <1>1, <1>2, <2>1, <2>2, <3>1, <3>2 DEF Id!create_task
    <2>3. CASE Id!CreateFails(f) /\ (Id!Failed(r, f) \/ (Id!mark_retry(f) /\ Id!Over(r, f)))
      <3>1. CASE Id!Failed(r, f)
        BY <1>1, <1>2, <1>15, <1>17, <2>1, <2>3, <3>1
      <3>2. CASE Id!mark_retry(f) /\ Id!Over(r, f)
        <4>1. Keeps /\ row' \in [Memos -> Id!Rows]
          BY <1>17, <2>1, <2>3, <3>2, IdeasFailures, IdeasLeaves DEF IdeasInv, Id!mark_retry, Id!Mark, Id!Put,
             IdeasAfter
        <4> QED
          BY <1>1, <1>2, <1>17, <2>1, <2>3, <4>1
      <3> QED
        BY <2>3, <3>1, <3>2
    <2> QED
      BY <1>20, <2>2, <2>3 DEF Id!Guarantee
  <1>21. ASSUME NEW r \in Runs, NEW f \in run[r].memo, Id!create_fallback_task(r, f) PROVE IdeasInv'
    <2>1. /\ f \in Memos /\ run[r].step = "fallback"
          /\ UNCHANGED <<file, abandoned, version, calls, crashes>>
          /\ f \in excused \/ run[r].claimed[f].task = row[f].task
      BY <1>1, <1>14, <1>21 DEF Id!create_fallback_task, Id!Is, IdeasInv, IdeasClaims, IdeasBefore
    <2>2. CASE /\ Id!Go(r, "finish") /\ UNCHANGED <<row, errors>> /\ made' = made \cup {f}
               /\ twice' = IF f \in made THEN twice \cup {f} ELSE twice
               /\ excused' = IF run[r].dry THEN excused \cup {f} ELSE excused
               /\ unread' = IF run[r].claimed[f].task THEN unread \cup {f} ELSE unread
      <3>1. Keeps
        BY <2>1, <2>2, IdeasStays DEF IdeasBefore, IdeasAfter, IdeasWithout
      <3>2. twice' \subseteq excused' \cup unread'
        BY <1>1, <2>1, <2>2, IdeasMade DEF IdeasBefore
      <3> QED
        BY <1>1, <1>2, <2>1, <2>2, <3>1, <3>2
    <2>3. CASE Id!CreateFails(f) /\ Id!mark_failed(f) /\ Id!Over(r, f) /\ UNCHANGED unread
      <3>1. Keeps /\ row' \in [Memos -> Id!Rows]
        BY <1>17, <2>1, <2>3, IdeasFailures, IdeasLeaves DEF IdeasInv, Id!mark_failed, Id!Mark,
           Id!Put, IdeasAfter
      <3> QED
        BY <1>1, <1>2, <1>17, <2>1, <2>3, <3>1
    <2> QED
      BY <1>21, <2>2, <2>3 DEF Id!create_fallback_task
  <1>22. ASSUME NEW r \in Runs, NEW f \in run[r].memo, Id!Finish(r, f) PROVE IdeasInv'
    <2>1. f \in Memos /\ run[r].step = "finish"
          /\ UNCHANGED <<file, made, twice, excused, unread, abandoned, version, errors, calls, crashes>>
      BY <1>14, <1>22 DEF Id!Finish, Id!Is
    <2>2. Keeps /\ row' \in [Memos -> Id!Rows]
      BY <1>22, <2>1, IdeasRowsOf, IdeasLeaves DEF Id!Finish, IdeasInv, Id!mark_done, Id!Mark,
         Id!Put, IdeasAfter
    <2> QED
      BY <1>1, <1>2, <2>1, <2>2
  <1>23. ASSUME Id!Crash PROVE IdeasInv'
    <2>1. /\ run' = [r \in Runs |-> Id!Idle]
          /\ UNCHANGED <<file, row, made, twice, unread, version, errors, calls>>
          /\ crashes' \in 0 .. MaxStops
      BY <1>1, <1>23, IdeasBounds DEF Id!Crash
    <2>2. \A r \in Runs : run'[r] \in IdeasRunType /\ IdeasAt(r)' = {} /\ run'[r].step = "idle" /\ run'[r].memo = {}
      BY <2>1, IdeasSimple DEF IdeasAt
    <2>3. run' \in [Runs -> IdeasRunType] /\ IdeasOrdered' /\ IdeasClaims'
      BY <2>1, <2>2, IdeasSimple DEF IdeasOrdered, IdeasClaims
    <2>4. excused \subseteq excused' /\ excused' \subseteq Memos /\ abandoned' \subseteq Memos
      BY <1>1, <1>23 DEF Id!Crash
    <2>5. IdeasNoted'
      <3> SUFFICES ASSUME NEW g \in made \ excused' PROVE row[g].task
        BY <2>1 DEF IdeasNoted
      <3>1. \A q \in Runs : g \in run[q].memo => row[g].task
        BY <1>1, <1>14, <1>23 DEF Id!Crash
      <3> QED
        BY <2>4, <3>1 DEF IdeasInv, IdeasNoted
    <2> QED
      BY <1>1, <1>2, <2>1, <2>3, <2>4, <2>5
  <1>24. ASSUME UNCHANGED Id!vars PROVE IdeasInv'
    BY <1>1, <1>3, <1>24 DEF Id!vars
  <1>25. ASSUME NEW r \in Runs, Id!Work(r) PROVE IdeasInv'
    BY <1>9, <1>10, <1>11, <1>12, <1>13, <1>16, <1>18, <1>19, <1>20, <1>21, <1>22, <1>25, <1>26 DEF Id!Work
  <1> QED
    BY <1>4, <1>5, <1>6, <1>7, <1>8, <1>23, <1>24, <1>25 DEF Id!Next

-----------------------------------------------------------------------------
(***************************************************************************)
(* Summaries: a job names a number the folder has count, to one of the     *)
(* mails fetched or moved so far (sync/scheduler.rs).                      *)
(***************************************************************************)
SummaryFetched == {m \in Messages : rows[m].folder # "none"}
SummaryGiven == Cardinality(SummaryFetched) + events
SummaryNumbers == /\ \A m \in Messages : /\ rows[m].uid <= SummaryGiven
                                         /\ rows[m].folder # "none" => rows[m].uid # 0
                  /\ \A f \in Sw!Folders : next[f] <= SummaryGiven + 1
SummaryInv == Sw!TypeOK /\ SummaryNumbers

LEMMA SummaryFinite ==
    \A S : Sw!Cardinality(S) = Cardinality(S) /\ (Sw!IsFiniteSet(S) <=> IsFiniteSet(S))
  BY DEF Sw!Cardinality, Cardinality, Sw!IsFiniteSet, IsFiniteSet

(* The numbers of the model, and how many mails there can be. *)
LEMMA SummaryBounds ==
    ASSUME Sw!BoundsAssumption
    PROVE  /\ IsFiniteSet(Messages) /\ Cardinality(Messages) \in Nat
           /\ MaxEvents \in Nat /\ Capacity \in Nat \ {0} /\ CatchUp \in Nat \ {0}
           /\ Sw!MaxUid = Cardinality(Messages) + MaxEvents /\ Sw!MaxUid \in Nat
           /\ \A S : S \subseteq Messages => /\ IsFiniteSet(S) /\ Cardinality(S) \in Nat
                                           /\ Cardinality(S) <= Cardinality(Messages)
  <1>1. IsFiniteSet(Messages) /\ MaxEvents \in Nat /\ Capacity \in Nat \ {0} /\ CatchUp \in Nat \ {0}
    BY SummaryFinite DEF Sw!BoundsAssumption
  <1>2. Cardinality(Messages) \in Nat
    BY <1>1, FS_CardinalityType
  <1>3. Sw!MaxUid = Cardinality(Messages) + MaxEvents
    BY SummaryFinite DEF Sw!MaxUid
  <1>4. \A S : S \subseteq Messages => /\ IsFiniteSet(S) /\ Cardinality(S) \in Nat
                                     /\ Cardinality(S) <= Cardinality(Messages)
    BY <1>1, FS_Subset, FS_CardinalityType
  <1> QED
    BY <1>1, <1>2, <1>3, <1>4

(* The sequence of a finite set is made of its members. *)
LEMMA SummaryInSequence ==
    ASSUME NEW S, IsFiniteSet(S)
    PROVE  Cardinality(S) \in Nat /\ \A i \in 1 .. Cardinality(S) : Sw!SetToSeq(S)[i] \in S
  <1>1. Cardinality(S) \in Nat /\ \E f \in [1 .. Cardinality(S) -> S] : Sw!IsInjective(f)
    <2>1. Cardinality(S) \in Nat /\ \E f \in [1 .. Cardinality(S) -> S] : IsInjective(f)
      BY FS_CardinalityType DEF ExistsBijection, Bijection, Injection
    <2> QED
      BY <2>1 DEF IsInjective, Sw!IsInjective
  <1>2. Sw!SetToSeq(S) = CHOOSE f \in [1 .. Cardinality(S) -> S] : Sw!IsInjective(f)
    BY SummaryFinite DEF Sw!SetToSeq
  <1>3. Sw!SetToSeq(S) \in [1 .. Cardinality(S) -> S]
    BY <1>1, <1>2
  <1> QED
    BY <1>1, <1>3

(* As many numbers are count as mails are fetched and events happen. *)
LEMMA SummaryCount ==
    ASSUME Sw!BoundsAssumption, Sw!TypeOK
    PROVE  /\ IsFiniteSet(SummaryFetched) /\ Cardinality(SummaryFetched) \in Nat
           /\ SummaryGiven \in Nat /\ SummaryGiven <= Sw!MaxUid /\ Sw!MaxUid \in Nat
  <1>1. /\ IsFiniteSet(SummaryFetched) /\ Cardinality(SummaryFetched) <= Cardinality(Messages)
        /\ Cardinality(SummaryFetched) \in Nat
    BY SummaryBounds DEF SummaryFetched
  <1>2. events \in 0 .. MaxEvents
    BY DEF Sw!TypeOK
  <1> QED
    BY <1>1, <1>2, SummaryBounds DEF SummaryGiven

LEMMA SummaryInitially == ASSUME Sw!BoundsAssumption, Sw!Init PROVE SummaryInv
  <1>1. /\ rows = [m \in Messages |-> [folder |-> "none", uid |-> 0, body |-> FALSE,
                                       summary |-> Absent, fraud |-> Absent, actions |-> Absent]]
        /\ next = [f \in Sw!Folders |-> 1] /\ model \in BOOLEAN
        /\ channel = <<>> /\ round = <<>> /\ boot = <<>>
        /\ step = "idle" /\ job = Sw!NoJob /\ read = Absent /\ events = 0
    BY DEF Sw!Init
  <1>2. Sw!MaxUid \in Nat /\ MaxEvents \in Nat /\ Capacity \in Nat
    BY SummaryBounds
  <1>3. rows \in [Messages -> Sw!Row]
    BY <1>1, <1>2 DEF Sw!Row, Sw!Derived
  <1>4. channel \in Seq(Sw!Job) /\ Len(channel) = 0 /\ round \in Seq(Sw!Job) /\ boot \in Seq(Sw!Job)
    BY <1>1, EmptySeq
  <1>5. job \in Sw!Job \cup {Sw!NoJob}
    BY <1>1
  <1>6. Sw!TypeOK
    <2>1. next \in [Sw!Folders -> 1 .. Sw!MaxUid + 1] /\ events \in 0 .. MaxEvents
      BY <1>1, <1>2
    <2>2. Len(channel) <= Capacity /\ step \in {"idle", "summary", "actions"} /\ read \in Messages \cup {Absent}
      BY <1>1, <1>2, <1>4
    <2> QED
      BY <1>1, <1>3, <1>4, <1>5, <2>1, <2>2 DEF Sw!TypeOK
  <1>7. SummaryNumbers
    BY <1>1, <1>6, SummaryCount DEF SummaryNumbers, SummaryGiven
  <1> QED
    BY <1>6, <1>7 DEF SummaryInv

LEMMA SummaryKept ==
    ASSUME Sw!BoundsAssumption, SummaryInv, UNCHANGED <<next, events>>, rows' \in [Messages -> Sw!Row],
           \A m \in Messages : rows'[m].folder = rows[m].folder /\ rows'[m].uid = rows[m].uid
    PROVE  SummaryNumbers'
  <1>1. SummaryFetched' = SummaryFetched
    BY DEF SummaryFetched
  <1> QED
    BY <1>1 DEF SummaryNumbers, SummaryGiven, SummaryInv

(* What follows a job leaves the worker idle or with a mail it reads. *)
LEMMA SummarySuggests ==
    ASSUME NEW R, NEW j, Sw!Suggest(R, j)
    PROVE  step' \in {"idle", "actions"} /\ read' \in Messages \cup {Absent}
  BY DEF Sw!Suggest

LEMMA SummaryTaken ==
    ASSUME Sw!BoundsAssumption, SummaryInv, Sw!Take PROVE SummaryInv'
  <1> PICK j : j = Head(channel)
    OBVIOUS
  <1>1. /\ channel # <<>> /\ channel' = Tail(channel) /\ Sw!Process(j)
        /\ UNCHANGED <<next, model, round, boot, events>>
    BY DEF Sw!Take
  <1>2. j \in Sw!Job /\ channel' \in Seq(Sw!Job) /\ Len(channel') <= Capacity
    BY <1>1, HeadTailProperties, LenProperties DEF SummaryInv, Sw!TypeOK, Sw!BoundsAssumption
  <1> PICK t : t = IF Sw!At(j) = {} THEN "no text" ELSE CHOOSE m \in Sw!At(j) : TRUE
    OBVIOUS
  <1>3. t \in Sw!Derived
    <2>1. Sw!At(j) \subseteq Messages
      BY DEF Sw!At
    <2> QED
      BY <2>1 DEF Sw!Derived
  <1> PICK R : R = Sw!Scored(rows, j, t)
    OBVIOUS
  <1>4. /\ R \in [Messages -> Sw!Row]
        /\ \A m \in Messages : R[m].folder = rows[m].folder /\ R[m].uid = rows[m].uid
    <2>1. \A r \in Sw!Row : /\ [r EXCEPT !.fraud = t] \in Sw!Row
                            /\ [r EXCEPT !.fraud = t].folder = r.folder /\ [r EXCEPT !.fraud = t].uid = r.uid
      BY <1>3 DEF Sw!Row
    <2> QED
      BY <2>1 DEF Sw!Scored, SummaryInv, Sw!TypeOK
  <1>5. rows' = R /\ job' = j /\ step' \in {"idle", "summary", "actions"} /\ read' \in Messages \cup {Absent}
    <2>1. Sw!Suggest(R, j) => step' \in {"idle", "actions"} /\ read' \in Messages \cup {Absent}
      BY SummarySuggests
    <2>2. {m \in Sw!At(j) : rows[m].body} \subseteq Messages
      BY DEF Sw!At
    <2> QED
      BY <1>1, <2>1, <2>2 DEF Sw!Process
  <1>6. Sw!TypeOK'
    BY <1>1, <1>2, <1>4, <1>5 DEF SummaryInv, Sw!TypeOK
  <1>7. SummaryNumbers'
    BY <1>1, <1>4, <1>5, SummaryKept
  <1> QED
    BY <1>6, <1>7 DEF SummaryInv

LEMMA SummaryStored ==
    ASSUME Sw!BoundsAssumption, SummaryInv, Sw!Summarized \/ Sw!Suggested PROVE SummaryInv'
  <1>1. /\ step' \in {"idle", "summary", "actions"} /\ read' \in Messages \cup {Absent}
        /\ UNCHANGED <<next, model, channel, round, boot, job, events>>
    BY SummarySuggests DEF Sw!Summarized, Sw!Suggested, Sw!queue
  <1>2. read \in Sw!Derived
    BY DEF SummaryInv, Sw!TypeOK, Sw!Derived
  <1>3. \A r \in Sw!Row : /\ [r EXCEPT !.summary = read] \in Sw!Row /\ [r EXCEPT !.actions = read] \in Sw!Row
                          /\ [r EXCEPT !.summary = read].folder = r.folder /\ [r EXCEPT !.summary = read].uid = r.uid
                          /\ [r EXCEPT !.actions = read].folder = r.folder /\ [r EXCEPT !.actions = read].uid = r.uid
    BY <1>2 DEF Sw!Row
  <1>4. /\ rows' \in [Messages -> Sw!Row]
        /\ \A m \in Messages : rows'[m].folder = rows[m].folder /\ rows'[m].uid = rows[m].uid
    <2>1. CASE Sw!Summarized
      <3>1. rows' \in {rows, Sw!Stored(rows, job, read)} /\ rows \in [Messages -> Sw!Row]
        BY <2>1 DEF Sw!Summarized, SummaryInv, Sw!TypeOK
      <3>2. CASE rows' = Sw!Stored(rows, job, read)
        BY <1>3, <3>1, <3>2 DEF Sw!Stored
      <3> QED
        BY <3>1, <3>2
    <2>2. CASE Sw!Suggested
      BY <1>3, <2>2 DEF Sw!Suggested, SummaryInv, Sw!TypeOK
    <2> QED
      BY <2>1, <2>2
  <1>5. Sw!TypeOK'
    BY <1>1, <1>4 DEF SummaryInv, Sw!TypeOK
  <1> QED
    BY <1>1, <1>4, <1>5, SummaryKept DEF SummaryInv

LEMMA SummaryFetchStep ==
    ASSUME Sw!BoundsAssumption, SummaryInv, NEW m \in Messages, NEW f \in Sw!Folders, Sw!FetchNew(m, f)
    PROVE  SummaryInv'
  <1> PICK count : count = SummaryGiven
    OBVIOUS
  <1>1. PICK body \in BOOLEAN : rows' = [rows EXCEPT ![m].folder = f, ![m].uid = next[f], ![m].body = body]
    BY DEF Sw!FetchNew
  <1>2. /\ rows[m].folder = "none" /\ next' = [next EXCEPT ![f] = @ + 1] /\ round' = Append(round, Sw!JobOf(m))
        /\ UNCHANGED <<model, channel, boot, step, job, read, events>>
    BY DEF Sw!FetchNew, Sw!worker
  <1>3. rows \in [Messages -> Sw!Row] /\ next \in [Sw!Folders -> 1 .. Sw!MaxUid + 1] /\ events \in 0 .. MaxEvents
    BY DEF SummaryInv, Sw!TypeOK
  <1>4. count \in Nat /\ Sw!MaxUid \in Nat /\ IsFiniteSet(SummaryFetched) /\ Cardinality(SummaryFetched) \in Nat
    BY SummaryCount DEF SummaryInv
  <1>5. /\ \A n \in Messages \ {m} : rows'[n] = rows[n]
        /\ rows'[m].folder = f /\ rows'[m].uid = next[f] /\ rows'[m].body \in BOOLEAN
        /\ rows'[m].summary = rows[m].summary /\ rows'[m].fraud = rows[m].fraud /\ rows'[m].actions = rows[m].actions
    BY <1>1, <1>3 DEF Sw!Row
  <1>6. SummaryFetched' = SummaryFetched \cup {m} /\ m \notin SummaryFetched
    BY <1>2, <1>5 DEF SummaryFetched, Sw!Folders
  <1>7. SummaryGiven' = count + 1
    <2>1. Cardinality(SummaryFetched') = Cardinality(SummaryFetched) + 1
      BY <1>4, <1>6, FS_AddElement
    <2> QED
      BY <1>2, <1>3, <1>4, <2>1 DEF SummaryGiven
  <1>8. count + 1 <= Sw!MaxUid
    <2>1. Cardinality(SummaryFetched') <= Cardinality(Messages)
      BY SummaryBounds DEF SummaryFetched
    <2>2. Cardinality(SummaryFetched') = Cardinality(SummaryFetched) + 1
      BY <1>4, <1>6, FS_AddElement
    <2> QED
      BY <1>3, <1>4, <2>1, <2>2, SummaryBounds DEF SummaryGiven
  <1>9. /\ \A n \in Messages : rows[n].uid <= count /\ (rows[n].folder # "none" => rows[n].uid # 0)
        /\ \A g \in Sw!Folders : next[g] <= count + 1
    BY DEF SummaryInv, SummaryNumbers
  <1>10. next[f] \in 1 .. Sw!MaxUid /\ next[f] <= count + 1
    BY <1>3, <1>4, <1>8, <1>9
  <1>11. rows' \in [Messages -> Sw!Row]
    <2>1. rows'[m] \in Sw!Row
      <3>1. rows'[m] = [rows[m] EXCEPT !.folder = f, !.uid = next[f], !.body = body]
        BY <1>1, <1>3
      <3>2. next[f] \in 0 .. Sw!MaxUid /\ f \in Sw!Folders \cup {"none"}
        BY <1>4, <1>10
      <3>3. \A r \in Sw!Row, n \in 0 .. Sw!MaxUid, b \in BOOLEAN :
               [r EXCEPT !.folder = f, !.uid = n, !.body = b] \in Sw!Row
        BY <3>2 DEF Sw!Row
      <3>4. rows[m] \in Sw!Row
        BY <1>3
      <3>5. [rows[m] EXCEPT !.folder = f, !.uid = next[f], !.body = body] \in Sw!Row
        BY <3>2, <3>3, <3>4
      <3> QED
        BY <3>1, <3>5
    <2> QED
      BY <1>1, <1>3, <1>5, <2>1
  <1>12. next' \in [Sw!Folders -> 1 .. Sw!MaxUid + 1]
    BY <1>2, <1>3, <1>4, <1>10
  <1>13. round' \in Seq(Sw!Job)
    <2>1. Sw!JobOf(m) \in Sw!Job
      BY <1>5, <1>10 DEF Sw!JobOf, Sw!Job
    <2> QED
      BY <1>2, <2>1, AppendProperties DEF SummaryInv, Sw!TypeOK
  <1>14. Sw!TypeOK'
    BY <1>2, <1>11, <1>12, <1>13 DEF SummaryInv, Sw!TypeOK
  <1>15. SummaryNumbers'
    <2>1. \A n \in Messages : rows'[n].uid <= count + 1 /\ (rows'[n].folder # "none" => rows'[n].uid # 0)
      <3> SUFFICES ASSUME NEW n \in Messages
                   PROVE  rows'[n].uid <= count + 1 /\ (rows'[n].folder # "none" => rows'[n].uid # 0)
        OBVIOUS
      <3>1. CASE n = m
        BY <1>5, <1>10, <3>1
      <3>2. CASE n # m
        <4>1. rows[n].uid \in Nat
          BY <1>3, <1>4 DEF Sw!Row
        <4> QED
          BY <1>4, <1>5, <1>9, <3>2, <4>1
      <3> QED
        BY <3>1, <3>2
    <2>2. \A g \in Sw!Folders : next'[g] <= count + 2
      BY <1>2, <1>3, <1>4, <1>9
    <2> QED
      BY <1>4, <1>7, <2>1, <2>2 DEF SummaryNumbers
  <1> QED
    BY <1>14, <1>15 DEF SummaryInv

LEMMA SummaryMoveStep ==
    ASSUME Sw!BoundsAssumption, SummaryInv, NEW m \in Messages, NEW f \in Sw!Folders, Sw!Move(m, f)
    PROVE  SummaryInv'
  <1> PICK count : count = SummaryGiven
    OBVIOUS
  <1>1. PICK u : /\ u \in {rows[m].uid, next[f]} /\ rows' = [rows EXCEPT ![m].folder = f, ![m].uid = u]
                 /\ next' = [next EXCEPT ![f] = IF u < @ THEN @ ELSE u + 1]
    BY DEF Sw!Move
  <1>2. /\ rows[m].folder # "none" /\ events < MaxEvents /\ events' = events + 1
        /\ UNCHANGED <<model, channel, round, boot, step, job, read>>
    BY DEF Sw!Move, Sw!Event, Sw!queue, Sw!worker, Sw!Folders
  <1>3. rows \in [Messages -> Sw!Row] /\ next \in [Sw!Folders -> 1 .. Sw!MaxUid + 1] /\ events \in 0 .. MaxEvents
    BY DEF SummaryInv, Sw!TypeOK
  <1>4. count \in Nat /\ Sw!MaxUid \in Nat /\ IsFiniteSet(SummaryFetched) /\ Cardinality(SummaryFetched) \in Nat
    BY SummaryCount DEF SummaryInv
  <1>5. /\ \A n \in Messages \ {m} : rows'[n] = rows[n]
        /\ rows'[m].folder = f /\ rows'[m].uid = u
    BY <1>1, <1>3 DEF Sw!Row
  <1>6. SummaryFetched' = SummaryFetched
    BY <1>2, <1>5 DEF SummaryFetched, Sw!Folders
  <1>7. SummaryGiven' = count + 1
    BY <1>2, <1>3, <1>4, <1>6 DEF SummaryGiven
  <1>8. count + 1 <= Sw!MaxUid
    <2>1. Cardinality(SummaryFetched) <= Cardinality(Messages)
      BY SummaryBounds DEF SummaryFetched
    <2> QED
      BY <1>2, <1>3, <1>4, <2>1, SummaryBounds DEF SummaryGiven
  <1>9. /\ \A n \in Messages : rows[n].uid <= count /\ (rows[n].folder # "none" => rows[n].uid # 0)
        /\ \A g \in Sw!Folders : next[g] <= count + 1
    BY DEF SummaryInv, SummaryNumbers
  <1>10. u \in 1 .. Sw!MaxUid /\ u <= count + 1
    <2>1. rows[m].uid \in Nat /\ next[f] \in Nat \ {0}
      BY <1>3, <1>4 DEF Sw!Row
    <2> QED
      BY <1>1, <1>2, <1>4, <1>8, <1>9, <2>1
  <1>11. rows' \in [Messages -> Sw!Row]
    <2>1. rows'[m] \in Sw!Row
      <3>1. rows'[m] = [rows[m] EXCEPT !.folder = f, !.uid = u]
        BY <1>1, <1>3
      <3>2. u \in 0 .. Sw!MaxUid /\ f \in Sw!Folders \cup {"none"}
        BY <1>4, <1>10
      <3>3. \A r \in Sw!Row, n \in 0 .. Sw!MaxUid :
               [r EXCEPT !.folder = f, !.uid = n] \in Sw!Row
        BY <3>2 DEF Sw!Row
      <3>4. rows[m] \in Sw!Row
        BY <1>3
      <3>5. [rows[m] EXCEPT !.folder = f, !.uid = u] \in Sw!Row
        BY <3>2, <3>3, <3>4
      <3> QED
        BY <3>1, <3>5
    <2> QED
      BY <1>1, <1>3, <1>5, <2>1
  <1>12. next' \in [Sw!Folders -> 1 .. Sw!MaxUid + 1]
    BY <1>1, <1>3, <1>4, <1>10
  <1>13. events' \in 0 .. MaxEvents
    BY <1>2, <1>3, SummaryBounds
  <1>14. Sw!TypeOK'
    BY <1>2, <1>11, <1>12, <1>13 DEF SummaryInv, Sw!TypeOK
  <1>15. SummaryNumbers'
    <2>1. \A n \in Messages : rows'[n].uid <= count + 1 /\ (rows'[n].folder # "none" => rows'[n].uid # 0)
      <3> SUFFICES ASSUME NEW n \in Messages
                   PROVE  rows'[n].uid <= count + 1 /\ (rows'[n].folder # "none" => rows'[n].uid # 0)
        OBVIOUS
      <3>1. CASE n = m
        BY <1>5, <1>10, <3>1
      <3>2. CASE n # m
        <4>1. rows[n].uid \in Nat
          BY <1>3, <1>4 DEF Sw!Row
        <4> QED
          BY <1>4, <1>5, <1>9, <3>2, <4>1
      <3> QED
        BY <3>1, <3>2
    <2>2. \A g \in Sw!Folders : next'[g] <= count + 2
      <3> SUFFICES ASSUME NEW g \in Sw!Folders PROVE next'[g] <= count + 2
        OBVIOUS
      <3>1. next'[g] \in {next[g], u + 1} /\ next[g] \in Nat /\ u \in Nat
        BY <1>1, <1>3, <1>4, <1>10
      <3> QED
        BY <1>4, <1>9, <1>10, <3>1
    <2> QED
      BY <1>4, <1>7, <2>1, <2>2 DEF SummaryNumbers
  <1> QED
    BY <1>14, <1>15 DEF SummaryInv

(* What the catch-up collects are jobs: a mail of the inbox has a number. *)
LEMMA SummaryRestart ==
    ASSUME Sw!BoundsAssumption, SummaryInv, Sw!Restart PROVE SummaryInv'
  <1>1. /\ events < MaxEvents /\ events' = events + 1 /\ channel' = <<>> /\ round' = <<>>
        /\ step' = "idle" /\ job' = Sw!NoJob /\ read' = Absent /\ UNCHANGED <<rows, next, model>>
    BY DEF Sw!Restart, Sw!Event
  <1>2. PICK S \in SUBSET Sw!Missing :
           boot' = [i \in 1 .. Cardinality(S) |->
                      LET m == Sw!SetToSeq(S)[i] IN [folder |-> rows[m].folder, uid |-> rows[m].uid]]
    BY SummaryFinite DEF Sw!Restart, Sw!run_inbox_ai_catch_up
  <1>3. /\ Sw!MaxUid \in Nat /\ SummaryGiven \in Nat /\ SummaryGiven <= Sw!MaxUid
        /\ Cardinality(SummaryFetched) \in Nat
    BY SummaryCount DEF SummaryInv
  <1>4. IsFiniteSet(S) /\ S \subseteq Messages
    BY SummaryBounds DEF Sw!Missing
  <1>5. ASSUME NEW m \in S PROVE [folder |-> rows[m].folder, uid |-> rows[m].uid] \in Sw!Job
    <2>1. m \in Messages /\ rows[m].folder = "INBOX" /\ rows[m] \in Sw!Row
      BY <1>4, <1>5 DEF Sw!Missing, SummaryInv, Sw!TypeOK
    <2>2. rows[m].uid \in 1 .. Sw!MaxUid
      BY <1>3, <2>1 DEF SummaryInv, SummaryNumbers, Sw!Row
    <2> QED
      BY <2>1, <2>2 DEF Sw!Job, Sw!Folders
  <1>6. boot' \in Seq(Sw!Job)
    BY <1>2, <1>4, <1>5, SummaryInSequence
  <1>7. /\ channel' \in Seq(Sw!Job) /\ Len(channel') <= Capacity /\ round' \in Seq(Sw!Job)
    BY <1>1, EmptySeq DEF Sw!BoundsAssumption
  <1>8. job' \in Sw!Job \cup {Sw!NoJob}
    BY <1>1
  <1>9. events \in Nat /\ events' \in 0 .. MaxEvents
    BY <1>1, SummaryBounds DEF SummaryInv, Sw!TypeOK
  <1>10. Sw!TypeOK'
    BY <1>1, <1>6, <1>7, <1>8, <1>9 DEF SummaryInv, Sw!TypeOK
  <1>11. SummaryNumbers'
    <2>1. SummaryGiven' = SummaryGiven + 1
      <3>1. SummaryFetched' = SummaryFetched
        BY <1>1 DEF SummaryFetched
      <3> QED
        BY <1>1, <1>3, <1>9, <3>1 DEF SummaryGiven
    <2>2. \A m \in Messages : rows[m].uid \in Nat
      BY <1>3 DEF SummaryInv, Sw!TypeOK, Sw!Row
    <2>3. \A f \in Sw!Folders : next[f] \in Nat
      BY <1>3 DEF SummaryInv, Sw!TypeOK
    <2> QED
      BY <1>1, <1>3, <2>1, <2>2, <2>3 DEF SummaryInv, SummaryNumbers
  <1> QED
    BY <1>10, <1>11 DEF SummaryInv

LEMMA SummarySent ==
    ASSUME Sw!BoundsAssumption, SummaryInv, Sw!Send \/ Sw!SendBoot PROVE SummaryInv'
  <1>1. UNCHANGED <<rows, next, model, step, job, read, events>>
    BY DEF Sw!Send, Sw!SendBoot, Sw!worker
  <1>2. ASSUME NEW s \in Seq(Sw!Job), s # <<>>, Len(channel) < Capacity
        PROVE  /\ Append(channel, Head(s)) \in Seq(Sw!Job) /\ Len(Append(channel, Head(s))) <= Capacity
               /\ Tail(s) \in Seq(Sw!Job)
    BY <1>2, HeadTailProperties, AppendProperties, LenProperties DEF SummaryInv, Sw!TypeOK,
       Sw!BoundsAssumption
  <1>3. /\ channel' \in Seq(Sw!Job) /\ Len(channel') <= Capacity
        /\ round' \in Seq(Sw!Job) /\ boot' \in Seq(Sw!Job)
    BY <1>2 DEF Sw!Send, Sw!SendBoot, SummaryInv, Sw!TypeOK
  <1>4. Sw!TypeOK'
    BY <1>1, <1>3 DEF SummaryInv, Sw!TypeOK
  <1> QED
    BY <1>1, <1>4, SummaryKept DEF SummaryInv, Sw!TypeOK

LEMMA SummaryInductive ==
    ASSUME Sw!BoundsAssumption, SummaryInv, [Sw!Next]_Sw!vars PROVE SummaryInv'
  <1>1. ASSUME NEW m \in Messages, Sw!FetchBodies(m) PROVE SummaryInv'
    <2>1. rows' = [rows EXCEPT ![m].body = TRUE]
          /\ UNCHANGED <<next, model, channel, round, boot, step, job, read, events>>
      BY <1>1 DEF Sw!FetchBodies, Sw!queue, Sw!worker
    <2>2. \A r \in Sw!Row : /\ [r EXCEPT !.body = TRUE] \in Sw!Row
                            /\ [r EXCEPT !.body = TRUE].folder = r.folder /\ [r EXCEPT !.body = TRUE].uid = r.uid
      BY DEF Sw!Row
    <2>3. /\ rows' \in [Messages -> Sw!Row]
          /\ \A n \in Messages : rows'[n].folder = rows[n].folder /\ rows'[n].uid = rows[n].uid
      BY <2>1, <2>2 DEF SummaryInv, Sw!TypeOK
    <2>4. Sw!TypeOK'
      BY <2>1, <2>3 DEF SummaryInv, Sw!TypeOK
    <2> QED
      BY <2>1, <2>3, <2>4, SummaryKept DEF SummaryInv
  <1>2. ASSUME NEW m \in Messages, NEW f \in Sw!Folders, Sw!FetchNew(m, f) \/ Sw!Move(m, f) PROVE SummaryInv'
    BY <1>2, SummaryFetchStep, SummaryMoveStep
  <1>3. CASE UNCHANGED Sw!vars
    <2>1. UNCHANGED <<rows, next, model, channel, round, boot, step, job, read, events>>
      BY <1>3 DEF Sw!vars, Sw!queue, Sw!worker
    <2>2. Sw!TypeOK'
      BY <2>1 DEF SummaryInv, Sw!TypeOK
    <2> QED
      BY <2>1, <2>2, SummaryKept DEF SummaryInv, Sw!TypeOK
  <1> QED
    BY <1>1, <1>2, <1>3, SummaryTaken, SummaryStored, SummaryRestart, SummarySent DEF Sw!Next

-----------------------------------------------------------------------------
(***************************************************************************)
(* Learning: the differences kept are of drafts that were sent, and no     *)
(* more than are to be kept (cache/learning.rs).                           *)
(***************************************************************************)
LEMMA LearningCleaned ==
    ASSUME Le!LearningAssumption, NEW s \in Seq(Le!Diff), Len(s) <= KeptDiffs + 1
    PROVE  Le!cleanup_diffs(s) \in Seq(Le!Diff) /\ Len(Le!cleanup_diffs(s)) <= KeptDiffs
  <1>1. Len(s) \in Nat /\ KeptDiffs \in Nat \ {0} /\ \A i \in 1 .. Len(s) : s[i] \in Le!Diff
    BY LenProperties, ElementOfSeq DEF Le!LearningAssumption
  <1>2. CASE Len(s) <= KeptDiffs
    BY <1>1, <1>2 DEF Le!cleanup_diffs
  <1>3. CASE Len(s) > KeptDiffs
    <2> DEFINE a == Len(s) - KeptDiffs + 1
    <2>1. a \in 1 .. Len(s) + 1 /\ Len(s) - a + 1 = KeptDiffs /\ \A i \in a .. Len(s) : s[i] \in Le!Diff
      BY <1>1, <1>3
    <2>2. SubSeq(s, a, Len(s)) \in Seq(Le!Diff) /\ Len(SubSeq(s, a, Len(s))) = KeptDiffs
      BY <1>1, <1>3, <2>1, SubSeqProperties
    <2> QED
      BY <1>1, <1>3, <2>2 DEF Le!cleanup_diffs
  <1> QED
    BY <1>1, <1>2, <1>3

LEMMA LearningInitially == ASSUME Le!LearningAssumption PROVE Le!Init => Le!TypeOK
  <1> SUFFICES ASSUME Le!Init PROVE Le!TypeOK
    OBVIOUS
  <1>1. /\ diffs = <<>> /\ drafts = 0 /\ portrait = FALSE /\ task = "none" /\ list = {} /\ outages = 0
        /\ KeptDiffs \in Nat /\ MaxDrafts \in Nat /\ MaxOutages \in Nat
    BY DEF Le!Init, Le!LearningAssumption
  <1>2. diffs \in Seq(Le!Diff) /\ Len(diffs) = 0
    BY <1>1, EmptySeq
  <1>3. Len(diffs) <= KeptDiffs /\ drafts \in 0 .. MaxDrafts /\ outages \in 0 .. MaxOutages
    BY <1>1, <1>2
  <1> QED
    BY <1>1, <1>2, <1>3 DEF Le!TypeOK

LEMMA LearningTypeOK ==
    ASSUME Le!LearningAssumption, Le!TypeOK, [Le!Next]_Le!vars PROVE Le!TypeOK'
  <1> USE DEF Le!TypeOK
  <1>0. /\ MaxDrafts \in Nat /\ MaxOutages \in Nat /\ KeptDiffs \in Nat
    BY DEF Le!LearningAssumption
  <1>1. ASSUME NEW far \in BOOLEAN, NEW readable \in BOOLEAN, Le!queue_diff(far, readable) PROVE Le!TypeOK'
    <2> DEFINE d == [id |-> drafts + 1, far |-> far, readable |-> readable, analyzed |-> FALSE, newer |-> TRUE]
    <2>1. /\ drafts < MaxDrafts /\ drafts' = drafts + 1 /\ diffs' = Le!cleanup_diffs(Append(diffs, d))
          /\ UNCHANGED <<portrait, task, list, outages>>
      BY <1>1 DEF Le!queue_diff
    <2>2. drafts' \in 0 .. MaxDrafts /\ d \in Le!Diff
      BY <1>0, <2>1 DEF Le!Diff, Le!Ids
    <2> HIDE DEF d
    <2>3. Append(diffs, d) \in Seq(Le!Diff) /\ Len(Append(diffs, d)) <= KeptDiffs + 1
      BY <1>0, <2>2, AppendProperties, LenProperties
    <2> QED
      BY <2>1, <2>2, <2>3, LearningCleaned
  <1>2. CASE Le!AnalyzeDiff
    <2>1. Le!Unanalyzed \subseteq Le!Diff
      BY DEF Le!Unanalyzed
    <2> QED
      BY <1>2, <2>1 DEF Le!AnalyzeDiff, Le!get_unanalyzed_diffs
  <1>3. CASE Le!Analyzed
    <2>1. /\ list' \subseteq list /\ task' \in {"none", "analyze"} /\ UNCHANGED <<drafts, portrait>>
          /\ \/ diffs' = Le!Marked(diffs, Le!First.id) /\ UNCHANGED outages
             \/ UNCHANGED <<diffs, outages>>
             \/ UNCHANGED diffs /\ outages < MaxOutages /\ outages' = outages + 1
      BY <1>3 DEF Le!Analyzed, Le!AfterFailure
    <2> PICK id : id = Le!First.id
      OBVIOUS
    <2>2. \A d \in Le!Diff : (IF d.id = id THEN [d EXCEPT !.analyzed = TRUE] ELSE d) \in Le!Diff
      BY DEF Le!Diff
    <2>3. Le!Marked(diffs, id) \in Seq(Le!Diff) /\ Len(Le!Marked(diffs, id)) = Len(diffs)
      BY <2>2 DEF Le!Marked
    <2>4. outages' \in 0 .. MaxOutages
      BY <1>0, <2>1
    <2> QED
      BY <2>1, <2>3, <2>4
  <1>4. CASE Le!RefreshFingerprint
    BY <1>4 DEF Le!RefreshFingerprint
  <1>5. CASE Le!get_hints_for_synthesis
    <2>1. {diffs[i] : i \in {k \in 1 .. Len(diffs) : diffs[k].analyzed}} \subseteq Le!Diff
      OBVIOUS
    <2> QED
      BY <1>5, <2>1 DEF Le!get_hints_for_synthesis
  <1>6. CASE Le!Synthesized
    <2> DEFINE s == [i \in 1 .. Len(diffs) |-> [diffs[i] EXCEPT !.newer = FALSE]]
    <2>1. \A d \in Le!Diff : [d EXCEPT !.newer = FALSE] \in Le!Diff
      BY DEF Le!Diff
    <2>2. s \in Seq(Le!Diff) /\ Len(s) = Len(diffs)
      BY <2>1
    <2> HIDE DEF s
    <2>3. /\ task' = "none" /\ list' = {} /\ UNCHANGED drafts
          /\ \/ portrait' = TRUE /\ diffs' = s /\ UNCHANGED outages
             \/ outages < MaxOutages /\ outages' = outages + 1 /\ UNCHANGED <<diffs, portrait>>
      BY <1>6 DEF Le!Synthesized, Le!save_fingerprint, s
    <2>4. outages' \in 0 .. MaxOutages
      BY <1>0, <2>3
    <2> QED
      BY <2>2, <2>3, <2>4
  <1>7. CASE UNCHANGED Le!vars
    BY <1>7 DEF Le!vars
  <1> QED
    BY <1>1, <1>2, <1>3, <1>4, <1>5, <1>6, <1>7 DEF Le!Next
=============================================================================
