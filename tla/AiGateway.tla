----------------------------- MODULE AiGateway -----------------------------
(***************************************************************************)
(* The client of the language model, shared by the handlers of the API and *)
(* by the background jobs (ai/client.rs), with its circuit breaker         *)
(* (ai/circuit_breaker.rs).  A request takes the client of the moment, asks*)
(* its breaker, then waits for its only permit, calls the model up to      *)
(* MaxRetries + 1 times, tells the breaker how it went and lets the permit *)
(* go.  Between any two of these steps other requests run, the client of   *)
(* the API may hang up, which drops the request where it stands, and the   *)
(* settings may put a new client, with a new breaker and a new permit, in  *)
(* the place of the old (api/settings.rs).                                 *)
(***************************************************************************)
EXTENDS Naturals, FiniteSets

CONSTANTS Users,        \* requests of users: complete_user, complete_messages,
                        \* complete_user_json, complete_with_tools
          Background,   \* requests of background jobs: complete_background
          Streams,      \* stream_completion: neither breaker nor permit
          Threshold,    \* failures in a minute that open the breaker (3)
          MaxRetries,   \* (3)
          MaxClients    \* bound: clients made, the first included

KindsAssumption == /\ Users \cap Background = {} /\ Streams \cap Users = {}
                   /\ Streams \cap Background = {}
GatewayAssumption == /\ {Threshold, MaxClients} \subseteq Nat \ {0}
                     /\ MaxRetries \in Nat

VARIABLES breaker,  \* of each client; with it, as history, the probes that it let
                    \* through since it opened, and whether one left without a word
          current,  \* the client in state.ai_client
          uses,     \* the client each request took
          at,       \* the step each request is at
          attempt   \* and how often it has tried again

vars == <<breaker, current, uses, at, attempt>>

Requests == Users \cup Background \cup Streams
Clients == 1 .. MaxClients
Steps == {"idle", "admitted", "calling", "backoff", "failed", "answered", "recorded"}
Breaker == [state : {"closed", "open", "halfOpen"},
            permitted : BOOLEAN,           \* half_open_permitted
            cooled : BOOLEAN,              \* reset_timeout is over since it opened
            failures : 0 .. Threshold,     \* of the last minute
            probes : SUBSET Requests, lost : BOOLEAN]

TypeOK == /\ breaker \in [Clients -> Breaker]
          /\ current \in Clients
          /\ uses \in [Requests -> Clients]
          /\ at \in [Requests -> Steps]
          /\ attempt \in [Requests -> 0 .. MaxRetries]

Closed == [state |-> "closed", permitted |-> FALSE, cooled |-> FALSE, failures |-> 0,
           probes |-> {}, lost |-> FALSE]
Init == /\ breaker = [c \in Clients |-> Closed]
        /\ current = 1
        /\ uses = [r \in Requests |-> 1]
        /\ at = [r \in Requests |-> "idle"]
        /\ attempt = [r \in Requests |-> 0]

Go(r, s) == at' = [at EXCEPT ![r] = s]
Holders(c) == {r \in Users \cup Background :
                  uses[r] = c /\ at[r] \in Steps \ {"idle", "admitted"}}

-----------------------------------------------------------------------------
(* The breaker.                                                            *)

(* allow_request.  The first to ask after the pause turns the breaker half *)
(* open and passes without using up the permit for a probe, which the      *)
(* second to ask takes.                                                    *)
ProbeTaken(b, r) == [b EXCEPT !.permitted = FALSE, !.probes = @ \cup {r}]
Allows(b) == \/ b.state = "closed"
             \/ b.state = "open" /\ b.cooled
             \/ b.state = "halfOpen" /\ b.permitted
allow_request(b, r) ==
    IF b.state = "open"
    THEN [b EXCEPT !.state = "halfOpen", !.permitted = TRUE, !.probes = {r}, !.lost = FALSE]
    ELSE IF b.state = "halfOpen" THEN ProbeTaken(b, r) ELSE b

(* record_failure: one failed probe opens the breaker again.               *)
Opened(b) == [b EXCEPT !.state = "open", !.cooled = FALSE, !.permitted = FALSE]
Counted(b) == [b EXCEPT !.failures = IF @ < Threshold THEN @ + 1 ELSE @]
CountedOnly(b) == IF Counted(b).failures = Threshold THEN Opened(Counted(b)) ELSE Counted(b)
record_failure(b) == IF b.state = "halfOpen" \/ Counted(b).failures = Threshold
                     THEN Opened(Counted(b)) ELSE Counted(b)
record_success(b) == Closed

(* Time: old failures leave the window, the pause ends. *)
Time == \E c \in Clients :
           /\ \/ /\ breaker[c].failures > 0
                 /\ breaker' = [breaker EXCEPT ![c].failures = @ - 1]
              \/ /\ breaker[c].state = "open" /\ ~breaker[c].cooled
                 /\ breaker' = [breaker EXCEPT ![c].cooled = TRUE]
           /\ UNCHANGED <<current, uses, at, attempt>>

(* reset_circuit_breaker, by the user. *)
Reset == /\ breaker' = [breaker EXCEPT ![current] = record_success(@)]
         /\ UNCHANGED <<current, uses, at, attempt>>

(* save_settings, and get_settings too, which only reads them. *)
NewClient == /\ current < MaxClients /\ current' = current + 1
             /\ UNCHANGED <<breaker, uses, at, attempt>>

-----------------------------------------------------------------------------
(* A request.  Who is refused by the breaker goes away.                    *)
Ask(r) == /\ r \notin Streams /\ at[r] = "idle" /\ Allows(breaker[current])
          /\ breaker' = [breaker EXCEPT ![current] = allow_request(@, r)]
          /\ uses' = [uses EXCEPT ![r] = current]
          /\ Go(r, "admitted")
          /\ UNCHANGED <<current, attempt>>

(* A stream goes straight to the model. *)
AskStream(r) == /\ r \in Streams /\ at[r] = "idle"
                /\ uses' = [uses EXCEPT ![r] = current]
                /\ Go(r, "calling")
                /\ UNCHANGED <<breaker, current, attempt>>

Leave(r) == /\ Go(r, "idle")
            /\ breaker' = [breaker EXCEPT ![uses[r]].probes = @ \ {r},
                               ![uses[r]].lost = @ \/ r \in breaker[uses[r]].probes]
            /\ uses' = [uses EXCEPT ![r] = 1]
            /\ attempt' = [attempt EXCEPT ![r] = 0]
            /\ UNCHANGED current

(* acquire_permit, try_acquire_owned: a user waits 30 seconds, a job not   *)
(* at all; who gets no permit leaves without a word to the breaker.        *)
MayEnter(r) == at[r] = "admitted" /\ Holders(uses[r]) = {}
Acquire(r) == /\ MayEnter(r)
              /\ Go(r, "calling")
              /\ UNCHANGED <<breaker, current, uses, attempt>>
Busy(r) == /\ at[r] = "admitted" /\ Holders(uses[r]) # {}
           /\ Leave(r)

(* complete_raw_internal: no connection, an error status and 429 are tried *)
(* again after a pause, an answer that cannot be read is not.  (Mutants: one*)
(* try more; tries that are not counted.)                                  *)
OneMoreTry(r) == attempt[r] <= MaxRetries
MoreTries(r) == attempt[r] < MaxRetries
Fails(r) == /\ at[r] = "calling"
            /\ \/ MoreTries(r) /\ Go(r, "backoff")
               \/ Go(r, "failed")
            /\ UNCHANGED <<breaker, current, uses, attempt>>
AgainUncounted(r) == /\ at[r] = "backoff" /\ Go(r, "calling")
                     /\ UNCHANGED <<breaker, current, uses, attempt>>
Again(r) == /\ at[r] = "backoff"
            /\ Go(r, "calling")
            /\ attempt' = [attempt EXCEPT ![r] = @ + 1]
            /\ UNCHANGED <<breaker, current, uses>>
Answers(r) == /\ at[r] = "calling"
              /\ Go(r, "answered")
              /\ UNCHANGED <<breaker, current, uses, attempt>>

(* The outcome is recorded while the permit is still held. *)
Record(r) ==
    /\ r \notin Streams /\ at[r] \in {"answered", "failed"}
    /\ breaker' = [breaker EXCEPT ![uses[r]] =
                      [(IF at[r] = "answered" THEN record_success(@) ELSE record_failure(@))
                       EXCEPT !.probes = {}, !.lost = FALSE]]
    /\ Go(r, "recorded")
    /\ UNCHANGED <<current, uses, attempt>>

Done(r) == /\ at[r] \in IF r \in Streams THEN {"answered", "failed"} ELSE {"recorded"}
           /\ Leave(r)

(* The client of the API hangs up: the handler is dropped, and with it the *)
(* permit; the breaker hears nothing.                                      *)
Drop(r) == /\ r \notin Background /\ at[r] \in {"admitted", "calling", "backoff"}
           /\ Leave(r)

Works(r) == Acquire(r) \/ Busy(r) \/ Fails(r) \/ Again(r) \/ Answers(r) \/ Record(r) \/ Done(r)

Next == \/ Time \/ Reset \/ NewClient
        \/ \E r \in Requests : Ask(r) \/ AskStream(r) \/ Works(r) \/ Drop(r)

(* Handlers and jobs run on; every call of the model ends (timeout 120 s). *)
Fairness == \A r \in Requests : WF_vars(Works(r))
Spec == Init /\ [][Next]_vars /\ Fairness

-----------------------------------------------------------------------------
(* Properties.                                                             *)

(* Two requests that share a client never call the model together, nor can *)
(* one of them still be recording when the next one starts: what           *)
(* complete_background keeps _p in scope for.                              *)
OneCallPerClient == \A c \in Clients : Cardinality(Holders(c)) <= 1

(* Whoever asks gets an answer, an error or "busy" in the end, however the *)
(* model behaves: no request is queued for ever.                           *)
RequestsEnd == \A r \in Requests : at[r] # "idle" ~> at[r] = "idle"

(* A half-open breaker that nobody is going to tell how its probe went has *)
(* lost that probe: it was hung up on, or found no permit.  A probe that   *)
(* failed never leaves the breaker so (record_failure, "otherwise the      *)
(* breaker latches in HalfOpen").                                          *)
Latched(c) == /\ breaker[c].state = "halfOpen" /\ ~breaker[c].permitted
              /\ \A r \in Requests \ Streams : at[r] = "idle"
OnlyLostProbesLatch == \A c \in Clients : Latched(c) => breaker[c].lost

=============================================================================
