----------------------------- MODULE Assistant -----------------------------
(***************************************************************************)
(* The assistant that acts (ai/agent.rs, ai/plaene.rs, ai/tools,           *)
(* ai/sessions.rs): the model reads with tools, and what it wants to       *)
(* change becomes cards, kept as a plan until the user confirms, cancels or*)
(* lets it expire (api/ai.rs).  Requests of one user overlap: two windows  *)
(* confirm the same plan, one confirms while another cancels, and a client *)
(* that hangs up takes its handler with it.                                *)
(***************************************************************************)
EXTENDS Naturals, Sequences

CONSTANTS Things,      \* mails and events that exist (tasks and contacts go by
                       \* UUIDs, which name nothing else)
          KindOf,      \* "mail" or "event"
          NumberOf,    \* the number tools know a thing by: uid or id, as text
          Confirms,    \* requests that confirm
          MaxPlans,    \* bound: plans made
          MaxTurns,    \* bound: dialogues, and plans made below a mail
          MaxCards,    \* bound: cards of a plan (one per call of a tool, MAX_STEPS 5)
          MaxMessages  \* messages a session keeps (MAX_ROUNDS, 20)

ThingsAssumption == /\ KindOf \in [Things -> {"mail", "event"}]
                    /\ NumberOf \in [Things -> Nat]
LimitsAssumption == /\ {MaxPlans, MaxTurns} \subseteq Nat /\ MaxCards \in Nat \ {0}
                    /\ MaxMessages \in Nat \ {0, 1}

VARIABLES run,       \* the agent loop: "off" or "loop"
          known,     \* known_ids: the things it was shown
          cards,     \* collected by it
          turns,     \* dialogues ended, for the history
          session,   \* messages of ai_sessions
          plans,     \* ai_action_plans, with the history of what ran
          confirm    \* of each confirming request: plan, next step, failed

vars == <<run, known, cards, turns, session, plans, confirm>>

Numbers == {NumberOf[t] : t \in Things}
(* A card: the tool's kind, the number it will use (0: it creates), the    *)
(* thing whose label the user sees, and the thing its request addresses.   *)
Nothing == "nothing"
Card == [kind : {"mail", "event", "task"}, number : Numbers \cup {0},
         label : Things \cup {Nothing}, target : Things \cup {Nothing}]
Create == [kind |-> "task", number |-> 0, label |-> Nothing, target |-> Nothing]
(* old: made on an earlier day (that the 15 minutes are over is looked at  *)
(* by nobody, is_expired has no caller).  As history, overlap: a           *)
(* confirmation began or broke off while another ran; runs: how often each *)
(* step ran, up to twice.                                                  *)
Plan == [status : {"pending", "executed", "cancelled", "expired", "failed"},
         old : BOOLEAN, steps : Seq(Card),
         overlap : BOOLEAN, runs : Seq(0 .. 2)]
Idle == [plan |-> 0, step |-> 1, failed |-> FALSE]

TypeOK == /\ run \in {"off", "loop"} /\ known \subseteq Things
          /\ cards \in Seq(Card) /\ Len(cards) <= MaxCards
          /\ turns \in 0 .. MaxTurns
          /\ session \in Seq([role : {"user", "assistant"}, turn : Nat])
          /\ Len(session) <= MaxMessages
          /\ plans \in Seq(Plan) /\ Len(plans) <= MaxPlans
          /\ confirm \in [Confirms -> [plan : 0 .. MaxPlans, step : 1 .. MaxCards + 1,
                                       failed : BOOLEAN]]

Init == /\ run = "off" /\ known = {} /\ cards = <<>> /\ turns = 0 /\ session = <<>>
        /\ plans = <<>> /\ confirm = [c \in Confirms |-> Idle]

-----------------------------------------------------------------------------
(* The agent loop (run_agent_core).                                        *)

(* expire_pending, at the start of a loop only: an RFC 3339 time is        *)
(* compared as text with datetime('now'), and "T" comes after " ", so a    *)
(* plan of today is never past.                                            *)
expire_pending(P) == [i \in 1 .. Len(P) |->
    IF P[i].status = "pending" /\ P[i].old THEN [P[i] EXCEPT !.status = "expired"] ELSE P[i]]
Begin == /\ run = "off" /\ turns < MaxTurns
         /\ run' = "loop" /\ known' = {} /\ cards' = <<>>
         /\ plans' = expire_pending(plans)
         /\ UNCHANGED <<turns, session, confirm>>

(* A reading tool: what it lists is known by its number from now on; one   *)
(* table for mails and events, the last to come takes the number.          *)
Shown(S) == {t \in known : \A u \in S : NumberOf[u] # NumberOf[t]} \cup S
Lists(k) == \E t \in {u \in Things : KindOf[u] = k} : known' = Shown({t})
mail_search == Lists("mail")
calendar_list_events == Lists("event")
Read == /\ run = "loop" /\ (mail_search \/ calendar_list_events)
        /\ UNCHANGED <<run, cards, turns, session, plans, confirm>>

(* A writing tool makes a card of a number it has seen; which thing that is*)
(* is looked up by the number alone, for a mail in any folder              *)
(* (folder_for_uid).                                                       *)
Addressed(k, n) == LET S == {t \in Things : KindOf[t] = k /\ NumberOf[t] = n}
                   IN IF S = {} THEN {Nothing} ELSE S
CardsOf(k, S) == UNION {{[kind |-> k, number |-> NumberOf[u], label |-> u, target |-> t] :
                            t \in Addressed(k, NumberOf[u])} : u \in S}
mail_cards == CardsOf("mail", known)    \* mail_flag, mail_move, mail_propose_reply
event_cards == CardsOf("event", known)  \* calendar_update_event, _delete_event, _invite, _rsvp
Write == /\ run = "loop" /\ Len(cards) < MaxCards /\ Len(plans) < MaxPlans
         /\ \E c \in mail_cards \cup event_cards \cup {Create} : cards' = Append(cards, c)
         /\ UNCHANGED <<run, known, turns, session, plans, confirm>>

(* The end of the loop, by an answer, after 5 steps, after 120 seconds or  *)
(* because the window is closed: the cards become a plan, question and     *)
(* answer go to the session.  append_message drops the oldest messages     *)
(* beyond MAX_ROUNDS and then beyond a budget of characters.               *)
NewPlan(s) == [status |-> "pending", old |-> FALSE, steps |-> s,
               overlap |-> FALSE, runs |-> [i \in 1 .. Len(s) |-> 0]]
Newest(s, n) == SubSeq(s, Len(s) - n + 1, Len(s))
append_message(s, m) == LET t == Append(s, m)
                        IN {Newest(t, n) : n \in 1 .. IF Len(t) < MaxMessages THEN Len(t) ELSE MaxMessages}
Finish == /\ run = "loop"
          /\ run' = "off" /\ cards' = <<>> /\ known' = {} /\ turns' = turns + 1
          /\ plans' = IF cards = <<>> THEN plans ELSE Append(plans, NewPlan(cards))
          /\ \E s \in append_message(session, [role |-> "user", turn |-> turns']) :
                session' \in append_message(s, [role |-> "assistant", turn |-> turns'])
          /\ UNCHANGED confirm

(* An error of the model, or a hung-up request without a stream: cards and *)
(* question are gone.                                                      *)
Fail == /\ run = "loop" /\ run' = "off" /\ cards' = <<>> /\ known' = {} /\ turns' = turns + 1
        /\ UNCHANGED <<session, plans, confirm>>

session_delete == /\ session # <<>> /\ session' = <<>>
                  /\ UNCHANGED <<run, known, cards, turns, plans, confirm>>

(* plan_create: a follow-up the user picked below a mail; the tool runs    *)
(* with that mail's number known.                                          *)
plan_create == /\ Len(plans) < MaxPlans /\ run = "off" /\ turns < MaxTurns
               /\ \E u \in Things : \E t \in Addressed("mail", NumberOf[u]) :
                     /\ KindOf[u] = "mail"
                     /\ plans' = Append(plans, NewPlan(<<[kind |-> "mail", number |-> NumberOf[u],
                                                          label |-> u, target |-> t]>>))
               /\ turns' = turns + 1
               /\ UNCHANGED <<run, known, cards, session, confirm>>

-----------------------------------------------------------------------------
(* Plans.                                                                  *)
Midnight == /\ \E p \in 1 .. Len(plans) : plans[p].status = "pending" /\ ~plans[p].old
            /\ plans' = [p \in 1 .. Len(plans) |-> [plans[p] EXCEPT !.old = TRUE]]
            /\ UNCHANGED <<run, known, cards, turns, session, confirm>>

Running(p) == {c \in Confirms : confirm[c].plan = p}

(* plan_confirm reads the plan once, whatever its age ...                  *)
AnyStatus(p) == TRUE
Confirmable(p) == plans[p].status = "pending"
plan_confirm(c, p) ==
    /\ confirm[c] = Idle /\ Confirmable(p)
    /\ confirm' = [confirm EXCEPT ![c].plan = p]
    /\ plans' = [plans EXCEPT ![p].overlap = @ \/ Running(p) # {}]
    /\ UNCHANGED <<run, known, cards, turns, session>>

(* ... runs its steps one after the other, a failure does not stop it ...  *)
execute_prepared(c) ==
    LET p == confirm[c].plan
    IN /\ p # 0 /\ confirm[c].step <= Len(plans[p].steps)
       /\ plans' = [plans EXCEPT ![p].runs[confirm[c].step] = IF @ = 2 THEN 2 ELSE @ + 1]
       /\ \E ok \in IF plans[p].steps[confirm[c].step].target = Nothing
                       /\ plans[p].steps[confirm[c].step].number # 0 THEN {FALSE} ELSE BOOLEAN :
             confirm' = [confirm EXCEPT ![c].step = @ + 1, ![c].failed = @ \/ ~ok]
       /\ UNCHANGED <<run, known, cards, turns, session>>

(* ... and says what came of it, over whatever the status is by then.      *)
set_status(c) ==
    LET p == confirm[c].plan
    IN /\ p # 0 /\ confirm[c].step > Len(plans[p].steps)
       /\ plans' = [plans EXCEPT ![p].status = IF confirm[c].failed THEN "failed" ELSE "executed"]
       /\ confirm' = [confirm EXCEPT ![c] = Idle]
       /\ UNCHANGED <<run, known, cards, turns, session>>

(* The client hangs up, or the server restarts, between two steps. *)
Hangup(c) == /\ confirm[c].plan # 0
             /\ plans' = [plans EXCEPT ![confirm[c].plan].overlap = TRUE]
             /\ confirm' = [confirm EXCEPT ![c] = Idle]
             /\ UNCHANGED <<run, known, cards, turns, session>>

cancel_plan(p) == /\ plans[p].status = "pending"
                  /\ plans' = [plans EXCEPT ![p].status = "cancelled"]
                  /\ UNCHANGED <<run, known, cards, turns, session, confirm>>

Next == \/ Begin \/ Read \/ Write \/ Finish \/ Fail \/ session_delete \/ plan_create \/ Midnight
        \/ \E p \in 1 .. Len(plans) : cancel_plan(p) \/ \E c \in Confirms : plan_confirm(c, p)
        \/ \E c \in Confirms : execute_prepared(c) \/ set_status(c) \/ Hangup(c)
Spec == Init /\ [][Next]_vars

-----------------------------------------------------------------------------
(* Properties.                                                             *)

(* A step runs once, whatever the user clicks, as long as two confirmations*)
(* of the plan never overlap and none breaks off halfway; those can repeat *)
(* it, since the status is read before and written after the steps.        *)
OnceUnlessOverlapping ==
    \A p \in 1 .. Len(plans) : ~plans[p].overlap =>
        \A i \in 1 .. Len(plans[p].runs) : plans[p].runs[i] <= 1

=============================================================================
