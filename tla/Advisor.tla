------------------------------- MODULE Advisor ------------------------------
(***************************************************************************)
(* What the language models do: the gateway to them, summaries, learning,  *)
(* the assistant, and the ideas made into tasks.                           *)
(***************************************************************************)
EXTENDS Parts

Ai == INSTANCE AiGateway
Sw == INSTANCE SummaryWorker WITH Mails <- Messages, None <- Absent
Le == INSTANCE Learning WITH Keep <- KeptDiffs
As == INSTANCE Assistant
Id == INSTANCE Ideas WITH MaxCrashes <- MaxStops

\* What the parts assume of their constants.
ASSUME AdvisorAssumption ==
    /\ Ai!KindsAssumption /\ Ai!GatewayAssumption
    /\ Sw!BoundsAssumption /\ Sw!NoneAssumption
    /\ Le!LearningAssumption
    /\ As!ThingsAssumption /\ As!LimitsAssumption
    /\ Id!IdeasAssumption

-----------------------------------------------------------------------------
\* A breaker stays half open with nobody under way only when its probe was lost (ai/circuit_breaker.rs).
OnlyLostProbesLatch == part = "ai" => Ai!OnlyLostProbesLatch

\* No confirmation executes a step of a plan again, unless two overlap or one breaks off (ai/plaene.rs).
OnceUnlessOverlapping == part = "assistant" => As!OnceUnlessOverlapping

\* No two runs make tasks of the same memo, loop and endpoint together (cache/ideas.rs).
OneRunPerIdea == part = "ideas" => Id!OneRunPerIdea
=============================================================================
