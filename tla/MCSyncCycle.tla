---------------------------- MODULE MCSyncCycle ----------------------------
(* Two accounts, one with mails in a folder kept only in Relay; the EXPUNGE *)
(* due every second round, the other jobs every round.                      *)
EXTENDS SyncCycle

CONSTANTS a1, a2

MCAccounts == {a1, a2}
MCKeptLocal == {a1}
MCEvery == [j \in Jobs |-> IF j = "expunge" THEN 2 ELSE 1]
=============================================================================
