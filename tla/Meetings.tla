------------------------------ MODULE Meetings ------------------------------
(***************************************************************************)
(* Meetings (sync/insilo.rs, api/meetings.rs): another program, Insilo,    *)
(* exports one file per memo into a directory; a scan reads the directory, *)
(* then stores what it read and hides the meetings whose file is gone.     *)
(* Scans of the background loop and of the endpoint may overlap.  File     *)
(* names carry the memo, so no two memos share one.                        *)
(***************************************************************************)
EXTENDS Naturals, FiniteSets

CONSTANTS Memos,      \* memos of Insilo
          Scans,      \* scans that may be under way at once
          Ticker,     \* the one of the background loop
          MaxVersion  \* bound: exports and renames

MeetingsAssumption == Ticker \in Scans /\ MaxVersion \in Nat

VARIABLES file,       \* the exported file of each memo
          row,        \* its row, version 0 when there is none
          ignored,    \* memos the user has removed from Relay (meetings_ignored)
          scan, version
vars == <<file, row, ignored, scan, version>>

Kinds == {"none", "meeting", "idea", "broken"}
Files == [kind : Kinds, version : 0 .. MaxVersion, name : {1, 2}, fresh : BOOLEAN]
NoFile == [kind |-> "none", version |-> 0, name |-> 1, fresh |-> FALSE]
Rows == [version : 0 .. MaxVersion, name : {1, 2}, deleted : BOOLEAN]
Idle == [step |-> "idle", found |-> [m \in Memos |-> NoFile], seen |-> {}]

TypeOK == /\ file \in [Memos -> Files] /\ row \in [Memos -> Rows] /\ ignored \subseteq Memos
          /\ scan \in [Scans -> [step : {"idle", "store"}, found : [Memos -> Files], seen : SUBSET (Memos \X {1, 2})]]
          /\ version \in 0 .. MaxVersion

Init == /\ file = [m \in Memos |-> NoFile] /\ ignored = {} /\ version = 0
        /\ row = [m \in Memos |-> [version |-> 0, name |-> 1, deleted |-> TRUE]]
        /\ scan = [s \in Scans |-> Idle]

-----------------------------------------------------------------------------
(* Insilo: exports a memo, as a meeting or as an idea, renames or removes  *)
(* its file.                                                               *)
Insilo(m, new) == file' = [file EXCEPT ![m] = new] /\ UNCHANGED <<row, ignored, scan>>
Export(m, kind) == /\ version < MaxVersion /\ version' = version + 1
                   /\ Insilo(m, [kind |-> kind, version |-> version + 1, name |-> file[m].name, fresh |-> TRUE])
Rename(m) == /\ file[m].kind # "none" /\ version < MaxVersion /\ version' = version + 1
             /\ Insilo(m, [file[m] EXCEPT !.name = 3 - @])
Remove(m) == file[m].kind # "none" /\ Insilo(m, NoFile) /\ UNCHANGED version
(* Fifteen seconds later.                                                  *)
Settle(m) == file[m].fresh /\ Insilo(m, [file[m] EXCEPT !.fresh = FALSE]) /\ UNCHANGED version

-----------------------------------------------------------------------------
(* A scan.  Every file counts as seen, except an idea's.                   *)
ReadDrop(s) ==
    LET idea(m) == file[m].kind = "idea" /\ ~file[m].fresh
        meeting(m) == file[m].kind = "meeting" /\ ~file[m].fresh
    IN /\ scan[s].step = "idle"
       /\ scan' = [scan EXCEPT ![s] =
                     [step |-> "store", found |-> [m \in Memos |-> IF meeting(m) THEN file[m] ELSE NoFile],
                      seen |-> {<<m, file[m].name>> : m \in {x \in Memos : file[x].kind # "none" /\ ~idea(x)}}]]
       /\ UNCHANGED <<file, row, ignored, version>>

(* (Mutants: a version that is known is left as it is, hidden or not; a    *)
(* meeting the user removed is stored again.)                              *)
Known(m, f) == row[m].version = f.version
Unchanged(m, f) == row[m].version = f.version /\ ~row[m].deleted
Everything == {}
Ignored == ignored
Upserted(s, m) == LET f == scan[s].found[m]
                  IN IF f.kind = "none" \/ m \in Ignored \/ Unchanged(m, f) THEN row[m]
                     ELSE [version |-> f.version, name |-> f.name, deleted |-> FALSE]
run_insilo_scan(s) ==
    /\ scan[s].step = "store" /\ scan' = [scan EXCEPT ![s] = Idle]
    /\ row' = [m \in Memos |-> LET new == Upserted(s, m)
                               IN [new EXCEPT !.deleted = @ \/ <<m, new.name>> \notin scan[s].seen]]
    /\ UNCHANGED <<file, ignored, version>>

(* The user removes a meeting: it stays away.                              *)
delete_meeting(m) == /\ ~row[m].deleted /\ ignored' = ignored \cup {m}
                     /\ row' = [row EXCEPT ![m].deleted = TRUE]
                     /\ UNCHANGED <<file, scan, version>>

Next == \/ \E m \in Memos : \/ \E kind \in Kinds \ {"none"} : Export(m, kind)
                            \/ Rename(m) \/ Remove(m) \/ Settle(m) \/ delete_meeting(m)
        \/ \E s \in Scans : ReadDrop(s) \/ run_insilo_scan(s)
Fairness == /\ WF_vars(ReadDrop(Ticker)) /\ (\A s \in Scans : WF_vars(run_insilo_scan(s)))
            /\ \A m \in Memos : WF_vars(Settle(m))
Spec == Init /\ [][Next]_vars /\ Fairness

-----------------------------------------------------------------------------
(* Properties.                                                             *)

(* A meeting the user has removed does not come back, whatever its file    *)
(* becomes and whenever a scan under way had read it.                      *)
RemovedStaysAway == \A m \in ignored : row[m].deleted

(* "A scan always heals": when the files come to rest, Relay shows exactly *)
(* the meetings whose file is there, in the version that is there.         *)
MeetingsComeRight ==
    \A m \in Memos :
        /\ <>[](file[m].kind = "meeting" /\ m \notin ignored)
           => <>[](~row[m].deleted /\ row[m].version = file[m].version)
        /\ <>[](file[m].kind \in {"none", "idea"}) => <>[](row[m].deleted)
=============================================================================
