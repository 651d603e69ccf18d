------------------------------ MODULE Learning ------------------------------
(***************************************************************************)
(* What Relay learns from drafts the user changed before sending, for one  *)
(* recipient: the difference is kept (cache/learning.rs), the model draws a*)
(* hint from it (task AnalyzeDiff), and from the hints a portrait of the   *)
(* user's style (task RefreshFingerprint, cache/fingerprint.rs).  The tasks*)
(* run one after the other in the round of the synchronisation; drafts are *)
(* sent while they wait for the model.                                     *)
(***************************************************************************)
EXTENDS Naturals, Sequences, FiniteSets

CONSTANTS Keep,      \* differences kept per recipient (20 in the code)
          Batch,     \* differences analyzed per task (3)
          Hints,     \* newer hints that call for a new portrait (3)
          MaxDrafts, \* bound: drafts sent
          MaxOutages \* bound: times the model fails or is busy with a draft it can read

LearningAssumption == /\ {Keep, Batch, Hints} \subseteq Nat \ {0}
                      /\ MaxDrafts \in Nat /\ MaxOutages \in Nat

VARIABLES diffs,     \* the table learning_diffs, oldest first
          drafts,    \* drafts sent so far
          portrait,  \* there is a row in style_fingerprints
          task,      \* "none", "analyze", "candidate" or "refresh"
          list,      \* the differences the task read, and has still to do
          outages

vars == <<diffs, drafts, portrait, task, list, outages>>

Ids == 1 .. MaxDrafts
(* far: the edit distance, by which they are taken; readable: the model    *)
(* can answer at all; newer: created_at is after last_updated.             *)
Diff == [id : Ids, far : BOOLEAN, readable : BOOLEAN, analyzed : BOOLEAN, newer : BOOLEAN]

TypeOK == /\ diffs \in Seq(Diff) /\ Len(diffs) <= Keep
          /\ drafts \in 0 .. MaxDrafts /\ portrait \in BOOLEAN
          /\ task \in {"none", "analyze", "candidate", "refresh"}
          /\ list \subseteq Diff
          /\ outages \in 0 .. MaxOutages

Init == /\ diffs = <<>> /\ drafts = 0 /\ portrait = FALSE
        /\ task = "none" /\ list = {} /\ outages = 0

(* queue_diff with cleanup_diffs: the oldest give way, analyzed or not.    *)
cleanup_diffs(s) == IF Len(s) > Keep THEN SubSeq(s, Len(s) - Keep + 1, Len(s)) ELSE s
queue_diff(far, readable) ==
    /\ drafts < MaxDrafts /\ drafts' = drafts + 1
    /\ diffs' = cleanup_diffs(Append(diffs, [id |-> drafts', far |-> far, readable |-> readable,
                                             analyzed |-> FALSE, newer |-> TRUE]))
    /\ UNCHANGED <<portrait, task, list, outages>>

(* get_unanalyzed_diffs: the most changed first, then the oldest. *)
Before(d, e) == (d.far /\ ~e.far) \/ (d.far = e.far /\ d.id < e.id)
Unanalyzed == {diffs[i] : i \in {k \in 1 .. Len(diffs) : ~diffs[k].analyzed}}
get_unanalyzed_diffs == {d \in Unanalyzed : Cardinality({e \in Unanalyzed : Before(e, d)}) < Batch}

AnalyzeDiff == /\ task = "none" /\ Unanalyzed # {}
               /\ task' = "analyze" /\ list' = get_unanalyzed_diffs
               /\ UNCHANGED <<diffs, drafts, portrait, outages>>

(* The model answers, or fails; mark_analyzed finds no row if the draft    *)
(* has given way meanwhile.                                                *)
First == CHOOSE d \in list : \A e \in list \ {d} : Before(d, e)
Marked(s, id) == [i \in 1 .. Len(s) |-> IF s[i].id = id THEN [s[i] EXCEPT !.analyzed = TRUE] ELSE s[i]]
StopAtFailure == list' = {} /\ task' = "none"
AfterFailure == list' = list \ {First} /\ task' = IF list = {First} THEN "none" ELSE "analyze"
Analyzed ==
    /\ task = "analyze"
    /\ \/ First.readable /\ diffs' = Marked(diffs, First.id) /\ UNCHANGED outages
          /\ list' = list \ {First} /\ task' = IF list = {First} THEN "none" ELSE "analyze"
       \/ ~First.readable /\ UNCHANGED <<diffs, outages>> /\ AfterFailure
       \/ /\ First.readable /\ outages < MaxOutages
          /\ outages' = outages + 1 /\ UNCHANGED diffs /\ AfterFailure
    /\ UNCHANGED <<drafts, portrait>>

(* get_refresh_candidates: by the hints that are newer than the portrait   *)
(* (#27).                                                                  *)
get_refresh_candidates ==
    Cardinality({i \in 1 .. Len(diffs) : diffs[i].analyzed /\ (~portrait \/ diffs[i].newer)}) >= Hints

(* Up to two candidates are listed; the hints of each are read when its    *)
(* turn comes, and the portrait is of those, whatever came since.          *)
RefreshFingerprint ==
    /\ task = "none" /\ get_refresh_candidates
    /\ task' = "candidate"
    /\ UNCHANGED <<diffs, drafts, portrait, list, outages>>
get_hints_for_synthesis ==
    /\ task = "candidate"
    /\ list' = {diffs[i] : i \in {k \in 1 .. Len(diffs) : diffs[k].analyzed}}
    /\ task' = IF list' = {} THEN "none" ELSE "refresh"
    /\ UNCHANGED <<diffs, drafts, portrait, outages>>
save_fingerprint == /\ portrait' = TRUE
                    /\ diffs' = [i \in 1 .. Len(diffs) |-> [diffs[i] EXCEPT !.newer = FALSE]]
Synthesized ==
    /\ task = "refresh"
    /\ \/ save_fingerprint /\ UNCHANGED outages
       \/ outages < MaxOutages /\ outages' = outages + 1 /\ UNCHANGED <<diffs, portrait>>
    /\ task' = "none" /\ list' = {}
    /\ UNCHANGED drafts

Next == \/ \E far, readable \in BOOLEAN : queue_diff(far, readable)
        \/ AnalyzeDiff \/ Analyzed \/ RefreshFingerprint
        \/ get_hints_for_synthesis \/ Synthesized

(* Both tasks come round in every cycle; the calls of the model end. *)
Fairness == /\ WF_vars(Analyzed) /\ WF_vars(get_hints_for_synthesis) /\ WF_vars(Synthesized)
            /\ SF_vars(AnalyzeDiff) /\ SF_vars(RefreshFingerprint)
Spec == Init /\ [][Next]_vars /\ Fairness

-----------------------------------------------------------------------------
(* Properties.                                                             *)

(* Every draft the model can read is learned from, unless it gives way to  *)
(* later ones, or a whole batch of more changed drafts fails every time.   *)
Open(id) == \E i \in 1 .. Len(diffs) : diffs[i].id = id /\ ~diffs[i].analyzed /\ diffs[i].readable
Blocked == Cardinality({i \in 1 .. Len(diffs) : ~diffs[i].readable}) >= Batch
DraftsLearned == \A id \in Ids : Open(id) ~> ~Open(id) \/ Blocked
=============================================================================
