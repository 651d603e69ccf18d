------------------------------- MODULE Ideas -------------------------------
(***************************************************************************)
(* Ideas (sync/insilo_ideas.rs, cache/ideas.rs): Insilo exports a voice    *)
(* memo as a file; a run scans the files into rows, claims the rows that   *)
(* are due, has the model make a plan for each and creates its tasks.  The *)
(* background loop and the endpoint run at the same time.                  *)
(***************************************************************************)
EXTENDS Naturals, FiniteSets

CONSTANTS Memos, Runs,
          Ticker,     \* the run of the background loop; the others are calls of the endpoint
          Attempts,   \* failures before the fallback task (BACKOFF_SECS)
          MaxVersion, \* bound: exports
          MaxErrors,  \* bound: outages of the model, calls for a task that fail
          MaxCalls,   \* bound: calls of the endpoint
          MaxCrashes  \* bound: crashes

IdeasAssumption == /\ Ticker \in Runs /\ Attempts \in Nat \ {0}
                   /\ {MaxVersion, MaxErrors, MaxCalls, MaxCrashes} \subseteq Nat

VARIABLES file,      \* the version of each memo's file, 0 when there is none
          row, run,
          made,      \* memos from which a task was made
          twice,     \* memos from which a second run made one again
          excused,   \* memos for which it may: see the properties
          unread,    \* memos given the fallback task although their task was noted
          abandoned, \* memos claimed by a run that will not come back to them
          version, errors, calls, crashes
vars == <<file, row, run, made, twice, excused, unread, abandoned, version, errors, calls, crashes>>

Rows == [status : {"none", "pending", "processing", "failed", "done"}, version : 0 .. MaxVersion,
         attempts : 0 .. Attempts, due : BOOLEAN, task : BOOLEAN, old : BOOLEAN]
NoRow == [status |-> "none", version |-> 0, attempts |-> 0, due |-> TRUE, task |-> FALSE, old |-> FALSE]
NoClaim == [attempts |-> 0, task |-> FALSE]       \* what a claim reads of its row
Idle == [step |-> "idle", dry |-> FALSE, read |-> [f \in Memos |-> 0], work |-> {}, memo |-> {},
         claimed |-> [f \in Memos |-> NoClaim]]
Steps == {"idle", "scan", "store", "claim", "next", "ask", "model", "make", "must", "note", "finish", "fallback"}

TypeOK == /\ file \in [Memos -> 0 .. MaxVersion] /\ row \in [Memos -> Rows]
          /\ run \in [Runs -> [step : Steps, dry : BOOLEAN, read : [Memos -> 0 .. MaxVersion], work : SUBSET Memos,
                               memo : SUBSET Memos, claimed : [Memos -> [attempts : 0 .. Attempts, task : BOOLEAN]]]]
          /\ {made, twice, excused, unread, abandoned} \subseteq SUBSET Memos
          /\ version \in 0 .. MaxVersion /\ errors \in 0 .. MaxErrors /\ calls \in 0 .. MaxCalls
          /\ crashes \in 0 .. MaxCrashes

Init == /\ file = [f \in Memos |-> 0] /\ row = [f \in Memos |-> NoRow] /\ run = [r \in Runs |-> Idle]
        /\ made = {} /\ twice = {} /\ excused = {} /\ unread = {} /\ abandoned = {}
        /\ version = 0 /\ errors = 0 /\ calls = 0 /\ crashes = 0

Export(f) == /\ version < MaxVersion /\ version' = version + 1 /\ file' = [file EXCEPT ![f] = version + 1]
             /\ UNCHANGED <<row, run, made, twice, excused, unread, abandoned, errors, calls, crashes>>
Remove(f) == /\ file[f] # 0 /\ file' = [file EXCEPT ![f] = 0]
             /\ UNCHANGED <<row, run, made, twice, excused, unread, abandoned, version, errors, calls, crashes>>

-----------------------------------------------------------------------------
Is(r, step) == run[r].step = step
Set(r, new) == run' = [run EXCEPT ![r] = new]
Go(r, step) == Set(r, [run[r] EXCEPT !.step = step])
WorkedAt == {f \in Memos : \E r \in Runs : f \in run[r].work \cup run[r].memo}
Fails == errors < MaxErrors /\ errors' = errors + 1
(* What a run begins with; the endpoint may set every row back first.      *)
reset_all == [f \in Memos |-> IF row[f].status = "none" THEN NoRow
                              ELSE [NoRow EXCEPT !.status = "pending", !.version = row[f].version]]
spawn_loop == /\ Is(Ticker, "idle") /\ Set(Ticker, [Idle EXCEPT !.step = "scan"])
              /\ UNCHANGED <<file, row, made, twice, excused, unread, abandoned, version, errors, calls, crashes>>
process_ideas(r, dry, reset) ==
    /\ r # Ticker /\ Is(r, "idle") /\ calls < MaxCalls /\ calls' = calls + 1
    /\ Set(r, [Idle EXCEPT !.step = "scan", !.dry = dry])
    /\ IF reset THEN row' = reset_all /\ excused' = Memos ELSE UNCHANGED <<row, excused>>
    /\ UNCHANGED <<file, made, twice, unread, abandoned, version, errors, crashes>>
(* The scan reads the files, then stores them as rows.  Either way a row   *)
(* whose file was read counts as touched now.                              *)
run_ideas_scan(r) == /\ Is(r, "scan") /\ Set(r, [run[r] EXCEPT !.step = "store", !.read = file])
                     /\ UNCHANGED <<file, row, made, twice, excused, unread, abandoned, version, errors, calls, crashes>>
(* (Mutant: a changed memo starts as if it were new.)                      *)
Anew(f, v) == [NoRow EXCEPT !.status = "pending", !.version = v]
Changed(f, v) == [NoRow EXCEPT !.status = "pending", !.version = v, !.task = row[f].task]
upsert_idea(f, v) == IF v = 0 THEN row[f]
                     ELSE IF v = row[f].version THEN [row[f] EXCEPT !.old = FALSE] ELSE Changed(f, v)
Store(r) == /\ Is(r, "store") /\ Set(r, [run[r] EXCEPT !.step = "claim", !.read = Idle.read])
            /\ row' = [f \in Memos |-> upsert_idea(f, run[r].read[f])]
            /\ excused' = excused \cup {f \in WorkedAt : row'[f].version # row[f].version}
            /\ UNCHANGED <<file, made, twice, unread, abandoned, version, errors, calls, crashes>>
(* Claiming: what is due, and what has been "processing" for a quarter of  *)
(* an hour.  (Mutants: what has failed is not tried again; a claim is not  *)
(* noted.)                                                                 *)
PendingOnly == {f \in Memos : row[f].status = "pending"}
DueRows == {f \in Memos : \/ row[f].status = "pending" \/ (row[f].status = "failed" /\ row[f].due)
                          \/ (row[f].status = "processing" /\ row[f].old)}
Unnoted(f) == row[f]
Claimed(f) == [row[f] EXCEPT !.status = "processing", !.old = FALSE]
claim_due_ideas(r) ==
    /\ Is(r, "claim")
    /\ Set(r, [run[r] EXCEPT !.step = "next", !.work = DueRows,
                             !.claimed = [f \in Memos |-> IF f \in DueRows THEN [attempts |-> row[f].attempts, task |-> row[f].task]
                                                  ELSE NoClaim]])
    /\ row' = [f \in Memos |-> IF f \in DueRows THEN Claimed(f) ELSE row[f]]
    /\ UNCHANGED <<file, made, twice, excused, unread, abandoned, version, errors, calls, crashes>>
Ready(r) == /\ Is(r, "next") /\ run[r].work = {} /\ Set(r, Idle)
            /\ UNCHANGED <<file, row, made, twice, excused, unread, abandoned, version, errors, calls, crashes>>

-----------------------------------------------------------------------------
Put(f, new) == row' = [row EXCEPT ![f] = new]
Mark(f, new) == Put(f, [new EXCEPT !.old = FALSE])
mark_done(f) == Mark(f, [row[f] EXCEPT !.status = "done", !.task = TRUE, !.due = TRUE])
mark_failed(f) == Mark(f, [row[f] EXCEPT !.status = "failed", !.due = FALSE,
                                         !.attempts = IF @ < Attempts THEN @ + 1 ELSE @])
mark_retry(f) == Mark(f, [row[f] EXCEPT !.status = "failed", !.due = FALSE])
(* The run takes up the next of its ideas; that idea is over.              *)
Over(r, f) == Set(r, [run[r] EXCEPT !.step = "next", !.memo = {}, !.claimed[f] = NoClaim])
process_due_ideas(r, f) ==
    /\ Is(r, "next") /\ f \in run[r].work
    /\ Set(r, [run[r] EXCEPT !.work = @ \ {f}, !.memo = {f}, !.step = "ask"])
    /\ UNCHANGED <<file, row, made, twice, excused, unread, abandoned, version, errors, calls, crashes>>
(* An attempt that failed for good: after the last one the fallback task.  *)
Failed(r, f) == IF run[r].claimed[f].attempts + 1 >= Attempts THEN Go(r, "fallback") /\ UNCHANGED row
                ELSE mark_failed(f) /\ Over(r, f)
(* One idea.  The model is asked for first: without one the attempt fails, *)
(* whether the row has its task or not.  A row that has its task already   *)
(* is then only marked as done.                                            *)
process_one(r, f) ==
    /\ Is(r, "ask")
    /\ \/ Failed(r, f)                                                     \* no model is configured
       \/ run[r].claimed[f].task /\ ~run[r].dry /\ mark_done(f) /\ Over(r, f)
       \/ ~(run[r].claimed[f].task /\ ~run[r].dry) /\ Go(r, "model") /\ UNCHANGED row
    /\ UNCHANGED <<file, made, twice, excused, unread, abandoned, version, errors, calls, crashes>>
Model(r, f) ==
    /\ Is(r, "model")
    /\ \/ ~run[r].dry /\ Go(r, "make") /\ UNCHANGED <<row, abandoned, errors>>
       \/ run[r].dry /\ Over(r, f) /\ abandoned' = abandoned \cup {f} /\ UNCHANGED <<row, errors>>
       \/ Failed(r, f) /\ UNCHANGED <<abandoned, errors>>                   \* no plan in its answer
       \/ Fails /\ mark_retry(f) /\ Over(r, f) /\ UNCHANGED abandoned       \* an outage is not counted
    /\ UNCHANGED <<file, made, twice, excused, unread, version, calls, crashes>>
(* A task of its own, or an addition to an open task on the same subject.  *)
create_task(f) == /\ made' = made \cup {f} /\ twice' = IF f \in made THEN twice \cup {f} ELSE twice
              /\ UNCHANGED <<excused, errors>>
append_task(f) == create_task(f)
(* The answer is lost: the provider may have the task or not.              *)
CreateFails(f) == Fails /\ UNCHANGED twice
                  /\ \/ UNCHANGED <<made, excused>>
                     \/ made' = made \cup {f} /\ excused' = excused \cup {f}
(* The first task of the plan, noted at once; the other items follow.      *)
plan_item(r, f) == /\ Is(r, "make")
                   /\ \/ (create_task(f) \/ append_task(f)) /\ Go(r, "note")
                      \/ CreateFails(f) /\ Go(r, "must")                    \* only logged
                      \/ Go(r, "must") /\ UNCHANGED <<made, twice, excused, errors>>   \* an empty plan
                   /\ UNCHANGED <<file, row, unread, abandoned, version, calls, crashes>>
set_task_uid(r, f) == /\ Is(r, "note") /\ Go(r, "finish") /\ Mark(f, [row[f] EXCEPT !.task = TRUE])
                      /\ UNCHANGED <<file, made, twice, excused, unread, abandoned, version, errors, calls, crashes>>
(* "Every idea results in at least one task."                              *)
Guarantee(r, f) == /\ Is(r, "must")
                   /\ \/ create_task(f) /\ Go(r, "finish") /\ UNCHANGED row
                      \/ CreateFails(f) /\ (Failed(r, f) \/ (mark_retry(f) /\ Over(r, f)))
                   /\ UNCHANGED <<file, unread, abandoned, version, calls, crashes>>
create_fallback_task(r, f) == /\ Is(r, "fallback")
                              /\ \/ /\ Go(r, "finish") /\ UNCHANGED <<row, errors>> /\ made' = made \cup {f}
                                    /\ twice' = IF f \in made THEN twice \cup {f} ELSE twice
                                    /\ excused' = IF run[r].dry THEN excused \cup {f} ELSE excused
                                    /\ unread' = IF run[r].claimed[f].task THEN unread \cup {f} ELSE unread
                                 \/ CreateFails(f) /\ mark_failed(f) /\ Over(r, f) /\ UNCHANGED unread
                              /\ UNCHANGED <<file, abandoned, version, calls, crashes>>
Finish(r, f) == /\ Is(r, "finish") /\ mark_done(f) /\ Over(r, f)
                /\ UNCHANGED <<file, made, twice, excused, unread, abandoned, version, errors, calls, crashes>>

-----------------------------------------------------------------------------
(* Time: the next attempt is due; a row was not touched for a quarter of   *)
(* an hour (a claim follows its scan at once).                             *)
Due(f) == /\ row[f].status = "failed" /\ ~row[f].due /\ Put(f, [row[f] EXCEPT !.due = TRUE])
          /\ UNCHANGED <<file, run, made, twice, excused, unread, abandoned, version, errors, calls, crashes>>
Quarter(f) == /\ row[f].status = "processing" /\ ~row[f].old /\ \A r \in Runs : ~Is(r, "claim")
              /\ Put(f, [row[f] EXCEPT !.old = TRUE])
              /\ excused' = IF f \in WorkedAt THEN excused \cup {f} ELSE excused
              /\ UNCHANGED <<file, run, made, twice, unread, abandoned, version, errors, calls, crashes>>
(* Relay restarts.  A task that was made and not noted may be made again.  *)
Crash == /\ crashes < MaxCrashes /\ crashes' = crashes + 1 /\ run' = [r \in Runs |-> Idle]
         /\ excused' = excused \cup {f \in WorkedAt : f \in made /\ ~row[f].task}
         /\ abandoned' = abandoned \cup WorkedAt
         /\ UNCHANGED <<file, row, made, twice, unread, version, errors, calls>>

Work(r) == \/ run_ideas_scan(r) \/ Store(r) \/ claim_due_ideas(r) \/ Ready(r)
           \/ \E f \in run[r].work : process_due_ideas(r, f)
           \/ \E f \in run[r].memo : \/ process_one(r, f) \/ Model(r, f) \/ plan_item(r, f) \/ set_task_uid(r, f) \/ Guarantee(r, f)
                                     \/ create_fallback_task(r, f) \/ Finish(r, f)
Next == \/ \E f \in Memos : Export(f) \/ Remove(f) \/ Due(f) \/ Quarter(f)
        \/ spawn_loop \/ Crash
        \/ \E r \in Runs : Work(r) \/ \E dry, reset \in BOOLEAN : process_ideas(r, dry, reset)
Fairness == /\ WF_vars(spawn_loop) /\ (\A r \in Runs : WF_vars(Work(r)))
            /\ \A f \in Memos : WF_vars(Due(f)) /\ SF_vars(Quarter(f))
Spec == Init /\ [][Next]_vars /\ Fairness

-----------------------------------------------------------------------------
(* Properties.                                                             *)

(* No second run makes tasks of a memo again, however often the attempts   *)
(* fail and however the loop and the endpoint overlap - unless the user    *)
(* set the rows back, the memo changed or a quarter of an hour passed      *)
(* while it was worked at, the task made was not noted (a crash, an answer *)
(* lost), a dry run failed so often that it made the fallback task, or the *)
(* memo changed after its task was noted and no model was configured then, *)
(* so that the attempts ended in the fallback task (unread; the comment at *)
(* cache/ideas.rs:25-27, "the existing task_uid is kept so no duplicate    *)
(* task is created", leaves that way out).                                 *)
OneRunPerIdea == twice \subseteq excused \cup unread

(* "Nothing is lost": a memo that waits is done in the end, unless the run *)
(* that claimed it ended without coming back to it.                        *)
IdeasBecomeTasks == \A f \in Memos : row[f].status = "pending" ~> (row[f].status = "done" \/ f \in abandoned)
=============================================================================
