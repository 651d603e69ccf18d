----------------------------- MODULE SyncCycle -----------------------------
(***************************************************************************)
(* The loop that drives everything: one round waits for news of every      *)
(* account, fills the task queue, works it off until it is empty, runs the *)
(* jobs that are due and sleeps (sync/scheduler.rs, sync/queue.rs).  API   *)
(* handlers put tasks into the same queue at any time.  What the tasks do  *)
(* to the mail is the subject of MailSync and DeleteQueue; here it counts  *)
(* which of them come back into the queue, and what survives a restart.    *)
(***************************************************************************)
EXTENDS Naturals, Sequences, SequencesExt, FiniteSets

CONSTANTS Accounts,
          Every,         \* rounds after which each periodic job is due again
          FetchRetries,  \* max_retries of FetchNew (3 in the code)
          DiffBatch,     \* diffs analyzed at a time (3)
          MailBatch,     \* mails backfilled at a time (20)
          KeptLocal,     \* accounts with mails without an archived file in
                         \* folders kept only in Relay
          MaxRaw,        \* bound: mails of an account without an archived file
          MaxEvents      \* bound: what users, failures and restarts do

Jobs == {"retention", "removal", "flags", "gc", "expunge"}

ASSUME JobsAssumption == Every \in [Jobs -> Nat \ {0}]
ASSUME LocalAssumption == KeptLocal \subseteq Accounts
ASSUME BatchAssumption == DiffBatch \in Nat \ {0} /\ MailBatch \in Nat \ {0}
(* A fetch tried again still goes before whatever else is in the queue.    *)
ASSUME RetriesAssumption == FetchRetries \in 0 .. 4
ASSUME BoundsAssumption == IsFiniteSet(Accounts) /\ MaxRaw \in Nat /\ MaxEvents \in Nat

VARIABLES heap,     \* the queue, in the order the tasks were created
          at,       \* the step of the round
          cur,      \* the task in hand (none or one) ...
          older,    \* ... and how many in the heap are older than it
          waiting,  \* accounts whose wait for news is not over
          outcome,  \* what this round's fetch of each account came to, ...
          failed,   \* ... and how often it failed
          never,    \* jobs that did not run since the server started ...
          age,      \* ... and the rounds since the others ran
          diffs,    \* edited drafts not analyzed yet (learning_diffs)
          llm,      \* the language model is there and answers
          raw,      \* mails without an archived file, which the provider has
          op,       \* kind of the queued op that will mark a mail, of one folder
          flagged,  \* the provider has a mail marked \Deleted in that folder
          pending,  \* EXPUNGE_PENDING: the folder waits for its EXPUNGE
          listed,   \* the same in the table expunge_offen
          lost,     \* a restart came between "done" and "waits for its EXPUNGE"
          events    \* what of the bound is spent

round == <<waiting, outcome, failed>>
jobs == <<never, age>>
work == <<diffs, raw>>
expunge == <<op, flagged, pending, listed, lost>>
vars == <<heap, at, cur, older, round, jobs, work, llm, expunge, events>>

Types == {"FetchNew", "FetchBodies", "AnalyzeDiff", "RefreshFingerprint",
          "BackfillEmails", "GenerateAiSummary"}
MaxRetries == [t \in Types |-> CASE t = "FetchNew" -> FetchRetries
                                 [] t = "FetchBodies" -> 1
                                 [] t \in {"BackfillEmails", "GenerateAiSummary"} -> 2
                                 [] OTHER -> 0]
Global == "all accounts"
Task == [account : Accounts \cup {Global}, type : Types, retries : Nat, priority : 0 .. 10]

Tasked(a, t, p) == [account |-> a, type |-> t, retries |-> 0, priority |-> p]

NewRound == /\ at' = "idle" /\ waiting' = Accounts
            /\ outcome' = [a \in Accounts |-> "open"]
            /\ failed' = [a \in Accounts |-> 0]

Init == /\ heap = <<>> /\ cur = {} /\ older = 0
        /\ at = "idle" /\ waiting = Accounts
        /\ outcome = [a \in Accounts |-> "open"] /\ failed = [a \in Accounts |-> 0]
        /\ never = Jobs /\ age = [j \in Jobs |-> 0]
        /\ diffs = 0 /\ llm \in BOOLEAN
        /\ raw = [a \in Accounts |-> 0]
        /\ op = "none" /\ flagged = FALSE /\ pending = FALSE /\ listed = FALSE
        /\ lost = FALSE /\ events = 0

Event == events < MaxEvents /\ events' = events + 1

-----------------------------------------------------------------------------
(* The API and the world.                                                  *)

(* A draft of the model was edited and sent. *)
queue_diff == /\ Event
              /\ diffs' = diffs + 1
              /\ UNCHANGED <<heap, at, cur, older, round, jobs, llm, raw, expunge>>

(* update_account switches the account to archive mode. *)
update_account(a) ==
    /\ Event
    /\ heap' = Append(heap, Tasked(a, "BackfillEmails", 3))
    /\ UNCHANGED <<at, cur, older, round, jobs, work, llm, expunge>>

(* trigger_folder_summaries, for one mail. *)
trigger_folder_summaries(a) ==
    /\ Event
    /\ heap' = Append(heap, Tasked(a, "GenerateAiSummary", 5))
    /\ UNCHANGED <<at, cur, older, round, jobs, work, llm, expunge>>

(* A deletion is queued, by number or by Message-ID. *)
enqueue_delete(kind) ==
    /\ Event /\ op = "none"
    /\ op' = kind
    /\ UNCHANGED <<heap, at, cur, older, round, jobs, work, llm, flagged, pending, listed, lost>>

(* The language model goes away or comes back. *)
ModelChanges == /\ Event
                /\ llm' = ~llm
                /\ UNCHANGED <<heap, at, cur, older, round, jobs, work, expunge>>

Api == \/ queue_diff \/ ModelChanges
       \/ \E kind \in {"delete", "delete_mid"} : enqueue_delete(kind)
       \/ \E a \in Accounts : update_account(a) \/ trigger_folder_summaries(a)

-----------------------------------------------------------------------------
(* do_sync_cycle: one waiter per account; each asks for a fetch, also      *)
(* without news, but not where the reconnect fails ...                     *)
idle_wait(a) ==
    /\ at = "idle" /\ a \in waiting
    /\ waiting' = waiting \ {a}
    /\ \/ heap' = Append(heap, Tasked(a, "FetchNew", 10)) /\ UNCHANGED <<outcome, events>>
       \/ /\ Event
          /\ outcome' = [outcome EXCEPT ![a] = "unreachable"]
          /\ UNCHANGED heap
    /\ UNCHANGED <<at, cur, older, failed, jobs, work, llm, expunge>>

(* ... the background tasks follow ...                                     *)
EnqueueBackground ==
    /\ at = "idle" /\ waiting = {}
    /\ heap' = heap \o [i \in 1 .. Cardinality(Accounts) |->
                           Tasked(SetToSeq(Accounts)[i], "FetchBodies", 5)]
                    \o <<Tasked(Global, "AnalyzeDiff", 3), Tasked(Global, "RefreshFingerprint", 2)>>
    /\ at' = "drain"
    /\ UNCHANGED <<cur, older, round, jobs, work, llm, expunge, events>>

(* ... and the queue is worked off: the highest priority first, the oldest *)
(* of these.  (Mutant: in order of age.)                                   *)
Eldest == 1
Best == CHOOSE i \in DOMAIN heap : \A j \in DOMAIN heap :
            \/ heap[i].priority > heap[j].priority
            \/ heap[i].priority = heap[j].priority /\ i <= j

dequeue == /\ at = "drain" /\ heap # <<>>
           /\ cur' = {heap[Best]} /\ older' = Best - 1
           /\ heap' = RemoveAt(heap, Best)
           /\ at' = "work"
           /\ UNCHANGED <<round, jobs, work, llm, expunge, events>>

Drained == /\ at = "drain" /\ heap = <<>>
           /\ at' = "jobs"
           /\ UNCHANGED <<heap, cur, older, round, jobs, work, llm, expunge, events>>

-----------------------------------------------------------------------------
(* process_sync_task and what its result leads to.                         *)

Finished == at' = "drain" /\ cur' = {} /\ older' = 0

(* New mail comes without an archived file, but for the newest of the      *)
(* inbox. *)
FetchNew(t) ==
    /\ t.type = "FetchNew"
    /\ Finished
    /\ outcome' = [outcome EXCEPT ![t.account] = "fetched"]
    /\ \/ UNCHANGED <<raw, events>>
       \/ raw[t.account] < MaxRaw /\ Event /\ raw' = [raw EXCEPT ![t.account] = MaxRaw]
    /\ UNCHANGED <<heap, waiting, failed, jobs, diffs, llm, expunge>>

(* FetchBodies, RefreshFingerprint, GenerateAiSummary: nothing comes back. *)
Simple(t) == /\ t.type \in {"FetchBodies", "RefreshFingerprint", "GenerateAiSummary"}
             /\ Finished
             /\ UNCHANGED <<heap, round, jobs, work, llm, expunge, events>>

Least(m, n) == IF m < n THEN m ELSE n

(* The task asks for itself again while something is left.  (Mutant:       *)
(* without looking.)                                                       *)
LeftUnseen(n) == TRUE
Left(n) == n > 0

(* Up to DiffBatch diffs are analyzed, as far as the model answers; while  *)
(* some are left the task asks for itself again (a second later).          *)
AnalyzeDiff(t) ==
    /\ t.type = "AnalyzeDiff"
    /\ Finished
    /\ LET most == IF llm THEN Least(diffs, DiffBatch) ELSE 0
       IN \/ diffs' = diffs - most /\ UNCHANGED events
          \/ most > 0 /\ Event /\ diffs' = diffs - (most - 1)
    /\ heap' = IF Left(diffs')
               THEN Append(heap, [t EXCEPT !.retries = 1, !.priority = 3])
               ELSE heap
    /\ UNCHANGED <<round, jobs, raw, llm, expunge>>

(* Up to MailBatch mails get their file; while any mail of the account is  *)
(* without one, also in folders kept only in Relay, the task asks for      *)
(* itself again.                                                           *)
BackfillEmails(t) ==
    /\ t.type = "BackfillEmails"
    /\ Finished
    /\ LET a == t.account
           most == Least(raw[a], MailBatch)
       IN /\ \/ raw' = [raw EXCEPT ![a] = @ - most] /\ UNCHANGED events
             \/ most > 0 /\ Event /\ raw' = [raw EXCEPT ![a] = @ - (most - 1)]
          /\ heap' = IF Left(raw'[a]) \/ a \in KeptLocal
                     THEN Append(heap, Tasked(a, "BackfillEmails", 3))
                     ELSE heap
    /\ UNCHANGED <<round, jobs, diffs, llm, expunge>>

(* An error: the task comes back, one priority lower, as old as it was,    *)
(* until it was tried max_retries + 1 times.  (Mutants: never; one time    *)
(* too many.)                                                              *)
AgainNever(t) == FALSE
AgainOnceMore(t) == t.retries <= MaxRetries[t.type]
Again(t) == t.retries < MaxRetries[t.type]

Fails(t) ==
    /\ Event
    /\ Finished
    /\ failed' = IF t.type = "FetchNew" THEN [failed EXCEPT ![t.account] = @ + 1] ELSE failed
    /\ heap' = IF Again(t)
               THEN InsertAt(heap, older + 1,
                             [t EXCEPT !.retries = @ + 1,
                                       !.priority = IF @ = 0 THEN 0 ELSE @ - 1])
               ELSE heap
    /\ UNCHANGED <<waiting, outcome, jobs, work, llm, expunge>>

process_sync_task == /\ at = "work"
                     /\ \E t \in cur : \/ FetchNew(t) \/ Simple(t) \/ AnalyzeDiff(t)
                                       \/ BackfillEmails(t) \/ Fails(t)

-----------------------------------------------------------------------------
(* After the tasks: what is due; after a start only what "unwrap_or(true)" *)
(* makes so.  The others, the refresh of read marks among them, have timers*)
(* that only a run of theirs would set: they are never due.                *)
DueAtStart == {"retention", "removal", "expunge"}

Due(j) == IF j \in never THEN j \in DueAtStart ELSE age[j] >= Every[j]

Run(some) == /\ never' = {j \in never : j \notin some \/ ~Due(j)}
             /\ age' = [j \in Jobs |-> IF j \in some /\ Due(j) THEN 0 ELSE age[j]]

RunJobs == /\ at = "jobs"
           /\ Run(Jobs \ {"expunge"})
           /\ at' = "ops"
           /\ UNCHANGED <<heap, cur, older, round, work, llm, expunge, events>>

(* run_provider_ops: the mail is marked \Deleted, or the op fails (maybe   *)
(* only its answer is lost) and waits for a later round.                   *)
MarkDeleted ==
    /\ at = "ops" /\ op # "none"
    /\ \/ at' = "marked" /\ flagged' = TRUE /\ UNCHANGED events
       \/ at' = "flush" /\ flagged' \in {flagged, TRUE} /\ Event
    /\ UNCHANGED <<heap, cur, older, round, jobs, work, llm, op, pending, listed, lost>>

NoOps == /\ at = "ops" /\ op = "none"
         /\ at' = "flush"
         /\ UNCHANGED <<heap, cur, older, round, jobs, work, llm, expunge, events>>

(* An op by number is done first, one by Message-ID registered first.      *)
mark_done == /\ \/ at = "marked" /\ op = "delete" /\ at' = "unlisted"
                \/ at = "listed" /\ at' = "flush"
             /\ op' = "none"
             /\ UNCHANGED <<heap, cur, older, round, jobs, work, llm, flagged, pending, listed, lost, events>>

(* The folder is registered in memory and in the table.  (Mutant: in       *)
(* memory only.)                                                           *)
InMemory(b) == listed
InTable(b) == b

expunge_vormerken ==
    /\ \/ at = "marked" /\ op = "delete_mid" /\ at' = "listed"
       \/ at = "unlisted" /\ at' = "flush"
    /\ pending' = TRUE /\ listed' = InTable(TRUE)
    /\ UNCHANGED <<heap, cur, older, round, jobs, work, llm, op, flagged, lost, events>>

FlushDue == /\ at = "flush"
            /\ Run({"expunge"})
            /\ IF Due("expunge")
               THEN at' = (IF pending \/ listed THEN "expunge" ELSE "sleep") /\ pending' = FALSE
               ELSE at' = "sleep" /\ UNCHANGED pending
            /\ UNCHANGED <<heap, cur, older, round, work, llm, op, flagged, listed, lost, events>>

(* run_periodic_expunge: there is no client; it works; it fails.           *)
expunge_folder ==
    /\ at = "expunge"
    /\ \/ at' = "sleep" /\ Event /\ UNCHANGED <<flagged, pending>>
       \/ at' = "erledigt" /\ flagged' = FALSE /\ UNCHANGED <<pending, events>>
       \/ at' = "sleep" /\ Event /\ pending' = TRUE /\ flagged' \in {flagged, FALSE}
    /\ UNCHANGED <<heap, cur, older, round, jobs, work, llm, op, listed, lost>>

expunge_erledigt == /\ at = "erledigt"
                    /\ listed' = FALSE
                    /\ at' = "sleep"
                    /\ UNCHANGED <<heap, cur, older, round, jobs, work, llm, op, flagged, pending, lost, events>>

(* A round later. *)
Sleep == /\ at = "sleep"
         /\ NewRound
         /\ age' = [j \in Jobs |-> IF j \in never THEN 0 ELSE Least(age[j] + 1, Every[j])]
         /\ UNCHANGED <<heap, cur, older, never, work, llm, expunge, events>>

(* A restart, or the loop is stopped (start_periodic_sync drops the round  *)
(* it is in) and the server started again: what was only in memory is gone.*)
Restart == /\ Event
           /\ NewRound
           /\ heap' = <<>> /\ cur' = {} /\ older' = 0 /\ pending' = FALSE
           /\ never' = Jobs /\ age' = [j \in Jobs |-> 0]
           /\ lost' = (lost \/ at = "unlisted")
           /\ UNCHANGED <<work, llm, op, flagged, listed>>

Loop == \/ \E a \in Accounts : idle_wait(a)
        \/ EnqueueBackground \/ dequeue \/ Drained \/ process_sync_task
        \/ RunJobs \/ MarkDeleted \/ NoOps \/ mark_done \/ expunge_vormerken
        \/ FlushDue \/ expunge_folder \/ expunge_erledigt \/ Sleep

Next == Api \/ Loop \/ Restart

Spec == Init /\ [][Next]_vars

(* The loop runs on; nothing else has to happen. *)
FairSpec == Spec /\ WF_vars(Loop)

-----------------------------------------------------------------------------
TypeOK == /\ heap \in Seq(Task) /\ cur \subseteq Task /\ older \in Nat
          /\ at \in {"idle", "drain", "work", "jobs", "ops", "marked", "unlisted", "listed",
                     "flush", "expunge", "erledigt", "sleep"}
          /\ waiting \subseteq Accounts
          /\ outcome \in [Accounts -> {"open", "unreachable", "fetched"}]
          /\ failed \in [Accounts -> 0 .. FetchRetries + 1]
          /\ never \subseteq Jobs /\ \A j \in Jobs : age[j] \in 0 .. Every[j]
          /\ diffs \in 0 .. MaxEvents /\ llm \in BOOLEAN
          /\ raw \in [Accounts -> 0 .. MaxRaw]
          /\ op \in {"none", "delete", "delete_mid"}
          /\ flagged \in BOOLEAN /\ pending \in BOOLEAN /\ listed \in BOOLEAN /\ lost \in BOOLEAN
          /\ events \in 0 .. MaxEvents

(***************************************************************************)
(* A round leaves no account out: when its tasks are done, every account   *)
(* was fetched, or could not be reached before the fetch, or the fetch was *)
(* tried and failed as often as it may - whatever else is in the queue and *)
(* whatever handlers put there meanwhile.                                  *)
(***************************************************************************)
NoAccountLeftOut == at = "jobs" => \A a \in Accounts :
    outcome[a] # "open" \/ failed[a] = FetchRetries + 1

(***************************************************************************)
(* New mail comes first: no background task (bodies, diffs, fingerprints,  *)
(* backfill, summaries) is begun while an account's fetch waits, the first *)
(* or a repeated one, although handlers queue such tasks before it.        *)
(***************************************************************************)
MailFirst == at = "work" => \A t \in cur : t.type # "FetchNew" =>
    \A i \in DOMAIN heap : heap[i].type # "FetchNew"

(***************************************************************************)
(* Two tasks may ask for themselves without end: the analysis of diffs no  *)
(* model answers for, and a backfill that counts mails it never fetches.   *)
(***************************************************************************)
Endless == \/ ~llm /\ diffs > 0
           \/ \E t \in cur \cup ToSet(heap) : t.type = "BackfillEmails" /\ t.account \in KeptLocal

(***************************************************************************)
(* Apart from these the rounds go on, so that the delete queue, the ops,   *)
(* the jobs and the next fetch have their turn: no mix of tasks, retries,  *)
(* requests and restarts keeps the queue from running empty.               *)
(***************************************************************************)
RoundsGoOn == []<>(at = "sleep") \/ <>[]Endless

(***************************************************************************)
(* What the comments on the two tasks say ("each cycle processes up to 3", *)
(* "small batches so a single sync cycle stays bounded"): every round that *)
(* works its queue off comes to its end.                                   *)
(***************************************************************************)
EveryRoundEnds == at = "drain" ~> at \in {"jobs", "idle"}

(***************************************************************************)
(* A mail marked \Deleted is expunged in the end, also when the server is  *)
(* restarted between marking, registering and EXPUNGE - except between     *)
(* "done" and registering an op by number, and while no round ends.        *)
(***************************************************************************)
MarkedIsExpunged == (flagged ~> ~flagged \/ lost) \/ <>[]Endless
=============================================================================
