----------------------------- MODULE MCProgress -----------------------------
(***************************************************************************)
(* What must happen in the end, in the components that share nothing: as in*)
(* MCComponents a behaviour is one of one part, here under the fairness    *)
(* that part states.  The others stand still in their initial state, in    *)
(* which nothing is asked of them.                                         *)
(***************************************************************************)
EXTENDS Naturals, Sequences

CONSTANTS u1, b1, s1, m1, m2, e1, o1, p1, r1, r2, q1, t1, f1, inbox, work, nothing

VARIABLES part,
          ai_breaker, ai_current, ai_uses, ai_at, ai_attempt,
          sw_rows, sw_next, sw_model, sw_channel, sw_round, sw_boot, sw_step, sw_job, sw_read, sw_events,
          le_diffs, le_drafts, le_portrait, le_task, le_list, le_outages,
          is_slot, is_tracker, is_connected, is_opLock, is_connLock, is_at, is_want, is_thread, is_ping, is_wrong,
          is_disturbed,
          ca_server, ca_row, ca_urlless, ca_collection, ca_account, ca_sync, ca_request, ca_served, ca_version,
          ca_switches, ca_errors,
          ta_google, ta_server, ta_row, ta_series, ta_sync, ta_request, ta_mine, ta_untold, ta_parted, ta_version, ta_errors,
          mt_file, mt_row, mt_ignored, mt_scan, mt_version,
          id_file, id_row, id_run, id_made, id_twice, id_excused, id_unread, id_abandoned, id_version, id_errors, id_calls,
          id_crashes

aiVars == <<ai_breaker, ai_current, ai_uses, ai_at, ai_attempt>>
swVars == <<sw_rows, sw_next, sw_model, sw_channel, sw_round, sw_boot, sw_step, sw_job, sw_read, sw_events>>
leVars == <<le_diffs, le_drafts, le_portrait, le_task, le_list, le_outages>>
isVars == <<is_slot, is_tracker, is_connected, is_opLock, is_connLock, is_at, is_want, is_thread, is_ping,
            is_wrong, is_disturbed>>
caVars == <<ca_server, ca_row, ca_urlless, ca_collection, ca_account, ca_sync, ca_request, ca_served,
            ca_version, ca_switches, ca_errors>>
taVars == <<ta_google, ta_server, ta_row, ta_series, ta_sync, ta_request, ta_mine, ta_untold, ta_parted, ta_version,
            ta_errors>>
mtVars == <<mt_file, mt_row, mt_ignored, mt_scan, mt_version>>
idVars == <<id_file, id_row, id_run, id_made, id_twice, id_excused, id_unread, id_abandoned, id_version, id_errors,
            id_calls, id_crashes>>
all == <<part, aiVars, swVars, leVars, isVars, caVars, taVars, mtVars, idVars>>

-----------------------------------------------------------------------------
Ai == INSTANCE AiGateway WITH
             breaker <- ai_breaker, current <- ai_current, uses <- ai_uses, at <- ai_at, attempt <- ai_attempt,
             Users <- {u1}, Background <- {b1}, Streams <- {s1}, Threshold <- 2, MaxRetries <- 1, MaxClients <- 1
Sw == INSTANCE SummaryWorker WITH
             rows <- sw_rows, next <- sw_next, model <- sw_model, channel <- sw_channel, round <- sw_round, boot <-
             sw_boot, step <- sw_step, job <- sw_job, read <- sw_read, events <- sw_events,
             Mails <- {m1, m2}, None <- nothing, Capacity <- 1, CatchUp <- 2, MaxEvents <- 1
Le == INSTANCE Learning WITH
             diffs <- le_diffs, drafts <- le_drafts, portrait <- le_portrait, task <- le_task, list <- le_list,
             outages <- le_outages,
             Keep <- 3, Batch <- 2, Hints <- 2, MaxDrafts <- 4, MaxOutages <- 1
Is == INSTANCE ImapSlots WITH
             slot <- is_slot, tracker <- is_tracker, connected <- is_connected, opLock <- is_opLock, connLock <-
             is_connLock, at <- is_at, want <- is_want, thread <- is_thread, ping <- is_ping, wrong <- is_wrong,
             disturbed <- is_disturbed,
             Ops <- {o1}, Others <- {p1}, Folders <- {inbox, work}, Inbox <- inbox, None <- nothing
Ca == INSTANCE Calendars WITH
             server <- ca_server, row <- ca_row, urlless <- ca_urlless, collection <- ca_collection, account <-
             ca_account, sync <- ca_sync, request <- ca_request, served <- ca_served, version <- ca_version, switches
             <- ca_switches, errors <- ca_errors,
             Events <- {e1}, Runs <- {r1, r2}, Ticker <- r1, MaxVersion <- 2, MaxSwitches <- 1, MaxErrors <- 0
Ta == INSTANCE Tasks WITH
             google <- ta_google, server <- ta_server, row <- ta_row, series <- ta_series, sync <- ta_sync, request <-
             ta_request, mine <- ta_mine, untold <- ta_untold, parted <- ta_parted, version <- ta_version, errors <- ta_errors,
             Todos <- {t1}, Runs <- {r1}, Ticker <- r1, Requests <- {q1}, MaxVersion <- 3, MaxErrors <- 1
Mt == INSTANCE Meetings WITH
             file <- mt_file, row <- mt_row, ignored <- mt_ignored, scan <- mt_scan, version <- mt_version,
             Memos <- {f1}, Scans <- {r1, r2}, Ticker <- r1, MaxVersion <- 3
Id == INSTANCE Ideas WITH
             file <- id_file, row <- id_row, run <- id_run, made <- id_made, twice <- id_twice, excused <- id_excused, unread <- id_unread,
             abandoned <- id_abandoned, version <- id_version, errors <- id_errors, calls <- id_calls, crashes <-
             id_crashes,
             Memos <- {f1}, Runs <- {r1, r2}, Ticker <- r1, Attempts <- 2, MaxVersion <- 1, MaxErrors <- 1, MaxCalls <- 0,
             MaxCrashes <- 1
-----------------------------------------------------------------------------
Init == /\ part \in {"ai", "summaries", "learning", "imap", "calendars", "tasks", "meetings", "ideas"}
        /\ Ai!Init
        /\ Sw!Init
        /\ Le!Init
        /\ Is!Init
        /\ Ca!Init
        /\ Ta!Init
        /\ Mt!Init
        /\ Id!Init
        /\ part # "summaries" => ~sw_model
        /\ part # "tasks" => ~ta_google
        /\ ta_series = {}      \* no successor with one task

InAi(A) == /\ part = "ai" /\ A
           /\ UNCHANGED <<part, swVars, leVars, isVars, caVars, taVars, mtVars, idVars>>
InSw(A) == /\ part = "summaries" /\ A
           /\ UNCHANGED <<part, aiVars, leVars, isVars, caVars, taVars, mtVars, idVars>>
InLe(A) == /\ part = "learning" /\ A
           /\ UNCHANGED <<part, aiVars, swVars, isVars, caVars, taVars, mtVars, idVars>>
InIs(A) == /\ part = "imap" /\ A
           /\ UNCHANGED <<part, aiVars, swVars, leVars, caVars, taVars, mtVars, idVars>>
InCa(A) == /\ part = "calendars" /\ A
           /\ UNCHANGED <<part, aiVars, swVars, leVars, isVars, taVars, mtVars, idVars>>
InTa(A) == /\ part = "tasks" /\ A
           /\ UNCHANGED <<part, aiVars, swVars, leVars, isVars, caVars, mtVars, idVars>>
InMt(A) == /\ part = "meetings" /\ A
           /\ UNCHANGED <<part, aiVars, swVars, leVars, isVars, caVars, taVars, idVars>>
InId(A) == /\ part = "ideas" /\ A
           /\ UNCHANGED <<part, aiVars, swVars, leVars, isVars, caVars, taVars, mtVars>>

Next == \/ InAi(Ai!Next)
        \/ InSw(Sw!Next)
        \/ InLe(Le!Next)
        \/ InIs(Is!Next)
        \/ InCa(Ca!Next)
        \/ InTa(Ta!Next)
        \/ InMt(Mt!Next)
        \/ InId(Id!Next)

(* The fairness of the parts.  Only one part moves, so parts can share a   *)
(* conjunct: in each behaviour it speaks of that part alone.               *)
Fair1 == \/ InAi(Ai!Works(u1))
         \/ InSw(Sw!Take \/ Sw!Summarized \/ Sw!Suggested)
         \/ InLe(Le!Analyzed \/ Le!get_hints_for_synthesis \/ Le!Synthesized)
         \/ InIs(Is!Operation(o1))
         \/ InCa(Ca!start_caldav_sync(r1)) \/ InTa(Ta!sync_todos(r1)) \/ InMt(Mt!ReadDrop(r1)) \/ InId(Id!spawn_loop)
Fair2 == \/ InAi(Ai!Works(b1))
         \/ InIs(Is!Other(p1))
         \/ InCa(Ca!Work(r1)) \/ InTa(Ta!Work(r1)) \/ InMt(Mt!run_insilo_scan(r1)) \/ InId(Id!Work(r1))
Fair3 == \/ InAi(Ai!Works(s1))
         \/ InCa(Ca!Work(r2)) \/ InTa(Ta!Handle(q1)) \/ InMt(Mt!run_insilo_scan(r2)) \/ InId(Id!Work(r2))
Fair4 == InCa(Ca!Handle) \/ InMt(Mt!Settle(f1)) \/ InId(Id!Due(f1))
Again1 == InSw(Sw!Send) \/ InLe(Le!AnalyzeDiff) \/ InId(Id!Quarter(f1))
Again2 == InSw(Sw!SendBoot) \/ InLe(Le!RefreshFingerprint)
Fairness == /\ WF_all(Fair1) /\ WF_all(Fair2) /\ WF_all(Fair3) /\ WF_all(Fair4)
            /\ SF_all(Again1) /\ SF_all(Again2)
Spec == Init /\ [][Next]_all /\ Fairness

-----------------------------------------------------------------------------
(* The properties of the modules. *)

\* Every request to the model comes back, with an answer, an error or busy (ai/client.rs).
RequestsEnd == Ai!RequestsEnd

\* The round never waits for ever for room in the channel of the summary worker (sync/scheduler.rs).
RoundGoesOn == Sw!RoundGoesOn

\* A changed draft is learned from, through outages of the model (cache/learning.rs).
DraftsLearned == Le!DraftsLearned

\* An IMAP operation comes back; op_lock and connect_lock never wait in a circle (imap/client.rs).
OpsEnd == Is!OpsEnd

\* A memo that waits becomes tasks, through failing attempts and restarts (cache/ideas.rs).
IdeasBecomeTasks == Id!IdeasBecomeTasks

(* Calendars, tasks and meetings agree with their source in the end: the   *)
(* synchronisation heals whatever raced, failed or was stored too late.    *)
AgreesInTheEnd == Ca!EventsComeRight /\ Ta!TasksComeRight /\ Mt!MeetingsComeRight
=============================================================================
