--------------------------- MODULE SummaryWorker ---------------------------
(***************************************************************************)
(* The dedicated worker for summaries, fraud scores and suggested actions  *)
(* (process_ai_summary, run_ai_summary_worker), the bounded channel it     *)
(* reads, and the two that fill it: the round of the synchronisation and   *)
(* the catch-up after a start (sync/scheduler.rs).  A job names a mail by  *)
(* folder and number; while it waits, and while the model thinks, the user *)
(* moves mails, and numbers come to stand for other mails.                 *)
(***************************************************************************)
EXTENDS Naturals, Sequences, SequencesExt, FiniteSets

CONSTANTS Mails, None,
          Capacity,     \* of the channel (512 in the code)
          CatchUp,      \* mails of an account the catch-up looks at (200)
          MaxEvents     \* bound: moves by the user, and restarts

BoundsAssumption == /\ Capacity \in Nat \ {0} /\ CatchUp \in Nat \ {0} /\ MaxEvents \in Nat
                    /\ IsFiniteSet(Mails)
NoneAssumption == None \notin Mails

VARIABLES rows,     \* the table messages: where a mail is and what was derived
          next,     \* next number of each folder
          model,    \* a model is configured
          channel,  \* jobs, at most Capacity
          round,    \* jobs the round has still to send; it waits while there are any
          boot,     \* and the catch-up
          step,     \* the worker: "idle", "summary" or "actions" (the model thinks)
          job,      \* the number it works at
          read,     \* the mail it read there
          events

queue == <<channel, round, boot>>
worker == <<step, job, read>>
vars == <<rows, next, model, queue, worker, events>>

Folders == {"INBOX", "Work"}
MaxUid == Cardinality(Mails) + MaxEvents
Job == [folder : Folders, uid : 1 .. MaxUid]
Derived == Mails \cup {None, "no text"}
Row == [folder : Folders \cup {"none"}, uid : 0 .. MaxUid, body : BOOLEAN,
        summary : Derived, fraud : Derived, actions : Derived]
NoJob == [folder |-> "INBOX", uid |-> 1]

TypeOK == /\ rows \in [Mails -> Row]
          /\ next \in [Folders -> 1 .. MaxUid + 1] /\ model \in BOOLEAN
          /\ channel \in Seq(Job) /\ Len(channel) <= Capacity
          /\ round \in Seq(Job) /\ boot \in Seq(Job)
          /\ step \in {"idle", "summary", "actions"} /\ job \in Job \cup {NoJob}
          /\ read \in Mails \cup {None}
          /\ events \in 0 .. MaxEvents

Init == /\ rows = [m \in Mails |-> [folder |-> "none", uid |-> 0, body |-> FALSE,
                                    summary |-> None, fraud |-> None, actions |-> None]]
        /\ next = [f \in Folders |-> 1] /\ model \in BOOLEAN
        /\ channel = <<>> /\ round = <<>> /\ boot = <<>>
        /\ step = "idle" /\ job = NoJob /\ read = None
        /\ events = 0

Event == events < MaxEvents /\ events' = events + 1
At(j) == {m \in Mails : rows[m].folder = j.folder /\ rows[m].uid = j.uid}
JobOf(m) == [folder |-> rows'[m].folder, uid |-> rows'[m].uid]

-----------------------------------------------------------------------------
(* FetchNew: the body of a mail in the inbox is loaded with it (or that    *)
(* fails), that of other mails later; all go to the worker.                *)
FetchNew(m, f) ==
    /\ round = <<>> /\ rows[m].folder = "none"
    /\ \E body \in IF f = "INBOX" THEN BOOLEAN ELSE {FALSE} :
          rows' = [rows EXCEPT ![m].folder = f, ![m].uid = next[f], ![m].body = body]
    /\ next' = [next EXCEPT ![f] = @ + 1]
    /\ round' = Append(round, JobOf(m))
    /\ UNCHANGED <<model, channel, boot, worker, events>>

(* FetchBodies: nobody tells the worker. *)
FetchBodies(m) == /\ rows[m].folder # "none" /\ ~rows[m].body
                  /\ rows' = [rows EXCEPT ![m].body = TRUE]
                  /\ UNCHANGED <<next, model, queue, worker, events>>

(* ai_tx.send().await: the round waits for a place in the channel.         *)
Send == /\ round # <<>> /\ Len(channel) < Capacity
        /\ channel' = Append(channel, Head(round)) /\ round' = Tail(round)
        /\ UNCHANGED <<rows, next, model, boot, worker, events>>
SendBoot == /\ boot # <<>> /\ Len(channel) < Capacity
            /\ channel' = Append(channel, Head(boot)) /\ boot' = Tail(boot)
            /\ UNCHANGED <<rows, next, model, round, worker, events>>

(* The user moves a mail: its row takes its number along, or a free one.   *)
Move(m, f) ==
    /\ Event
    /\ rows[m].folder \in Folders \ {f}
    /\ LET u == IF At([folder |-> f, uid |-> rows[m].uid]) = {} THEN rows[m].uid ELSE next[f]
       IN /\ rows' = [rows EXCEPT ![m].folder = f, ![m].uid = u]
          /\ next' = [next EXCEPT ![f] = IF u < @ THEN @ ELSE u + 1]
    /\ UNCHANGED <<model, queue, worker>>

-----------------------------------------------------------------------------
(* The worker.                                                             *)

(* update_ai_fraud: by account and number, whatever the folder. *)
Scored(R, j, t) == [m \in Mails |-> IF R[m].folder # "none" /\ R[m].uid = j.uid
                                    THEN [R[m] EXCEPT !.fraud = t] ELSE R[m]]

(* After the summary: suggestions for a mail of the inbox with a body, as  *)
(* it is now; without a model there are none.                              *)
Suggest(R, j) ==
    LET M == {m \in Mails : R[m].folder = j.folder /\ R[m].uid = j.uid /\ R[m].body}
    IN IF j.folder = "INBOX" /\ M # {} /\ model
       THEN step' = "actions" /\ read' = CHOOSE m \in M : TRUE
       ELSE step' = "idle" /\ read' = None

(* A job is taken: the score for fraud at once, the model only where there *)
(* is a body and no summary yet; without a body nothing comes of the job.  *)
Process(j) ==
    LET R == Scored(rows, j, IF At(j) = {} THEN "no text" ELSE CHOOSE m \in At(j) : TRUE)
        M == {m \in At(j) : rows[m].body}
    IN /\ rows' = R /\ job' = j
       /\ IF model /\ \E m \in M : rows[m].summary = None
          THEN step' = "summary" /\ read' = CHOOSE m \in M : TRUE
          ELSE Suggest(R, j)
TakeFound == /\ step = "idle" /\ channel # <<>> /\ At(Head(channel)) # {}
             /\ channel' = Tail(channel) /\ Process(Head(channel))
             /\ UNCHANGED <<next, model, round, boot, events>>
Take == /\ step = "idle" /\ channel # <<>>
        /\ channel' = Tail(channel) /\ Process(Head(channel))
        /\ UNCHANGED <<next, model, round, boot, events>>

(* update_ai_summary, update_ai_priority: where the number is now.  An     *)
(* error or a busy model leaves no summary, and nobody asks again.         *)
Stored(R, j, m) == [n \in Mails |-> IF R[n].uid = j.uid /\ R[n].folder = j.folder
                                    THEN [R[n] EXCEPT !.summary = m] ELSE R[n]]
Summarized ==
    /\ step = "summary"
    /\ \E R \in {rows, Stored(rows, job, read)} : rows' = R /\ Suggest(R, job)
    /\ UNCHANGED <<next, model, queue, job, events>>

(* set_ai_followups_by_folder_id, if the model answered in form. *)
Suggested ==
    /\ step = "actions"
    /\ \/ UNCHANGED rows
       \/ rows' = [n \in Mails |-> IF n \in At(job) THEN [rows[n] EXCEPT !.actions = read]
                                   ELSE rows[n]]
    /\ step' = "idle" /\ read' = None
    /\ UNCHANGED <<next, model, queue, job, events>>

(* A restart: the channel and who waited for it are gone; the catch-up     *)
(* collects the inbox anew.                                                *)
Missing == {m \in Mails : /\ rows[m].folder = "INBOX" /\ rows[m].body
                          /\ rows[m].summary = None \/ rows[m].actions = None}
run_inbox_ai_catch_up ==
    \E S \in SUBSET Missing :
       /\ Cardinality(S) = IF Cardinality(Missing) < CatchUp THEN Cardinality(Missing) ELSE CatchUp
       /\ boot' = [i \in 1 .. Cardinality(S) |->
                     LET m == SetToSeq(S)[i] IN [folder |-> rows[m].folder, uid |-> rows[m].uid]]
Restart == /\ Event
           /\ channel' = <<>> /\ round' = <<>>
           /\ run_inbox_ai_catch_up
           /\ step' = "idle" /\ job' = NoJob /\ read' = None
           /\ UNCHANGED <<rows, next, model>>

Next == \/ Send \/ SendBoot \/ Take \/ Summarized \/ Suggested \/ Restart
        \/ \E m \in Mails, f \in Folders : FetchNew(m, f) \/ Move(m, f)
        \/ \E m \in Mails : FetchBodies(m)

(* The worker runs on, calls of the model end, and the senders are served  *)
(* in the order they came (tokio's channel is fair).                       *)
Fairness == /\ WF_vars(Take) /\ WF_vars(Summarized) /\ WF_vars(Suggested)
            /\ SF_vars(Send) /\ SF_vars(SendBoot)
Spec == Init /\ [][Next]_vars /\ Fairness

-----------------------------------------------------------------------------
(* Properties.                                                             *)

(* The round never waits for ever behind the model: a full channel drains, *)
(* since the worker gives up on errors and never sends to itself.          *)
RoundGoesOn == round # <<>> ~> round = <<>>
=============================================================================
