------------------------------ MODULE Outgoing ------------------------------
(***************************************************************************)
(* Mails on their way out: the outbox of the web client, which collects    *)
(* what was sent offline and sends it when the connection is back          *)
(* (web/src/routes/+page.svelte), and send_message, which hands a mail to  *)
(* SMTP, learns from it and stores a copy (server/src/api/send.rs).  The   *)
(* way between the two may break after the server did its work, and the    *)
(* provider may accept a mail and not live to say so.                      *)
(***************************************************************************)
EXTENDS Naturals, Sequences, SequencesExt, FiniteSets

CONSTANTS Mails,
          Runs,      \* runs of the "online" handler; a connection lost and found again starts another
          None,
          MaxSends   \* bound: mails handed to SMTP

NoneAssumption == None \notin Mails
RunsAssumption == "page" \notin Runs /\ IsFiniteSet(Runs)
BoundAssumption == MaxSends \in Nat

VARIABLES mode,        \* sync_mode of the account: "archive" or "mirror"
          outbox,      \* queued mails (IndexedDB), in order of their ids
          list,        \* what each run of the handler read and has not done yet
          request,     \* the request of each run, and of the page
          delivered,   \* how often the provider took each mail
          learned,     \* how often its text went into the tone profile and the snippets
          diffs,       \* how often the change to the draft of the model was queued
          rows, files, appended,  \* copies: rows of "Gesendet", EML files, mails at the provider
          sends,
          disturbed,   \* history: an answer was lost, or two runs had the same mail
          answer       \* history: what the server said in the end of each mail

copies == <<rows, files, appended>>
effects == <<learned, diffs, copies>>
history == <<sends, disturbed, answer>>
vars == <<mode, outbox, list, request, delivered, effects, history>>

Callers == Runs \cup {"page"}
NoRequest == [mail |-> None, step |-> "none"]
Count == [Mails -> 0 .. MaxSends]
Plus(c, m) == [c EXCEPT ![m] = @ + 1]

TypeOK == /\ mode \in {"archive", "mirror"}
          /\ outbox \in Seq(Mails) /\ list \in [Runs -> Seq(Mails)]
          /\ request \in [Callers -> [mail : Mails \cup {None},
                                      step : {"none", "smtp", "learn", "row", "file", "append",
                                              "saved", "unsaved", "error"}]]
          /\ {delivered, learned, diffs, rows, files, appended} \subseteq Count
          /\ sends \in 0 .. MaxSends /\ disturbed \in BOOLEAN
          /\ answer \in [Mails -> {"none", "saved", "unsaved"}]

Init == /\ mode \in {"archive", "mirror"}
        /\ outbox = <<>> /\ list = [r \in Runs |-> <<>>]
        /\ request = [c \in Callers |-> NoRequest]
        /\ LET none == [m \in Mails |-> 0]
           IN /\ delivered = none /\ learned = none /\ diffs = none
              /\ rows = none /\ files = none /\ appended = none
        /\ sends = 0 /\ disturbed = FALSE /\ answer = [m \in Mails |-> "none"]

InFlight(m) == \E c \in Callers : request[c].mail = m
Unsent(m) == answer[m] = "none" /\ m \notin Range(outbox) /\ ~InFlight(m)
Goes(c, s) == request' = [request EXCEPT ![c].step = s]

-----------------------------------------------------------------------------
(* The web client.  handleSend queues a mail offline and sends it online;  *)
(* after an error the page still shows it and the user may try again.      *)
queueDraft(m) == /\ Unsent(m) /\ request["page"] = NoRequest
                 /\ outbox' = Append(outbox, m)
                 /\ UNCHANGED <<mode, list, request, delivered, effects, history>>
Post(c, m) == /\ sends < MaxSends /\ sends' = sends + 1
              /\ request' = [request EXCEPT ![c] = [mail |-> m, step |-> "smtp"]]
handleSend(m) == /\ Unsent(m) /\ request["page"] = NoRequest
                 /\ Post("page", m)
                 /\ UNCHANGED <<mode, outbox, list, delivered, effects, disturbed, answer>>

(* The listener of the event "online" reads the whole outbox; nothing keeps*)
(* a second one from reading it while the first is under way.              *)
Online(r) == /\ list[r] = <<>> /\ request[r] = NoRequest /\ outbox # <<>>
             /\ list' = [list EXCEPT ![r] = outbox]
             /\ disturbed' = (disturbed \/ \E o \in Runs \ {r} : list[o] # <<>> \/ request[o] # NoRequest)
             /\ UNCHANGED <<mode, outbox, request, delivered, effects, sends, answer>>
SendNext(r) == /\ list[r] # <<>> /\ request[r] = NoRequest
               /\ Post(r, Head(list[r]))
               /\ UNCHANGED <<mode, outbox, list, delivered, effects, disturbed, answer>>

(* What the client does with an answer: a mail that was sent is deleted    *)
(* from the outbox by its id, if it is still there.  (Mutants: it stays    *)
(* there; an error is taken for a success.)                                *)
IdOf(m) == CHOOSE i \in DOMAIN outbox : outbox[i] = m
Keep(m) == UNCHANGED outbox
Forget(m) == outbox' = IF m \in Range(outbox) THEN RemoveAt(outbox, IdOf(m)) ELSE outbox
AnyAnswer(s) == TRUE
Success(s) == s \in {"saved", "unsaved"}
Done(c) == /\ request' = [request EXCEPT ![c] = NoRequest]
           /\ list' = [r \in Runs |-> IF r = c THEN Tail(list[r]) ELSE list[r]]
Answered(c) == /\ request[c].step \in {"saved", "unsaved", "error"}
               /\ IF c \in Runs /\ Success(request[c].step) THEN Forget(request[c].mail)
                  ELSE UNCHANGED outbox
               /\ answer' = IF request[c].step = "error" THEN answer
                            ELSE [answer EXCEPT ![request[c].mail] = request[c].step]
               /\ Done(c)
               /\ UNCHANGED <<mode, delivered, effects, sends, disturbed>>
(* The answer does not come through: for the client an error. *)
Lost(c) == /\ request[c].step \in {"saved", "unsaved"}
           /\ disturbed' = TRUE
           /\ Done(c)
           /\ UNCHANGED <<mode, outbox, delivered, effects, sends, answer>>

-----------------------------------------------------------------------------
(* send_message.                                                           *)
CopyStep == IF mode = "archive" THEN "row" ELSE "append"
SmtpAccepts(c) == Goes(c, "learn") /\ delivered' = Plus(delivered, request[c].mail)
send(c) == /\ request[c].step = "smtp"
           /\ \/ SmtpAccepts(c) /\ UNCHANGED disturbed
              \/ Goes(c, "error") /\ UNCHANGED <<delivered, disturbed>>
              \/ Goes(c, "error") /\ delivered' = Plus(delivered, request[c].mail) /\ disturbed' = TRUE
           /\ UNCHANGED <<mode, outbox, list, effects, sends, answer>>

(* Profile, snippets and contacts, each in its own turn and none of them   *)
(* able to fail the request; the difference to the draft of the model only *)
(* for the mail that had one, which the outbox does not keep.              *)
Learn(c) == /\ request[c].step = "learn"
            /\ learned' = Plus(learned, request[c].mail)
            /\ \/ c = "page" /\ diffs' = Plus(diffs, request[c].mail)
               \/ UNCHANGED diffs
            /\ Goes(c, CopyStep)
            /\ UNCHANGED <<mode, outbox, list, delivered, copies, history>>

(* In archive mode row and file may each fail; the answer is "saved" either*)
(* way.  The file is named by the answer of the SMTP server.               *)
GesendetRow(c) == /\ request[c].step = "row"
                  /\ rows' = Plus(rows, request[c].mail) \/ UNCHANGED rows
                  /\ Goes(c, "file")
                  /\ UNCHANGED <<mode, outbox, list, delivered, learned, diffs, files, appended, history>>
GesendetFile(c) == /\ request[c].step = "file"
                   /\ files' = Plus(files, request[c].mail) \/ UNCHANGED files
                   /\ Goes(c, "saved")
                   /\ UNCHANGED <<mode, outbox, list, delivered, learned, diffs, rows, appended, history>>
(* In mirror mode the mail is appended to the folder of sent mails, if a   *)
(* session and the folder are there; the append may end in an error with   *)
(* its work done.                                                          *)
append_message(c) == /\ request[c].step = "append"
                     /\ \/ Goes(c, "saved") /\ appended' = Plus(appended, request[c].mail)
                        \/ Goes(c, "unsaved") /\ appended' = Plus(appended, request[c].mail)
                        \/ Goes(c, "unsaved") /\ UNCHANGED appended
                     /\ UNCHANGED <<mode, outbox, list, delivered, learned, diffs, rows, files, history>>

(* The server stops; who waits for it gets an error. *)
Restart == /\ \E c \in Callers : request[c].step \notin {"none", "error"}
           /\ request' = [c \in Callers |-> IF request[c].step = "none" THEN NoRequest
                                            ELSE [request[c] EXCEPT !.step = "error"]]
           /\ disturbed' = TRUE
           /\ UNCHANGED <<mode, outbox, list, delivered, effects, sends, answer>>

Serve(c) == \/ send(c) \/ Learn(c) \/ GesendetRow(c) \/ GesendetFile(c) \/ append_message(c)
Next == \/ \E m \in Mails : queueDraft(m) \/ handleSend(m)
        \/ \E r \in Runs : Online(r) \/ SendNext(r)
        \/ \E c \in Callers : Serve(c) \/ Answered(c) \/ Lost(c)
        \/ Restart
Spec == Init /\ [][Next]_vars

-----------------------------------------------------------------------------
(* Properties.                                                             *)

(* A mail leaves the outbox only when the provider has it.                 *)
LosesNothing == \A m \in Mails : m \in Range(outbox) /\ m \notin Range(outbox') => delivered[m] > 0
NothingLost == [][LosesNothing]_vars

(* A mail goes out twice only after an answer was lost, or when the event  *)
(* "online" came again while the outbox was being sent.                    *)
TwiceOnlyDisturbed == \A m \in Mails : delivered[m] > 1 => disturbed

=============================================================================
