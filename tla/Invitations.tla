----------------------------- MODULE Invitations -----------------------------
(***************************************************************************)
(* Invitations by mail (imip/, api/invitations.rs) to one event, the       *)
(* user's own or somebody else's.  Invitations and answers are mails; they *)
(* arrive with the synchronisation of a folder, so not always in the order *)
(* they were sent in, and a folder numbered anew brings them again.        *)
(***************************************************************************)
EXTENDS Naturals, Sequences

CONSTANTS People,     \* other people who may be invited
          Me,
          MaxMails,   \* bound: mails that come in
          MaxErrors,  \* bound: calls that fail
          MaxRequests \* bound: requests of the user, and mails that come again

InvitationsAssumption == Me \notin People /\ {MaxMails, MaxErrors, MaxRequests} \subseteq Nat

VARIABLES own,        \* the event is the user's own
          event,      \* Relay's row of the event
          server,     \* the event at the CalDAV provider
          invitation, \* status in the table invitations, "none" without a row
          mails, handled,
          request,
          invited, replied, \* who got an invitation, what the organiser got from the user
          answer,     \* the last answer of each person
          crossed,    \* people whose answers may be shown wrong: see the property
          errors, requests
vars == <<own, event, server, invitation, mails, handled, request, invited, replied, answer, crossed, errors, requests>>

Everyone == People \cup {Me}
Decisions == {"ACCEPTED", "DECLINED"}
Stats == Decisions \cup {"none", "NEEDS-ACTION"}
Nobody == [p \in Everyone |-> "none"]
Event == [there : BOOLEAN, url : BOOLEAN, organized : BOOLEAN, cancelled : BOOLEAN, sequence : 0 .. MaxMails,
          attendees : [Everyone -> Stats]]
NoEvent == [there |-> FALSE, url |-> FALSE, organized |-> FALSE, cancelled |-> FALSE, sequence |-> 0,
            attendees |-> Nobody]
MyEvent == [NoEvent EXCEPT !.there = TRUE, !.url = TRUE]
NoRequest == [step |-> "none", people |-> {}, todo |-> {}, decision |-> "ACCEPTED", queue |-> FALSE]

TypeOK == /\ own \in BOOLEAN /\ event \in Event /\ server \in Event /\ invitation \in [Everyone -> Stats]
          /\ mails \in Seq([method : {"REQUEST", "REPLY", "CANCEL"}, from : Everyone, stat : Stats])
          /\ handled \subseteq 1 .. Len(mails) /\ Len(mails) <= MaxMails
          /\ request \in [step : {"none", "send", "rows", "put", "save", "reply", "mark", "queue"},
                          people : SUBSET People, todo : SUBSET People, decision : Decisions, queue : BOOLEAN]
          /\ invited \subseteq People /\ replied \subseteq Decisions /\ answer \in [People -> Stats]
          /\ crossed \subseteq People /\ errors \in 0 .. MaxErrors /\ requests \in 0 .. MaxRequests

Init == /\ own \in BOOLEAN /\ event = (IF own THEN MyEvent ELSE NoEvent) /\ server = event
        /\ invitation = Nobody
        /\ mails = <<>> /\ handled = {} /\ request = NoRequest
        /\ invited = {} /\ replied = {} /\ answer = [p \in People |-> "none"]
        /\ crossed = {} /\ errors = 0 /\ requests = 0

Fails == errors < MaxErrors /\ errors' = errors + 1
Asked == requests < MaxRequests /\ requests' = requests + 1
Is(step) == request.step = step
Go(step) == request' = [request EXCEPT !.step = step]
End == request' = NoRequest
Arrives(mail) == Len(mails) < MaxMails /\ mails' = Append(mails, mail)

-----------------------------------------------------------------------------
(* Other people: the organiser invites, reschedules and cancels; a person  *)
(* invited answers, and may answer again.                                  *)
Announce(method) == /\ ~own /\ Arrives([method |-> method, from |-> Me, stat |-> "none"])
                    /\ UNCHANGED <<own, event, server, invitation, handled, request, invited, replied, answer,
                                   crossed, errors, requests>>
Answer(p, d) == /\ p \in invited /\ answer[p] # d /\ Arrives([method |-> "REPLY", from |-> p, stat |-> d])
                /\ answer' = [answer EXCEPT ![p] = d]
                /\ UNCHANGED <<own, event, server, invitation, handled, request, invited, replied, crossed, errors,
                               requests>>

-----------------------------------------------------------------------------
(* A mail comes in, in any order, sometimes again.                         *)
StoreRequest(i) ==
    LET new == [event EXCEPT !.there = TRUE, !.organized = TRUE, !.cancelled = FALSE, !.sequence = i]
    IN /\ \/ /\ ~event.there /\ UNCHANGED errors      \* not known: it is put to the provider first
             /\ server' = [new EXCEPT !.url = TRUE] /\ event' = [new EXCEPT !.url = TRUE]
          \/ /\ ~event.there /\ Fails /\ event' = new
             /\ server' = [new EXCEPT !.url = TRUE] \/ UNCHANGED server
          \/ event.there /\ event' = new /\ UNCHANGED <<server, errors>>
       /\ invitation' = [invitation EXCEPT ![Me] = IF @ = "none" THEN "NEEDS-ACTION" ELSE @]
handle_request(i) == /\ StoreRequest(i) \/ UNCHANGED <<event, server, invitation, errors>>  \* no calendar for it
                     /\ UNCHANGED crossed
(* (Mutant: the first answer stays.)                                       *)
FirstReply(mail) == IF invitation[mail.from] \in Decisions THEN invitation[mail.from] ELSE mail.stat
Reply(mail) == mail.stat
handle_reply(i) ==
    LET p == mails[i].from
        late == \E j \in handled : j >= i /\ mails[j].from = p
    IN /\ invitation' = [invitation EXCEPT ![p] = Reply(mails[i])]
       /\ event' = IF event.there /\ event.attendees[p] # "none"
                   THEN [event EXCEPT !.attendees[p] = mails[i].stat] ELSE event
       /\ crossed' = IF late THEN crossed \cup {p} ELSE crossed
       /\ UNCHANGED <<server, errors>>
handle_cancel(i) == /\ event' = IF event.there THEN [event EXCEPT !.cancelled = TRUE] ELSE event
                    /\ UNCHANGED <<server, invitation, crossed, errors>>
process_inbound_ics(i) ==
    /\ CASE mails[i].method = "REQUEST" -> handle_request(i)
         [] mails[i].method = "REPLY" -> handle_reply(i)
         [] OTHER -> handle_cancel(i)
    /\ handled' = handled \cup {i} /\ UNCHANGED <<own, mails, request, invited, replied, answer>>
Fetch(i) == i \notin handled /\ process_inbound_ics(i) /\ UNCHANGED requests
FetchAgain(i) == i \in handled /\ Asked /\ process_inbound_ics(i)
(* A synchronisation of the calendar stores what the provider has.         *)
Sync == /\ server.there /\ event' = server
        /\ UNCHANGED <<own, server, invitation, mails, handled, request, invited, replied, answer, crossed, errors,
                       requests>>

-----------------------------------------------------------------------------
(* Inviting people: a mail to each, until one fails; then the rows, the    *)
(* provider, the event.                                                    *)
invite_event(who) ==
    /\ own /\ event.there /\ Is("none") /\ Asked
    /\ request' = [NoRequest EXCEPT !.step = "send", !.people = who, !.todo = who]
    /\ UNCHANGED <<own, event, server, invitation, mails, handled, invited, replied, answer, crossed, errors>>
send_invitation(p) ==
    /\ Is("send") /\ p \in request.todo
    /\ \/ request' = [request EXCEPT !.todo = @ \ {p}] /\ invited' = invited \cup {p} /\ UNCHANGED errors
       \/ Fails /\ End /\ (invited' = invited \cup {p} \/ UNCHANGED invited)
    /\ UNCHANGED <<own, event, server, invitation, mails, handled, replied, answer, crossed, requests>>
upsert_invitations ==
    /\ Is("send") /\ request.todo = {} /\ Go("put")
    /\ invitation' = [p \in Everyone |-> IF p \in request.people THEN "NEEDS-ACTION" ELSE invitation[p]]
    /\ crossed' = crossed \cup {p \in request.people : answer[p] # "none"}
    /\ UNCHANGED <<own, event, server, mails, handled, invited, replied, answer, errors, requests>>
WithPeople(e) == [e EXCEPT !.organized = TRUE,
                           !.attendees = [p \in Everyone |-> IF p \in request.people THEN "NEEDS-ACTION" ELSE "none"]]
persist_event ==
    /\ Is("put")
    /\ \/ server' = WithPeople(server) /\ Go("save") /\ UNCHANGED errors
       \/ Fails /\ End /\ (server' = WithPeople(server) \/ UNCHANGED server)
    /\ UNCHANGED <<own, event, invitation, mails, handled, invited, replied, answer, crossed, requests>>
Save == /\ Is("save") /\ End /\ event' = WithPeople(event)
        /\ UNCHANGED <<own, server, invitation, mails, handled, invited, replied, answer, crossed, errors, requests>>

-----------------------------------------------------------------------------
(* Answering: the mail to the organiser; the user's status; asked from the *)
(* queue, then every status of the event that still waits, whoever's it is.*)
Rsvp(d, queue) ==
    /\ event.there /\ event.organized /\ Is("none") /\ Asked
    /\ request' = [NoRequest EXCEPT !.step = "reply", !.decision = d, !.queue = queue]
    /\ UNCHANGED <<own, event, server, invitation, mails, handled, invited, replied, answer, crossed, errors>>
accept_invitation == Rsvp("ACCEPTED", TRUE)
decline_invitation == Rsvp("DECLINED", TRUE)
rsvp_event(d) == Rsvp(d, FALSE)
(* (Mutant: the status is set whether the mail went out or not.)           *)
Regardless == Go("mark")
NotSent == End
send_rsvp == /\ Is("reply")
             /\ \/ Go("mark") /\ replied' = replied \cup {request.decision} /\ UNCHANGED errors
                \/ Fails /\ NotSent /\ (replied' = replied \cup {request.decision} \/ UNCHANGED replied)
             /\ UNCHANGED <<own, event, server, invitation, mails, handled, invited, answer, crossed, requests>>
update_rsvp_status ==
    /\ Is("mark") /\ IF request.queue THEN Go("queue") ELSE End
    /\ invitation' = [invitation EXCEPT ![Me] = IF @ = "none" THEN @ ELSE request.decision]
    /\ event' = IF event.there /\ event.attendees[Me] # "none"
                THEN [event EXCEPT !.attendees[Me] = request.decision] ELSE event
    /\ UNCHANGED <<own, server, mails, handled, invited, replied, answer, crossed, errors, requests>>
do_rsvp == /\ Is("queue") /\ End
           /\ invitation' = [p \in Everyone |-> IF invitation[p] = "NEEDS-ACTION" THEN request.decision ELSE invitation[p]]
           /\ crossed' = crossed \cup {p \in People : invitation[p] = "NEEDS-ACTION"}
           /\ UNCHANGED <<own, event, server, mails, handled, invited, replied, answer, errors, requests>>

Next == \/ Announce("REQUEST") \/ Announce("CANCEL")
        \/ \E p \in People, d \in Decisions : Answer(p, d)
        \/ \E i \in 1 .. Len(mails) : Fetch(i) \/ FetchAgain(i)
        \/ Sync
        \/ (\E who \in SUBSET People \ {{}} : invite_event(who)) \/ (\E p \in People : send_invitation(p))
        \/ upsert_invitations \/ persist_event \/ Save
        \/ accept_invitation \/ decline_invitation \/ (\E d \in Decisions : rsvp_event(d))
        \/ send_rsvp \/ update_rsvp_status \/ do_rsvp
Spec == Init /\ [][Next]_vars

-----------------------------------------------------------------------------
(* Property: when every mail is handled and no request is under way, the   *)
(* status of a person invited is the last answer given - unless answers    *)
(* came in the wrong order, or one came before the rows were written, or   *)
(* the user accepted the invitation to the own event from the queue; and   *)
(* a decision shown as the user's was sent to the organiser.               *)
StatusAsAnswered ==
    /\ (Is("none") /\ handled = 1 .. Len(mails))
       => \A p \in People \ crossed : answer[p] # "none" => invitation[p] = answer[p]
    /\ ~own /\ invitation[Me] \in Decisions => invitation[Me] \in replied
=============================================================================
