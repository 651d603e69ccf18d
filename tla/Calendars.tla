----------------------------- MODULE Calendars -----------------------------
(***************************************************************************)
(* The events of a CalDAV account (api/calendars.rs, dav/caldav.rs,        *)
(* dav/scheduler.rs, cache/cal.rs) and its switch (api/konto_dav.rs).      *)
(* Every synchronisation is a full one: it reads event by event, without   *)
(* any lock, and stores what it read at the end; the ticker, "refresh" and *)
(* the switch each start one.  Requests of the user go to the server first *)
(* and to Relay's rows when the server has answered.                       *)
(***************************************************************************)
EXTENDS Naturals, FiniteSets

CONSTANTS Events, Runs, Ticker,   \* synchronisations that may be under way at once
          MaxVersion,             \* bound: versions of events, each a change of one event
          MaxSwitches, MaxErrors  \* bounds: the account switched on or off, calls that fail

CalendarsAssumption == /\ Ticker \in Runs /\ Events # {}
                       /\ MaxVersion \in Nat /\ MaxSwitches \in Nat /\ MaxErrors \in Nat

VARIABLES server,     \* the version of each event at the provider, 0 when it is not there
          row,        \* the version Relay shows, 0 when it shows none
          urlless,    \* rows that were imported and have no URL
          collection, \* Relay has the row of the calendar
          account,    \* the account is switched on
          sync, request,
          served,     \* versions of each event the provider has or has had
          version, switches, errors
counters == <<version, switches, errors>>
vars == <<server, row, urlless, collection, account, sync, request, served, counters>>

NoEvents == [e \in Events |-> 0]
Idle == [step |-> "idle", todo |-> {}, got |-> NoEvents]
NoRequest == [step |-> "none", event |-> CHOOSE e \in Events : TRUE, version |-> 0, url |-> FALSE]

TypeOK == /\ server \in [Events -> 0 .. MaxVersion] /\ row \in [Events -> 0 .. MaxVersion]
          /\ urlless \subseteq Events /\ collection \in BOOLEAN /\ account \in BOOLEAN
          /\ sync \in [Runs -> [step : {"idle", "discover", "fetch", "collections"},
                                todo : SUBSET Events, got : [Events -> 0 .. MaxVersion]]]
          /\ request \in [step : {"none", "create", "update", "import", "save", "delete", "drop", "off"},
                          event : Events, version : 0 .. MaxVersion, url : BOOLEAN]
          /\ served \in [Events -> SUBSET (1 .. MaxVersion)]
          /\ version \in 0 .. MaxVersion /\ switches \in 0 .. MaxSwitches /\ errors \in 0 .. MaxErrors

Init == /\ server = NoEvents /\ row = NoEvents /\ urlless = {} /\ collection = FALSE /\ account = TRUE
        /\ sync = [r \in Runs |-> Idle] /\ request = NoRequest
        /\ served = [e \in Events |-> {}]
        /\ version = 0 /\ switches = 0 /\ errors = 0

NewVersion == version < MaxVersion /\ version' = version + 1
Fails == errors < MaxErrors /\ errors' = errors + 1
Serve(e, v) == /\ server' = [server EXCEPT ![e] = v]
               /\ served' = IF v = 0 THEN served ELSE [served EXCEPT ![e] = @ \cup {v}]

(* Another program adds, changes or deletes an event.                      *)
Elsewhere(e) == /\ \/ NewVersion /\ Serve(e, version + 1)
                   \/ NewVersion /\ server[e] # 0 /\ Serve(e, 0)
                /\ UNCHANGED <<row, urlless, collection, account, sync, request, switches, errors>>

-----------------------------------------------------------------------------
(* A synchronisation (do_caldav_sync_account), with the settings it was    *)
(* started with: the calendars, their events one by one - one that cannot  *)
(* be read is left out -, the calendars once more, then all is stored.     *)
Starts(r) == sync[r].step = "idle" /\ sync' = [sync EXCEPT ![r] = [Idle EXCEPT !.step = "discover"]]
start_caldav_sync(r) == /\ account /\ Starts(r)
                        /\ UNCHANGED <<server, row, urlless, collection, account, request, served, counters>>
discover_calendars(r) ==
    /\ sync[r].step = "discover"
    /\ \/ /\ sync' = [sync EXCEPT ![r].step = "fetch", ![r].todo = {e \in Events : server[e] # 0}]
          /\ UNCHANGED errors
       \/ Fails /\ sync' = [sync EXCEPT ![r] = Idle]
    /\ UNCHANGED <<server, row, urlless, collection, account, request, served, version, switches>>
fetch_event(r, e) ==
    /\ sync[r].step = "fetch" /\ e \in sync[r].todo
    /\ \/ /\ sync' = [sync EXCEPT ![r].todo = @ \ {e}, ![r].got[e] = server[e]]
          /\ UNCHANGED errors
       \/ Fails /\ sync' = [sync EXCEPT ![r].todo = @ \ {e}]
    /\ UNCHANGED <<server, row, urlless, collection, account, request, served, version, switches>>
Fetched(r) == /\ sync[r].step = "fetch" /\ sync[r].todo = {}
              /\ sync' = [sync EXCEPT ![r].step = "collections"]
              /\ UNCHANGED <<server, row, urlless, collection, account, request, served, counters>>
(* The rows of what was read; a row whose event was not read stays as it   *)
(* is.  Nothing is stored when the calendars cannot be read again.         *)
(* (Mutant: a row that is there already is kept.)                          *)
KeepOld(r) == [e \in Events |-> IF row[e] = 0 THEN sync[r].got[e] ELSE row[e]]
save_event(r) == [e \in Events |-> IF sync[r].got[e] = 0 THEN row[e] ELSE sync[r].got[e]]
Store(r) ==
    /\ sync[r].step = "collections" /\ sync' = [sync EXCEPT ![r] = Idle]
    /\ \/ /\ row' = save_event(r) /\ collection' = TRUE
          /\ urlless' = {e \in urlless : sync[r].got[e] = 0}
          /\ UNCHANGED errors
       \/ Fails /\ UNCHANGED <<row, collection, urlless>>
    /\ UNCHANGED <<server, account, request, served, version, switches>>

-----------------------------------------------------------------------------
(* Requests: one at a time, with what synchronisations do in between.      *)
Begin(step, e, v, url) == /\ request = NoRequest
                          /\ request' = [step |-> step, event |-> e, version |-> v, url |-> url]
                          /\ UNCHANGED <<server, row, urlless, collection, account, sync, served, switches, errors>>
Never(e) == served[e] = {} /\ row[e] = 0
create_event(e) == collection /\ account /\ Never(e) /\ NewVersion /\ Begin("create", e, version + 1, TRUE)
import_events(e) == collection /\ Never(e) /\ NewVersion /\ Begin("import", e, version + 1, TRUE)
update_event(e) == row[e] # 0 /\ NewVersion /\ Begin("update", e, version + 1, e \notin urlless)
delete_event(e) == row[e] # 0 /\ Begin("delete", e, 0, e \notin urlless) /\ UNCHANGED version

End == request' = NoRequest
To(step) == request' = [request EXCEPT !.step = step]
(* The PUT: it may fail, with or without having been stored; the error     *)
(* ends the request, except for an import, whose row has no address then.  *)
(* Without its account an event is only changed in Relay.                  *)
Failed == IF request.step = "import" THEN request' = [request EXCEPT !.step = "save", !.url = FALSE] ELSE End
Put == LET e == request.event
       IN /\ request.step \in {"create", "update", "import"}
          /\ \/ account /\ request.url /\ Serve(e, request.version) /\ To("save") /\ UNCHANGED errors
             \/ /\ account /\ request.url /\ Fails /\ Failed
                /\ UNCHANGED <<server, served>> \/ Serve(e, request.version)
             \/ account /\ ~request.url /\ End /\ UNCHANGED <<server, served, errors>>
             \/ /\ ~account /\ UNCHANGED <<server, served, errors>>
                /\ IF request.step = "update" THEN To("save") ELSE Failed
          /\ UNCHANGED <<row, urlless, collection, account, sync, version, switches>>
save_event_row == /\ request.step = "save" /\ End
                  /\ row' = IF collection THEN [row EXCEPT ![request.event] = request.version] ELSE row
                  /\ urlless' = IF request.url \/ ~collection THEN urlless \ {request.event}
                                                              ELSE urlless \cup {request.event}
                  /\ UNCHANGED <<server, collection, account, sync, served, counters>>
Delete == /\ request.step = "delete"
          /\ \/ /\ account /\ request.url /\ server[request.event] # 0
                /\ Serve(request.event, 0) /\ To("drop") /\ UNCHANGED errors
             \/ /\ account /\ request.url /\ Fails /\ End
                /\ \/ UNCHANGED <<server, served>> \/ Serve(request.event, 0)
             \/ /\ account /\ (request.url => server[request.event] = 0) /\ End
                /\ UNCHANGED <<server, served, errors>>         \* no such event, no address
             \/ ~account /\ To("drop") /\ UNCHANGED <<server, served, errors>>
          /\ UNCHANGED <<row, urlless, collection, account, sync, version, switches>>
Drop == /\ request.step = "drop" /\ End
        /\ row' = [row EXCEPT ![request.event] = 0] /\ urlless' = urlless \ {request.event}
        /\ UNCHANGED <<server, collection, account, sync, served, counters>>

(* Switched off: the rows go, then the account.  Switched on: the account, *)
(* and a first synchronisation of its own.                                 *)
delete_caldav_account ==
    /\ account /\ request = NoRequest /\ switches < MaxSwitches /\ switches' = switches + 1
    /\ row' = NoEvents /\ urlless' = {} /\ collection' = FALSE
    /\ request' = [NoRequest EXCEPT !.step = "off"]
    /\ UNCHANGED <<server, account, sync, served, version, errors>>
store_accounts == /\ request.step = "off" /\ account' = FALSE /\ End
                  /\ UNCHANGED <<server, row, urlless, collection, sync, served, counters>>
schalten(r) == /\ ~account /\ request = NoRequest /\ switches < MaxSwitches /\ switches' = switches + 1
               /\ account' = TRUE /\ Starts(r)
               /\ UNCHANGED <<server, row, urlless, collection, request, served, version, errors>>

Work(r) == \/ discover_calendars(r) \/ Fetched(r) \/ Store(r) \/ \E e \in Events : fetch_event(r, e)
Handle == Put \/ save_event_row \/ Delete \/ Drop \/ store_accounts
Next == \/ \E e \in Events : \/ Elsewhere(e) \/ create_event(e) \/ import_events(e)
                             \/ update_event(e) \/ delete_event(e)
        \/ \E r \in Runs : start_caldav_sync(r) \/ Work(r) \/ schalten(r)
        \/ delete_caldav_account \/ Handle

(* The ticker comes again and again; what was begun goes on.  Nobody has   *)
(* to press anything.                                                      *)
Spec == /\ Init /\ [][Next]_vars
        /\ WF_vars(start_caldav_sync(Ticker)) /\ \A r \in Runs : WF_vars(Work(r))
        /\ WF_vars(Handle)

-----------------------------------------------------------------------------
(* Properties.                                                             *)

(* An account that stays on shows what the provider has: an event that     *)
(* stays there comes, and in the version that is there, whatever late      *)
(* synchronisation or request stored an older one meanwhile.               *)
EventsComeRight == \A e \in Events : <>[](account /\ server[e] # 0) => <>[](row[e] = server[e])

=============================================================================
