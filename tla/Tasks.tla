------------------------------- MODULE Tasks -------------------------------
(***************************************************************************)
(* Tasks (api/todos.rs, cache/todo.rs) kept at a CalDAV provider or in     *)
(* Google Tasks (google/aufgaben.rs).  A change is written to Relay's row  *)
(* first; then the row is read again and written to the provider, and if   *)
(* that fails nobody tries again; of some changes the provider is never    *)
(* told.  Every synchronisation stores what it read over the rows,         *)
(* whatever was changed in them meanwhile.                                 *)
(***************************************************************************)
EXTENDS Naturals, FiniteSets

CONSTANTS Todos, Runs, Ticker,  \* synchronisations that may be under way at once
          Requests,             \* requests that may be under way at once
          MaxVersion,           \* bound: versions of tasks, and tasks deleted or merged
          MaxErrors             \* bound: calls that fail

TasksAssumption == Ticker \in Runs /\ Todos # {} /\ MaxVersion \in Nat /\ MaxErrors \in Nat

VARIABLES google,    \* the tasks are Google's
          server,    \* the version of each task at the provider, 0 when it is not there
          row,       \* the version in Relay's row, 0 when there is none
          series,    \* recurring tasks: their done versions have a successor
          sync, request,
          mine,      \* the number of the user's last change or deletion of each task
          untold,    \* tasks whose last change is one the code sends to nobody
          parted,    \* tasks with a failed call, crossed changes, or a store in between
          version, errors
vars == <<google, server, row, series, sync, request, mine, untold, parted, version, errors>>

None == [t \in Todos |-> 0]
Idle == [step |-> "idle", todo |-> {}, got |-> None]
NoRequest == [step |-> "none", todo |-> CHOOSE t \in Todos : TRUE, other |-> CHOOSE t \in Todos : TRUE, value |-> 0]
Steps == {"none", "create", "insert", "patch", "fields", "read", "write", "done", "done write", "next", "delete", "drop",
          "twin", "drop twin"}

TypeOK == /\ google \in BOOLEAN /\ server \in [Todos -> 0 .. MaxVersion] /\ row \in [Todos -> 0 .. MaxVersion]
          /\ series \subseteq Todos
          /\ sync \in [Runs -> [step : {"idle", "list", "fetch", "store"}, todo : SUBSET Todos,
                                got : [Todos -> 0 .. MaxVersion]]]
          /\ request \in [Requests -> [step : Steps, todo : Todos, other : Todos, value : 0 .. MaxVersion]]
          /\ mine \in [Todos -> 0 .. MaxVersion] /\ untold \subseteq Todos /\ parted \subseteq Todos
          /\ version \in 0 .. MaxVersion /\ errors \in 0 .. MaxErrors

Init == /\ google \in BOOLEAN /\ server = None /\ row = None /\ series \in SUBSET Todos
        /\ sync = [r \in Runs |-> Idle] /\ request = [q \in Requests |-> NoRequest]
        /\ mine = None /\ untold = {} /\ parted = {} /\ version = 0 /\ errors = 0

Fails == errors < MaxErrors /\ errors' = errors + 1
NewVersion == version < MaxVersion /\ version' = version + 1
Serve(t, v) == server' = [server EXCEPT ![t] = v]
Elsewhere(t) == /\ NewVersion /\ (Serve(t, version + 1) \/ (server[t] # 0 /\ Serve(t, 0)))
                /\ UNCHANGED <<google, row, series, sync, request, mine, untold, parted, errors>>

-----------------------------------------------------------------------------
(* A synchronisation: CalDAV reads object by object, Google list by list;  *)
(* then everything is stored in one go.  No row is ever removed.           *)
Step(r, new) == sync' = [sync EXCEPT ![r] = new]
sync_todos(r) == /\ sync[r].step = "idle" /\ Step(r, [Idle EXCEPT !.step = "list"])
                 /\ UNCHANGED <<google, server, row, series, request, mine, untold, parted, version, errors>>
abgleichen(r) == google /\ Step(r, [sync[r] EXCEPT !.step = "store", !.got = server])
fetch_all_todos(r) == ~google /\ Step(r, [sync[r] EXCEPT !.step = "fetch", !.todo = {t \in Todos : server[t] # 0}])
List(r) ==
    /\ sync[r].step = "list"
    /\ \/ (abgleichen(r) \/ fetch_all_todos(r)) /\ UNCHANGED errors
       \/ Fails /\ Step(r, Idle)
    /\ UNCHANGED <<google, server, row, series, request, mine, untold, parted, version>>
fetch_event(r, t) ==
    /\ sync[r].step = "fetch" /\ t \in sync[r].todo
    /\ \/ Step(r, [sync[r] EXCEPT !.todo = @ \ {t}, !.got[t] = server[t]]) /\ UNCHANGED errors
       \/ Fails /\ Step(r, [sync[r] EXCEPT !.todo = @ \ {t}])
    /\ UNCHANGED <<google, server, row, series, request, mine, untold, parted, version>>
Fetched(r) == /\ sync[r].step = "fetch" /\ sync[r].todo = {} /\ Step(r, [sync[r] EXCEPT !.step = "store"])
              /\ UNCHANGED <<google, server, row, series, request, mine, untold, parted, version, errors>>
(* (Mutant: a row is not written over.)                                    *)
KeepOld(r) == [t \in Todos |-> IF row[t] = 0 THEN sync[r].got[t] ELSE row[t]]
upsert_todo(r) == [t \in Todos |-> IF sync[r].got[t] = 0 THEN row[t] ELSE sync[r].got[t]]
(* A change that is in its row and not yet read for the provider.          *)
Pending(t) == \E q \in Requests : /\ request[q].step \in {"fields", "read"} /\ request[q].todo = t
                                  /\ request[q].value # 0
Store(r) == /\ sync[r].step = "store" /\ Step(r, Idle) /\ row' = upsert_todo(r)
            /\ parted' = parted \cup {t \in Todos : Pending(t) /\ row'[t] # row[t]}
            /\ UNCHANGED <<google, server, series, request, mine, untold, version, errors>>

-----------------------------------------------------------------------------
(* Requests.                                                               *)
Is(q, step) == request[q].step = step
Req(q, new) == request' = [request EXCEPT ![q] = new]
Go(q, step) == Req(q, [request[q] EXCEPT !.step = step])
End(q) == Req(q, NoRequest)
Ask(q, step, t, other, value) ==
    /\ Is(q, "none") /\ Req(q, [step |-> step, todo |-> t, other |-> other, value |-> value])
    /\ UNCHANGED <<google, server, row, series, sync, mine, untold, parted, errors>>
Fresh(t) == server[t] = 0 /\ row[t] = 0 /\ mine[t] = 0 /\ \A q \in Requests : t \notin {request[q].todo, request[q].other}
                                        \/ Is(q, "none")
(* Creating (im_ziel_anlegen): at the provider, then the row.              *)
create_todo(q, t) == Fresh(t) /\ Ask(q, "create", t, t, 0) /\ UNCHANGED version
quick_add_todo(q, t) == create_todo(q, t)        \* from one line of text
im_ziel_anlegen(q) ==
    /\ Is(q, "create") /\ NewVersion
    /\ \/ /\ Serve(request[q].todo, version + 1) /\ UNCHANGED errors
          /\ Req(q, [request[q] EXCEPT !.step = "insert", !.value = version + 1])
       \/ /\ Fails /\ End(q) /\ (Serve(request[q].todo, version + 1) \/ UNCHANGED server)
    /\ UNCHANGED <<google, row, series, sync, mine, untold, parted>>
Insert(q) == /\ Is(q, "insert") /\ row' = [row EXCEPT ![request[q].todo] = request[q].value] /\ End(q)
             /\ UNCHANGED <<google, server, series, sync, mine, untold, parted, version, errors>>
(* Changing: the box and the fields, one after the other, in the row; the  *)
(* row as it is then; the provider.                                        *)
toggle_todo(q, t) == /\ row[t] # 0 /\ UNCHANGED version
                     /\ Ask(q, "patch", t, t, 0) \/ Ask(q, "fields", t, t, 0)      \* with the box, or without
(* New labels, task by task, as if the user had changed each.              *)
consolidate_todos(q, t) == toggle_todo(q, t)
Patch(q) == LET t == request[q].todo
            IN /\ NewVersion /\ row[t] # 0 /\ row' = [row EXCEPT ![t] = version + 1]
               /\ mine' = [mine EXCEPT ![t] = version + 1] /\ untold' = untold \ {t}
               /\ UNCHANGED <<google, server, series, sync, parted, errors>>
Pass(q, step) == Go(q, step) /\ UNCHANGED <<google, server, row, series, sync, mine, untold, parted, version, errors>>
set_completed(q) == /\ Is(q, "patch")
                    /\ \/ Patch(q) /\ Req(q, [request[q] EXCEPT !.step = "fields", !.value = version + 1])
                       \/ row[request[q].todo] = 0 /\ Pass(q, "fields")
update_todo(q) == /\ Is(q, "fields")
                  /\ \/ Patch(q) /\ Req(q, [request[q] EXCEPT !.step = "read", !.value = version + 1])
                     \/ Pass(q, "read")      \* no field given, or no such row
(* A due date that cannot be read: an error, after the box was changed.    *)
parse_due(q) ==
    LET t == request[q].todo
    IN /\ Is(q, "fields") /\ End(q)
       /\ untold' = IF request[q].value # 0 /\ request[q].value = mine[t] THEN untold \cup {t} ELSE untold
       /\ UNCHANGED <<google, server, row, series, sync, mine, parted, version, errors>>
find_todo(q) == LET t == request[q].todo
                IN /\ Is(q, "read")
                   /\ IF row[t] = 0
                      THEN End(q) /\ parted' = IF request[q].value = 0 THEN parted ELSE parted \cup {t}
                      ELSE Req(q, [request[q] EXCEPT !.step = "write", !.value = row[t]]) /\ UNCHANGED parted
                   /\ UNCHANGED <<google, server, row, series, sync, mine, untold, version, errors>>
(* What is written: the row as it was read a moment ago.                   *)
(* (Mutant: the task is left as it is at the provider, as if only the row  *)
(* had to change.)                                                         *)
Unwritten(q) == server[request[q].todo]
Written(q) == request[q].value
WriteBack(q) ==
    LET t == request[q].todo
        late == mine[t] > request[q].value
    IN /\ Is(q, "write") /\ End(q)
       /\ \/ /\ ~(google /\ server[t] = 0) /\ Serve(t, Written(q)) /\ UNCHANGED errors
             /\ parted' = IF late THEN parted \cup {t} ELSE parted
          \* Google has no such task, or the row has gone before its url is read
          \/ (IF google THEN server[t] = 0 ELSE row[t] = 0) /\ parted' = parted \cup {t} /\ UNCHANGED <<server, errors>>
          \/ /\ Fails /\ parted' = parted \cup {t}
             /\ Serve(t, request[q].value) \/ UNCHANGED server        \* only logged
       /\ UNCHANGED <<google, row, series, sync, mine, untold, version>>
(* Done with a successor (succeed_todo): the row; Google is told of a      *)
(* recurring task, with the fields found at first, nobody else is; then    *)
(* the successor, a new task.                                              *)
succeed_todo(q, t, new) == row[t] # 0 /\ Fresh(new) /\ new # t /\ Ask(q, "done", t, new, row[t]) /\ UNCHANGED version
Told(t) == google /\ t \in series
MarkDone(q) ==
    LET t == request[q].todo
    IN /\ Is(q, "done") /\ NewVersion
       /\ IF row[t] = 0 THEN UNCHANGED <<row, mine, untold, parted>>
          ELSE /\ row' = [row EXCEPT ![t] = version + 1] /\ mine' = [mine EXCEPT ![t] = version + 1]
               /\ untold' = IF Told(t) THEN untold \ {t} ELSE untold \cup {t}
               /\ parted' = IF row[t] = request[q].value THEN parted ELSE parted \cup {t}
       /\ IF t \in series
          THEN Req(q, [request[q] EXCEPT !.step = IF google THEN "done write" ELSE "next", !.value = version + 1])
          ELSE End(q)
       /\ UNCHANGED <<google, server, series, sync, errors>>
TellGoogle(q) == LET t == request[q].todo
                     late == mine[t] > request[q].value
                 IN /\ Is(q, "done write") /\ Go(q, "next")
                    /\ \/ /\ row[t] # 0 /\ server[t] # 0 /\ Serve(t, request[q].value) /\ UNCHANGED errors
                          /\ parted' = IF late THEN parted \cup {t} ELSE parted
                       \/ (row[t] = 0 \/ server[t] = 0) /\ parted' = parted \cup {t} /\ UNCHANGED <<server, errors>>
                       \/ /\ Fails /\ parted' = parted \cup {t}
                          /\ (server[t] # 0 /\ Serve(t, request[q].value)) \/ UNCHANGED server
                    /\ UNCHANGED <<google, row, series, sync, mine, untold, version>>
Successor(q) == /\ Is(q, "next")
                /\ Req(q, [request[q] EXCEPT !.step = "create", !.todo = request[q].other])
                /\ series' = series \cup {request[q].other}
                /\ UNCHANGED <<google, server, row, sync, mine, untold, parted, version, errors>>
(* Deleting: at Google, then the row; over CalDAV only the row.  It has    *)
(* its number from when it is asked for.                                   *)
Mine(q, t) == mine' = [mine EXCEPT ![t] = request[q].value]
delete_todo(q, t) == row[t] # 0 /\ NewVersion /\ Ask(q, IF google THEN "delete" ELSE "drop", t, t, version + 1)
loeschen(q) == LET t == request[q].todo
               IN /\ Is(q, "delete")
                  /\ \/ Serve(t, 0) /\ Mine(q, t) /\ Go(q, "drop") /\ UNCHANGED errors
                     \/ Fails /\ End(q) /\ (Serve(t, 0) \/ UNCHANGED server) /\ UNCHANGED mine
                  /\ UNCHANGED <<google, row, series, sync, untold, parted, version>>
Remove(t) == row' = [row EXCEPT ![t] = 0]
Drop(q) == LET t == request[q].todo
           IN /\ Is(q, "drop") /\ End(q) /\ Remove(t)
              /\ IF google THEN UNCHANGED <<mine, untold>> ELSE Mine(q, t) /\ untold' = untold \cup {t}
              /\ UNCHANGED <<google, server, series, sync, parted, version, errors>>
(* Merging (dedupe_todos): the twin goes first - over CalDAV at its        *)
(* provider too, never at Google -, then its text, if it has one that is   *)
(* missing, comes into the one kept.                                       *)
dedupe_todos(q, t, twin) == /\ t # twin /\ row[t] # 0 /\ row[twin] # 0 /\ NewVersion
                            /\ Ask(q, "twin", t, twin, version + 1)
DeleteTwin(q) == LET twin == request[q].other
                 IN /\ Is(q, "twin") /\ Go(q, "drop twin")
                    /\ \/ ~google /\ Serve(twin, 0) /\ Mine(q, twin) /\ UNCHANGED <<parted, errors>>
                       \/ google /\ UNCHANGED <<server, mine, parted, errors>>
                       \/ ~google /\ Fails /\ Mine(q, twin) /\ parted' = parted \cup {twin} /\ UNCHANGED server
                    /\ UNCHANGED <<google, row, series, sync, untold, version>>
DropTwin(q) == LET twin == request[q].other
               IN /\ Is(q, "drop twin") /\ Remove(twin)
                  /\ IF google THEN Mine(q, twin) /\ untold' = untold \cup {twin} ELSE UNCHANGED <<mine, untold>>
                  /\ End(q) \/ Req(q, [request[q] EXCEPT !.step = "fields", !.value = 0])
                  /\ UNCHANGED <<google, server, series, sync, parted, version, errors>>

Work(r) == List(r) \/ Fetched(r) \/ Store(r) \/ \E t \in Todos : fetch_event(r, t)
Handle(q) == \/ im_ziel_anlegen(q) \/ Insert(q) \/ set_completed(q) \/ update_todo(q) \/ parse_due(q)
             \/ find_todo(q) \/ WriteBack(q) \/ MarkDone(q) \/ TellGoogle(q) \/ Successor(q)
             \/ loeschen(q) \/ Drop(q) \/ DeleteTwin(q) \/ DropTwin(q)
Next == \/ \E t \in Todos : Elsewhere(t)
        \/ \E r \in Runs : sync_todos(r) \/ Work(r)
        \/ \E q \in Requests, t \in Todos :
              \/ quick_add_todo(q, t) \/ consolidate_todos(q, t) \/ delete_todo(q, t)
              \/ \E other \in Todos : succeed_todo(q, t, other) \/ dedupe_todos(q, t, other)
        \/ \E q \in Requests : Handle(q)
Spec == /\ Init /\ [][Next]_vars
        /\ WF_vars(sync_todos(Ticker)) /\ (\A r \in Runs : WF_vars(Work(r))) /\ \A q \in Requests : WF_vars(Handle(q))

-----------------------------------------------------------------------------
(* Properties.                                                             *)

(* A change or deletion of the user's reaches the provider: once no        *)
(* request is under way, the provider has it or a later version.  Two      *)
(* lists of tasks are left out, and they are all there is: `untold`, whose *)
(* last change the code sends to nobody - a task marked done by            *)
(* succeed_todo, unless it recurs at Google; one deleted over CalDAV, or   *)
(* merged at Google; the box of a change refused for its date -, and       *)
(* `parted`, where a call failed or found the task gone, two changes       *)
(* crossed, or a synchronisation stored another version between the change *)
(* of the row and the moment it is read.                                   *)
ChangesReachProvider == (\A q \in Requests : Is(q, "none"))
                        => \A t \in Todos \ (parted \cup untold) : server[t] # 0 => server[t] >= mine[t]

(* When the requests have stopped, in the end Relay shows a task in the    *)
(* version its provider has.  (A change of nothing writes the row back all *)
(* the same, so requests without end can keep an old version going round.) *)
TasksComeRight == \A t \in Todos : <>[](server[t] # 0 /\ \A q \in Requests : Is(q, "none")) => <>[](row[t] = server[t])
=============================================================================
