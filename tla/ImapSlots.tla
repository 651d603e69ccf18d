------------------------------ MODULE ImapSlots ------------------------------
(***************************************************************************)
(* One slot of an IMAP client (imap/client.rs): the session in it, the     *)
(* folder it is believed to have selected (current_folder, "the tracker"), *)
(* and those who use it at the same time: operations of handlers and jobs, *)
(* one at a time by op_lock; the health check of the scheduler, which takes*)
(* the session without that lock; connect and reconnect, under connect_lock*)
(* alone; and closures whose operation gave up on them after 60 seconds and*)
(* which run on in their thread, session in hand.  The client's other slot *)
(* is alike; it shares connect_lock only.                                  *)
(***************************************************************************)
EXTENDS Naturals, Sequences

CONSTANTS Ops,      \* operations under way at the same time
          Others,   \* callers of connect and reconnect
          Folders, Inbox, None

Empty == "empty"
NamesAssumption == /\ Inbox \in Folders /\ None \notin Folders /\ Empty \notin Folders \cup {None}
                   /\ Ops \cap Others = {} /\ "ping" \notin Ops \cup Others

(* A session has one owner and is known here by the folder it has selected *)
(* at the provider (None if none).                                         *)
VARIABLES slot,       \* the session in the slot, or "empty"
          tracker, connected,
          opLock,     \* who has op_lock, then who waits for it (tokio: in order)
          connLock,   \* and connect_lock
          at,         \* the step each operation and each caller is at
          want,       \* the folder its command names
          thread,     \* its closure: step and session
          ping,       \* the session in the hands of the health check, or "empty"
          wrong,      \* history: a command ran in another folder than its own
          disturbed   \* history: two had a session of this slot at the same time

locks == <<opLock, connLock>>
history == <<wrong, disturbed>>
vars == <<slot, tracker, connected, locks, at, want, thread, ping, history>>

Session == Folders \cup {None}
NoThread == [step |-> "none", session |-> Empty]

TypeOK == /\ slot \in Session \cup {Empty} /\ ping \in Session \cup {Empty}
          /\ tracker \in Folders \cup {None} /\ connected \in BOOLEAN
          /\ opLock \in Seq(Ops) /\ connLock \in Seq(Ops \cup Others)
          /\ at \in [Ops \cup Others -> {"idle", "locking", "connecting", "connected", "running",
                                         "connect", "reconnect"}]
          /\ want \in [Ops -> Folders \cup {None}]
          /\ thread \in [Ops -> [step : {"none", "select", "act", "ok", "error"},
                                 session : Session \cup {Empty}]]
          /\ wrong \in BOOLEAN /\ disturbed \in BOOLEAN

Init == /\ slot = Empty /\ ping = Empty /\ tracker = None /\ connected = FALSE
        /\ opLock = <<>> /\ connLock = <<>>
        /\ at = [p \in Ops \cup Others |-> "idle"]
        /\ want = [o \in Ops |-> None] /\ thread = [o \in Ops |-> NoThread]
        /\ wrong = FALSE /\ disturbed = FALSE

Goes(p, s) == at' = [at EXCEPT ![p] = s]
First(l, p) == l # <<>> /\ Head(l) = p
(* Somebody else has a session of this slot in hand, or is making one. *)
Crowd(p) == \/ ping # Empty \/ \E o \in Ops \ {p} : thread[o] # NoThread
            \/ \E q \in (Ops \cup Others) \ {p} : at[q] \in {"connecting", "connected"}
Notice(p) == disturbed' = (disturbed \/ Crowd(p))

-----------------------------------------------------------------------------
(* An operation takes its place in the line for op_lock ...                *)
Request(o, f) == /\ at[o] = "idle" /\ thread[o] = NoThread
                 /\ want' = [want EXCEPT ![o] = f]
                 /\ opLock' = Append(opLock, o)
                 /\ Goes(o, "locking")
                 /\ UNCHANGED <<slot, tracker, connected, connLock, thread, ping, history>>

(* ... takes the session out of the slot and hands it to its closure ...   *)
Start(o, s) == /\ thread' = [thread EXCEPT ![o] = [step |-> "select", session |-> s]]
               /\ slot' = Empty
               /\ Goes(o, "running")
               /\ Notice(o)
TakeSession(o) == /\ at[o] = "locking" /\ First(opLock, o) /\ slot # Empty
                  /\ Start(o, slot)
                  /\ UNCHANGED <<tracker, connected, locks, want, ping, wrong>>

(* ... or finds none and waits for connect_lock (reconnect_slot). *)
NoSession(o) == /\ at[o] = "locking" /\ First(opLock, o) /\ slot = Empty
                /\ connLock' = Append(connLock, o)
                /\ Goes(o, "connecting")
                /\ UNCHANGED <<slot, tracker, connected, opLock, want, thread, ping, history>>

(* connect_inner puts a new session into the slot, whatever is in there,   *)
(* and leaves the tracker as it is.                                        *)
connect_inner == slot' = None /\ connected' = TRUE
reconnect_slot(o) ==
    /\ at[o] = "connecting" /\ First(connLock, o)
    /\ connLock' = Tail(connLock)
    /\ \/ connect_inner /\ Goes(o, "connected") /\ UNCHANGED opLock
       \/ Goes(o, "idle") /\ opLock' = Tail(opLock) /\ UNCHANGED <<slot, connected>>
    /\ UNCHANGED <<tracker, want, thread, ping, history>>
Retake(o) == /\ at[o] = "connected"
             /\ IF slot # Empty THEN Start(o, slot) /\ UNCHANGED opLock
                ELSE Goes(o, "idle") /\ opLock' = Tail(opLock)
                     /\ UNCHANGED <<slot, thread, disturbed>>
             /\ UNCHANGED <<tracker, connected, connLock, want, ping, wrong>>

-----------------------------------------------------------------------------
(* The closure, in its thread, whether its operation still waits or not.   *)
Step(o, s) == thread' = [thread EXCEPT ![o].step = s]

(* ensure_selected: no SELECT where the tracker says so already; after one *)
(* that failed nobody knows.  (Mutant: it then leaves the tracker alone.)  *)
KeepTracker(o) == UNCHANGED tracker
SelectFailed(o) == tracker' = None
Selected(o, f, s) == thread' = [thread EXCEPT ![o] = [step |-> s, session |-> f]]
ensure_selected(o) ==
    LET f == want[o]
    IN /\ thread[o].step = "select"
       /\ IF f = None \/ tracker = f THEN Step(o, "act") /\ UNCHANGED tracker
          ELSE \/ Selected(o, f, "act") /\ tracker' = f
               \/ /\ SelectFailed(o)
                  /\ \E g \in {None, f, thread[o].session} : Selected(o, g, "error")
       /\ UNCHANGED <<slot, connected, locks, at, want, ping, history>>

(* A command at the selected folder; without one the server refuses.  Some *)
(* fetches name no folder.  An error may come when the work is half done.  *)
InFolder(o) == /\ thread[o].step = "act"
               /\ \/ /\ Step(o, "ok") \/ Step(o, "error")
                     /\ thread[o].session # None
                     /\ wrong' = (wrong \/ want[o] \notin {None, thread[o].session})
                  \/ Step(o, "error") /\ UNCHANGED wrong
               /\ UNCHANGED <<slot, tracker, connected, locks, at, want, ping, disturbed>>
Outside(o) == /\ thread[o].step = "act"
              /\ Step(o, "ok") \/ Step(o, "error")
              /\ UNCHANGED <<slot, tracker, connected, locks, at, want, ping, history>>

fetch_recent_impl(o) == InFolder(o)
fetch_raw_message(o) == InFolder(o)     \* and the other fetches, and searches
mark_flag(o) == want[o] # None /\ InFolder(o)  \* delete_message, expunge_folder, idle_wait
move_message(o) == want[o] # None /\ InFolder(o)      \* copy_message
ordner_leeren(o) == want[o] # None /\ InFolder(o)     \* alle_verschieben
append_message(o) == want[o] = None /\ Outside(o)     \* list_folders, create_folder, uidvalidity_sync
select_folder_on(o) == want[o] # None /\ Outside(o)
rename_folder(o) == want[o] = Inbox /\ Outside(o)     \* delete_folder

-----------------------------------------------------------------------------
(* How an operation ends (with_slot_blocking).                             *)
Ended(o) == /\ Goes(o, "idle") /\ opLock' = Tail(opLock)
            /\ want' = IF thread'[o] = NoThread THEN [want EXCEPT ![o] = None] ELSE want
(* The session goes back into the slot, over what came there meanwhile.    *)
PutBack(o) == /\ at[o] = "running" /\ thread[o].step \in {"ok", "error"}
              /\ slot' = thread[o].session
              /\ thread' = [thread EXCEPT ![o] = NoThread]
              /\ Ended(o)
              /\ UNCHANGED <<tracker, connected, connLock, ping, history>>
TagMismatch(o) == /\ at[o] = "running" /\ thread[o].step = "error"
                  /\ connected' = FALSE /\ tracker' = None
                  /\ thread' = [thread EXCEPT ![o] = NoThread]
                  /\ Ended(o)
                  /\ UNCHANGED <<slot, connLock, ping, history>>
(* After 60 seconds; what is in the slot by now is logged out. *)
Timeout(o) == /\ at[o] = "running" /\ thread[o].step \in {"select", "act"}
              /\ connected' = FALSE /\ tracker' = None /\ slot' = Empty
              /\ UNCHANGED thread /\ Ended(o)
              /\ UNCHANGED <<connLock, ping, history>>
Abandoned(o) == /\ at[o] # "running" /\ thread[o].step \in {"ok", "error"}
                /\ thread' = [thread EXCEPT ![o] = NoThread]
                /\ want' = [want EXCEPT ![o] = None]
                /\ UNCHANGED <<slot, tracker, connected, locks, at, ping, history>>

-----------------------------------------------------------------------------
(* ping_slot: who operates meanwhile finds the slot empty and connects.    *)
PingTake == /\ slot # Empty /\ ping = Empty
            /\ ping' = slot /\ slot' = Empty
            /\ disturbed' = (disturbed \/ opLock # <<>> \/ Crowd("ping"))
            /\ UNCHANGED <<tracker, connected, locks, at, want, thread, wrong>>
PingAnswered == /\ ping # Empty
                /\ slot' = ping /\ ping' = Empty
                /\ UNCHANGED <<tracker, connected, locks, at, want, thread, history>>
PingFailed == /\ ping # Empty
              /\ ping' = Empty /\ connected' = FALSE
              /\ UNCHANGED <<slot, tracker, locks, at, want, thread, history>>

(* connect and reconnect wait for connect_lock; connect does nothing where *)
(* there is a connection, reconnect ends the one there is.                 *)
(* (Mutant: reconnect waits for op_lock too, with connect_lock in hand.)   *)
Call(p, how) == /\ at[p] = "idle"
                /\ connLock' = Append(connLock, p)
                /\ Goes(p, how)
                /\ UNCHANGED <<slot, tracker, connected, opLock, want, thread, ping, history>>
connect(p) == /\ at[p] = "connect" /\ First(connLock, p)
              /\ IF connected THEN Goes(p, "idle") /\ connLock' = Tail(connLock)
                 ELSE Goes(p, "connecting") /\ UNCHANGED connLock
              /\ UNCHANGED <<slot, tracker, connected, opLock, want, thread, ping, history>>
FirstAndAlone(p) == First(connLock, p) /\ opLock = <<>>
MayReconnect(p) == First(connLock, p)
reconnect_slot_locked(p) ==
    /\ at[p] = "reconnect" /\ MayReconnect(p)
    /\ slot' = Empty /\ connected' = FALSE /\ tracker' = None
    /\ Goes(p, "connecting") /\ Notice(p)
    /\ UNCHANGED <<locks, want, thread, ping, wrong>>
Connected(p) == /\ p \in Others /\ at[p] = "connecting"
                /\ \/ connect_inner
                   \/ UNCHANGED <<slot, connected>>
                /\ connLock' = Tail(connLock) /\ Goes(p, "idle")
                /\ disturbed' = (disturbed \/ opLock # <<>> \/ Crowd(p) \/ slot # Empty)
                /\ UNCHANGED <<tracker, opLock, want, thread, ping, wrong>>
(* rename_folder at the client's other slot: this one is to select anew,   *)
(* whoever has its session.                                                *)
rename_folder_elsewhere == /\ tracker # None /\ tracker' = None
                           /\ UNCHANGED <<slot, connected, locks, at, want, thread, ping, history>>
shutdown == /\ slot # Empty /\ slot' = Empty /\ connected' = FALSE
            /\ UNCHANGED <<tracker, locks, at, want, thread, ping, history>>

Thread(o) == \/ ensure_selected(o) \/ fetch_recent_impl(o) \/ fetch_raw_message(o) \/ mark_flag(o)
             \/ move_message(o) \/ ordner_leeren(o) \/ append_message(o) \/ select_folder_on(o)
             \/ rename_folder(o) \/ Abandoned(o)
Operation(o) == \/ TakeSession(o) \/ NoSession(o) \/ reconnect_slot(o) \/ Retake(o)
                \/ PutBack(o) \/ TagMismatch(o) \/ Timeout(o)
Other(p) == connect(p) \/ reconnect_slot_locked(p) \/ Connected(p)

Next == \/ \E o \in Ops : Thread(o) \/ Operation(o) \/ \E f \in Folders \cup {None} : Request(o, f)
        \/ PingTake \/ PingAnswered \/ PingFailed \/ shutdown \/ rename_folder_elsewhere
        \/ \E p \in Others : Other(p) \/ Call(p, "connect") \/ Call(p, "reconnect")

(* Everybody who has a lock or is served runs on: connecting ends within   *)
(* 30 seconds, waiting for a closure within 60.                            *)
Fairness == /\ \A o \in Ops : WF_vars(Operation(o))
            /\ \A p \in Others : WF_vars(Other(p))
Spec == Init /\ [][Next]_vars /\ Fairness

-----------------------------------------------------------------------------
(* Properties.                                                             *)

(* As long as nobody else had a session of the slot while an operation had *)
(* one - a health check, a reconnect, a closure given up - every command   *)
(* runs in the folder it names, whatever fails: the tracker never names a  *)
(* folder the session has not got.                                         *)
RightFolderUndisturbed == wrong => disturbed

(* An operation comes back, with a result or an error: no circle of waiting*)
(* between op_lock and connect_lock.                                       *)
OpsEnd == \A o \in Ops : at[o] # "idle" ~> at[o] = "idle"

=============================================================================
