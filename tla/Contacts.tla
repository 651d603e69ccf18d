------------------------------ MODULE Contacts ------------------------------
(***************************************************************************)
(* The CardDAV address book (dav/scheduler.rs, dav/carddav.rs) and the     *)
(* requests on contacts (api/contacts.rs).  A synchronisation reads        *)
(* everything, or what changed since the token of the last one; it stores  *)
(* its token first and the contacts afterwards, and what a token covers is *)
(* not read again.  A contact whose number is not above the token is       *)
(* either in Relay, or lost to it until somebody changes it again.         *)
(***************************************************************************)
EXTENDS Naturals, FiniteSets

CONSTANTS People, Runs,          \* contacts; synchronisations that may be under way at once
          MaxErrors,             \* bound: calls that fail
          MaxSwitches,           \* bound: the address book switched on or off, or a second one
          MaxChanges             \* bound: changes at the provider, with these two

ContactsAssumption == People # {} /\ MaxChanges \in Nat /\ MaxErrors \in Nat /\ MaxSwitches \in Nat

VARIABLES book,      \* the number of each contact's last change at the provider, 0: not there
          removed,   \* the number of its last deletion there, 0: none
          clock,     \* the number of the last change: the provider's token
          several,   \* the provider has more than one address book: no token
          on,        \* the address book is switched on
          token,     \* Relay's, 0 when it is empty
          row,       \* the change of each contact that Relay shows, 0: no row
          sync, request,
          excused,   \* contacts something went wrong for: see the property
          errors, switches
provider == <<book, removed, clock, several>>
vars == <<provider, on, token, row, sync, request, excused, errors, switches>>

Nobody == [p \in People |-> 0]
Idle == [step |-> "idle", since |-> 0, full |-> FALSE, todo |-> {}, got |-> Nobody, dead |-> {}, next |-> 0, old |-> FALSE]
NoRequest == [step |-> "none", who |-> CHOOSE p \in People : TRUE, put |-> 0]
Steps == {"idle", "list", "cards", "ask token", "remove", "token", "save"}

TypeOK == /\ book \in [People -> 0 .. MaxChanges] /\ removed \in [People -> 0 .. MaxChanges]
          /\ clock \in 0 .. MaxChanges /\ several \in BOOLEAN
          /\ on \in BOOLEAN /\ token \in 0 .. MaxChanges /\ row \in [People -> 0 .. MaxChanges]
          /\ sync \in [Runs -> [step : Steps, since : 0 .. MaxChanges, full : BOOLEAN, todo : SUBSET People,
                                got : [People -> 0 .. MaxChanges], dead : SUBSET People,
                                next : 0 .. MaxChanges, old : BOOLEAN]]
          /\ request \in [step : {"none", "put", "store", "delete", "drop"}, who : People, put : 0 .. MaxChanges]
          /\ excused \subseteq People /\ errors \in 0 .. MaxErrors /\ switches \in 0 .. MaxSwitches

Init == /\ book = Nobody /\ removed = Nobody /\ clock = 0 /\ several = FALSE /\ on = TRUE /\ token = 0 /\ row = Nobody
        /\ sync = [r \in Runs |-> Idle] /\ request = NoRequest /\ excused = {} /\ errors = 0 /\ switches = 0

Room == clock + errors + switches < MaxChanges      \* bound
Fails == Room /\ errors < MaxErrors /\ errors' = errors + 1
(* A change at the provider.  One that comes while a full read is under    *)
(* way may be covered by its token and not be in what it read.             *)
Reading == {r \in Runs : sync[r].full /\ sync[r].step \in {"cards", "ask token"}}
Change(p, there) == /\ Room /\ clock' = clock + 1
                    /\ book' = [book EXCEPT ![p] = IF there THEN clock + 1 ELSE 0]
                    /\ removed' = [removed EXCEPT ![p] = IF there THEN @ ELSE clock + 1]
                    /\ excused' = IF Reading = {} THEN excused ELSE excused \cup {p}
                    /\ UNCHANGED several
Elsewhere(p) == /\ \E there \in BOOLEAN : Change(p, there) /\ (there \/ book[p] # 0)
                /\ UNCHANGED <<on, token, row, sync, request, errors, switches>>
AnotherBook == /\ ~several /\ several' = TRUE /\ Room /\ switches < MaxSwitches /\ switches' = switches + 1
               /\ UNCHANGED <<book, removed, clock, on, token, row, sync, request, excused, errors>>

-----------------------------------------------------------------------------
(* One synchronisation (do_sync), by the ticker, by hand or by the switch: *)
(* with the settings and the token it found at its beginning.              *)
At(r, step) == sync[r].step = step
Step(r, new) == sync' = [sync EXCEPT ![r] = new]
Begin(r) == At(r, "idle") /\ Step(r, [Idle EXCEPT !.step = "list", !.since = token, !.full = token = 0])
do_sync(r) == /\ on /\ Begin(r)
              /\ UNCHANGED <<provider, on, token, row, request, excused, errors, switches>>
(* The list of what to read, with the token that goes with it; an error    *)
(* of the incremental one, or several address books, make it a full one.   *)
ChangedBeyond(r) == {p \in People : book[p] > sync[r].since + 1}
Changed(r) == {p \in People : book[p] > sync[r].since}
Deleted(r) == {p \in People : book[p] = 0 /\ removed[p] > sync[r].since}
list_contacts(r) ==
    /\ At(r, "list")
    /\ \/ /\ sync[r].full /\ UNCHANGED errors
          /\ Step(r, [sync[r] EXCEPT !.step = "cards", !.todo = {p \in People : book[p] # 0}])
       \/ /\ ~sync[r].full /\ ~several /\ UNCHANGED errors
          /\ Step(r, [sync[r] EXCEPT !.step = "cards", !.todo = Changed(r),
                                         !.dead = Deleted(r), !.next = clock])
       \/ /\ ~sync[r].full /\ (IF several THEN UNCHANGED errors ELSE Fails)
          /\ Step(r, [sync[r] EXCEPT !.full = TRUE])
       \/ sync[r].full /\ Fails /\ Step(r, Idle)
    /\ UNCHANGED <<provider, on, token, row, request, excused, switches>>
(* Card by card; one that cannot be read is left out, the token moves on.  *)
fetch_vcard(r, p) ==
    /\ At(r, "cards") /\ p \in sync[r].todo
    /\ \/ Step(r, [sync[r] EXCEPT !.todo = @ \ {p}, !.got[p] = book[p]]) /\ UNCHANGED <<errors, excused>>
       \/ Step(r, [sync[r] EXCEPT !.todo = @ \ {p}]) /\ Fails /\ excused' = excused \cup {p}
    /\ UNCHANGED <<provider, on, token, row, request, switches>>
Read(r) == /\ At(r, "cards") /\ sync[r].todo = {}
           /\ Step(r, IF ~sync[r].full THEN [sync[r] EXCEPT !.step = "remove"]
                      ELSE IF sync[r].got = Nobody THEN Idle      \* nobody at all is an error
                      ELSE [sync[r] EXCEPT !.step = "ask token"])
           /\ UNCHANGED <<provider, on, token, row, request, excused, errors, switches>>
get_sync_token(r) ==
    /\ At(r, "ask token")
    /\ \/ Step(r, [sync[r] EXCEPT !.step = "token", !.next = IF several THEN 0 ELSE clock]) /\ UNCHANGED errors
       \/ Step(r, [sync[r] EXCEPT !.step = "token", !.next = 0]) /\ Fails
    /\ UNCHANGED <<provider, on, token, row, request, excused, switches>>
(* The rows of the contacts named deleted go, in a section before the      *)
(* token; a contact whose card's file is not called after it stays (the    *)
(* answer names files, parse_sync_response).  A full read removes nobody.  *)
Remove(r) == /\ At(r, "remove") /\ Step(r, [sync[r] EXCEPT !.step = "token"])
             /\ \E gone \in SUBSET sync[r].dead :
                   /\ row' = [p \in People |-> IF p \in gone THEN 0 ELSE row[p]]
                   /\ excused' = excused \cup {p \in gone : row[p] > sync[r].next}
             /\ UNCHANGED <<provider, on, token, request, errors, switches>>
(* (Mutant: the token of the beginning is compared to nothing: the newest  *)
(* change is taken as read, as if the answer had named it.)                *)
TokenOfNow(r) == clock
NextToken(r) == sync[r].next
StoreToken(r) ==
    /\ At(r, "token") /\ Step(r, [sync[r] EXCEPT !.step = "save"]) /\ token' = NextToken(r)
    /\ excused' = IF sync[r].old THEN People ELSE excused
    /\ UNCHANGED <<provider, on, row, request, errors, switches>>
(* One transaction; its error is only logged.                              *)
Given(r) == {p \in People : sync[r].got[p] # 0}
save_contacts_to_db(r) ==
    /\ At(r, "save") /\ Step(r, Idle)
    /\ \/ /\ row' = [p \in People |-> IF p \in Given(r) THEN sync[r].got[p] ELSE row[p]]
          /\ excused' = excused \cup {p \in Given(r) : row[p] > sync[r].got[p]}
          /\ UNCHANGED errors
       \/ Fails /\ excused' = excused \cup Given(r) /\ UNCHANGED row
    /\ UNCHANGED <<provider, on, token, request, switches>>

-----------------------------------------------------------------------------
(* Requests: to the provider, then into Relay's row.  A deletion is done   *)
(* in Relay whatever the provider says.                                    *)
put_vcard(p) == /\ request = NoRequest /\ request' = [step |-> "put", who |-> p, put |-> 0]
                /\ UNCHANGED <<provider, on, token, row, sync, excused, errors, switches>>
Put == LET p == request.who
       IN /\ request.step = "put"
          /\ \/ /\ ~several /\ on /\ Change(p, TRUE) /\ UNCHANGED errors
                /\ request' = [request EXCEPT !.step = "store", !.put = clock + 1]
             \/ /\ ~several /\ on /\ Fails /\ request' = NoRequest
                /\ Change(p, TRUE) \/ UNCHANGED <<provider, excused>>     \* stored, but the answer is lost
             \/ (several \/ ~on) /\ request' = NoRequest /\ UNCHANGED <<provider, excused, errors>>
          /\ UNCHANGED <<on, token, row, sync, switches>>
upsert_contact ==
    /\ request.step = "store" /\ request' = NoRequest
    /\ row' = [row EXCEPT ![request.who] = request.put]
    /\ excused' = IF row[request.who] > request.put THEN excused \cup {request.who} ELSE excused
    /\ UNCHANGED <<provider, on, token, sync, errors, switches>>
delete_contact(p) == /\ request = NoRequest /\ row[p] # 0
                     /\ request' = [step |-> "delete", who |-> p, put |-> 0]
                     /\ UNCHANGED <<provider, on, token, row, sync, excused, errors, switches>>
Delete == LET p == request.who
          IN /\ request.step = "delete" /\ request' = [request EXCEPT !.step = "drop"]
             /\ \/ on /\ ~several /\ book[p] # 0 /\ Change(p, FALSE) /\ UNCHANGED errors
                \/ /\ several \/ ~on \/ book[p] = 0 \/ (Room /\ errors < MaxErrors)
                   /\ errors' = IF several \/ ~on \/ book[p] = 0 THEN errors ELSE errors + 1
                   /\ excused' = excused \cup {p} /\ UNCHANGED provider
             /\ UNCHANGED <<on, token, row, sync, switches>>
Drop == /\ request.step = "drop" /\ request' = NoRequest
        /\ row' = [row EXCEPT ![request.who] = 0]
        \* somebody may have put it back at the provider meanwhile
        /\ excused' = IF book[request.who] = 0 THEN excused ELSE excused \cup {request.who}
        /\ UNCHANGED <<provider, on, token, sync, errors, switches>>

(* The switch: off, rows and token go in one section; on, the token is     *)
(* empty and a synchronisation starts.  One that is under way goes on.     *)
Switch == /\ Room /\ switches < MaxSwitches /\ switches' = switches + 1 /\ on' = ~on /\ token' = 0
SwitchOff == /\ on /\ Switch /\ row' = Nobody
             /\ sync' = [r \in Runs |-> IF At(r, "idle") THEN Idle ELSE [sync[r] EXCEPT !.old = TRUE]]
             /\ request = NoRequest /\ UNCHANGED <<provider, request, excused, errors>>
SwitchOn(r) == /\ ~on /\ Switch
               /\ At(r, "idle") /\ Step(r, [Idle EXCEPT !.step = "list", !.full = TRUE])
               /\ UNCHANGED <<provider, row, request, excused, errors>>

Work(r) == \/ list_contacts(r) \/ Read(r) \/ get_sync_token(r) \/ Remove(r) \/ StoreToken(r) \/ save_contacts_to_db(r)
           \/ \E p \in People : fetch_vcard(r, p)
Next == \/ \E p \in People : Elsewhere(p) \/ put_vcard(p) \/ delete_contact(p)
        \/ \E r \in Runs : do_sync(r) \/ Work(r) \/ SwitchOn(r)
        \/ AnotherBook \/ Put \/ upsert_contact \/ Delete \/ Drop \/ SwitchOff
Spec == Init /\ [][Next]_vars

-----------------------------------------------------------------------------
(* Properties.                                                             *)

(* What the token covers is in Relay: when nothing is under way, a contact *)
(* the next synchronisation will not read is shown as it is.  The excuses  *)
(* are all there are: it changed while a full read was under way, its card *)
(* or the transaction failed, an older answer was stored over a newer one  *)
(* or removed a row newer than itself, or the switch was moved under a     *)
(* synchronisation.                                                        *)
Quiet == request = NoRequest /\ \A r \in Runs : At(r, "idle")
CoveredIsShown == on /\ Quiet => \A p \in People \ excused : book[p] \in 1 .. token => row[p] = book[p]

(* Without the first excuse it does not hold: the token of a full read is  *)
(* asked for after the cards were read (carddav.rs:190-193).               *)
=============================================================================
