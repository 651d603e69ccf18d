------------------------------- MODULE Moves -------------------------------
(***************************************************************************)
(* Mails that leave the provider's folder they are in (api/messages.rs):   *)
(* into a folder kept only in Relay, to another account - at its provider  *)
(* or in its local folders - or for good.  Each is a chain of sections,    *)
(* commands to the provider and work left to the queue, and any link may   *)
(* be the last one.  A row has the number the mail had when it was last    *)
(* seen, which another mail may have by then; a mail with a Message-ID is  *)
(* found again by that, one without by its number only.                    *)
(***************************************************************************)
EXTENDS Naturals, FiniteSets

CONSTANTS Mails, Folders,     \* the folders of the account at its provider
          Numbers,            \* numbers of mails in a folder
          Anonymous,          \* mails without a Message-ID
          None, Local,        \* nothing; a folder only in Relay
          MaxRequests         \* bound: requests of the user

Trash == "Trash"
MovesAssumption == /\ None \notin Mails /\ Local \notin Folders /\ Trash # None /\ None \notin Folders
                   /\ Numbers \subseteq Nat \ {0} /\ IsFiniteSet(Numbers) /\ MaxRequests \in Nat

VARIABLES source,   \* the provider: the mail at each number of each folder
          uidnext,  \* and the number the next mail of a folder gets, never used before
          given,    \* mails that were given to the other account's provider
          row,      \* Relay's row of each mail: folder and number, or None
          shared,   \* rows the other account has by now: mails
          archive,  \* mails of which Relay holds a whole EML
          ops,      \* left to the queue: [mail, folder, number, to]
          request,  \* the one under way
          dismissed,\* mails the user deleted for good
          mistaken, \* history: mails deleted at the number another mail had
          unproven, \* history: mails given up at the provider for another mail's EML
          requests
provider == <<source, uidnext>>
history == <<dismissed, mistaken, unproven>>
vars == <<provider, given, row, shared, archive, ops, request, history, requests>>

Place == Folders \X Numbers
NoRequest == [step |-> "none", mail |-> None, from |-> None, number |-> 0, got |-> None]
Steps == {"none", "verify", "fetch", "queue", "raw", "append", "local", "hard delete", "rows"}

TypeOK == /\ source \in [Place -> Mails \cup {None}] /\ uidnext \in [Folders -> Nat] /\ given \subseteq Mails
          /\ row \in [Mails -> {None} \cup [folder : Folders \cup {Local}, number : Nat]]
          /\ shared \cup archive \cup dismissed \cup mistaken \cup unproven \subseteq Mails
          /\ ops \subseteq [mail : Mails, folder : Folders, number : Nat, to : Folders \cup {None, Trash}]
          /\ request \in [step : Steps, mail : Mails \cup {None}, from : Folders \cup {None},
                          number : Nat, got : Mails \cup {None}]
          /\ requests \in 0 .. MaxRequests

At(m) == {p \in Place : source[p] = m}
Init == /\ source \in {s \in [Place -> Mails \cup {None}] :
                         \A m \in Mails : Cardinality({p \in Place : s[p] = m}) = 1}
        /\ uidnext = [f \in Folders |-> 1 + Cardinality({k \in Numbers : source[<<f, k>>] # None})]
        /\ \A p \in Place : source[p] # None <=> p[2] < uidnext[p[1]]
        /\ row = [m \in Mails |-> LET p == CHOOSE p \in Place : source[p] = m
                                  IN [folder |-> p[1], number |-> p[2]]]
        /\ archive \in SUBSET Mails
        /\ given = {} /\ shared = {} /\ ops = {}
        /\ dismissed = {} /\ mistaken = {} /\ unproven = {}
        /\ request = NoRequest /\ requests = 0

Begin(m, step) == /\ request = NoRequest /\ requests < MaxRequests /\ requests' = requests + 1
                  /\ row[m] # None /\ row[m].folder \in Folders
                  /\ request' = [step |-> step, mail |-> m, from |-> row[m].folder,
                                 number |-> row[m].number, got |-> None]
Go(step) == request' = [request EXCEPT !.step = step]
Stop == request' = NoRequest
MailAt(f, k) == IF <<f, k>> \in Place THEN source[<<f, k>>] ELSE None
There == MailAt(request.from, request.number)
Queue(m, folder, number, to) == ops' = ops \cup {[mail |-> m, folder |-> folder, number |-> number, to |-> to]}

(* A row moved (update_folder_from) keeps its number, or gets the first    *)
(* free one after it in steps of Shift where another row has it.           *)
Shift == 100000
Tries == 100
IsTaken(f, k) == \E m \in Mails : row[m] # None /\ row[m].folder = f /\ row[m].number = k
MoveRow(m, f) == \E j \in 0 .. Tries :
    /\ ~IsTaken(f, row[m].number + Shift * j)
    /\ \A i \in 0 .. Tries : i < j => IsTaken(f, row[m].number + Shift * i)
    /\ row' = [row EXCEPT ![m] = [folder |-> f, number |-> @.number + Shift * j]]

-----------------------------------------------------------------------------
(* What goes on meanwhile: a move inside the account changes the row and   *)
(* is left to the queue; the provider gives the mail a number of its own   *)
(* there; the synchronisation corrects rows.                               *)
move_message(m, f) ==
    /\ requests < MaxRequests /\ requests' = requests + 1
    /\ row[m] # None /\ row[m].folder \in Folders \ {f}
    /\ MoveRow(m, f) /\ Queue(m, row[m].folder, row[m].number, f)
    /\ UNCHANGED <<provider, given, shared, archive, request, history>>
Leave(s, m, f) == [p \in Place |-> IF p[1] = f /\ s[p] = m THEN None ELSE s[p]]
(* By Message-ID it is the mail, where it still is in the folder; by number*)
(* whichever mail has the number.                                          *)
Aimed(op) == IF op.mail \in Anonymous THEN MailAt(op.folder, op.number) ELSE op.mail
Replay(op) ==
    LET mail == Aimed(op)
        here == mail # None /\ \E p \in At(mail) : p[1] = op.folder
        left == Leave(source, mail, op.folder)
    IN /\ op \in ops /\ ops' = ops \ {op}
       /\ \/ /\ here /\ op.to \in Folders
             /\ uidnext[op.to] \in Numbers    \* bound
             /\ source' = [left EXCEPT ![<<op.to, uidnext[op.to]>>] = mail]
             /\ uidnext' = [uidnext EXCEPT ![op.to] = @ + 1]
             /\ UNCHANGED <<given, mistaken>>
          \/ /\ here /\ op.to = None /\ source' = left
             /\ mistaken' = mistaken \cup ({mail} \ {op.mail})
             /\ UNCHANGED <<uidnext, given>>
          \/ /\ here /\ op.to = Trash
             /\ source' = left /\ given' = given \cup {mail}  \* kept in its trash
             /\ UNCHANGED <<uidnext, mistaken>>
          \/ UNCHANGED <<provider, given, mistaken>>   \* not there, or given up
       /\ UNCHANGED <<row, shared, archive, request, dismissed, unproven, requests>>
Sync(m) == /\ ~\E op \in ops : op.mail = m
           /\ row[m] # None => row[m].folder \in Folders
           /\ row' = [row EXCEPT ![m] = IF At(m) = {} THEN None
                                        ELSE LET p == CHOOSE p \in At(m) : TRUE
                                             IN [folder |-> p[1], number |-> p[2]]]
           /\ UNCHANGED <<provider, given, shared, archive, ops, request, history, requests>>

-----------------------------------------------------------------------------
(* Into a local folder (move_to_local_folder): the row first; then the EML *)
(* must be there - fetched now if it is not, and kept only if the header   *)
(* names the mail -, else the provider's copy goes to its trash only.      *)
(* Without a Message-ID the row looked at is whichever has the old number. *)
move_to_local_folder(m) ==
    /\ Begin(m, "verify") /\ MoveRow(m, Local)
    /\ UNCHANGED <<provider, given, shared, archive, ops, history>>
IsMoved(m) == /\ row[m] # None /\ row[m].folder = Local
              /\ IF request.mail \in Anonymous THEN row[m].number = request.number ELSE m = request.mail
VerifyEml == /\ request.step = "verify"
             /\ \/ \E m \in archive : IsMoved(m) /\ request' = [request EXCEPT !.step = "queue", !.got = m]
                \/ (~\E m \in archive : IsMoved(m)) /\ Go("fetch")
             /\ UNCHANGED <<provider, given, row, shared, archive, ops, history, requests>>
FetchForArchive == /\ request.step = "fetch"
                   /\ \/ /\ request.mail \notin Anonymous /\ There = request.mail /\ IsMoved(There)
                         /\ archive' = archive \cup {There}
                         /\ request' = [request EXCEPT !.step = "queue", !.got = There]
                      \/ Go("queue") /\ UNCHANGED archive
                   /\ UNCHANGED <<provider, given, row, shared, ops, history, requests>>
(* (Mutant: removed at the provider whether or not the EML was verified.)  *)
Always(to) == None
Guarantee(to) == IF request.got # None THEN None ELSE to
QueueRemoval ==
    /\ request.step = "queue" /\ Stop
    /\ Queue(request.mail, request.from, request.number, Guarantee(Trash))
    /\ unproven' = unproven \cup (IF request.got \in {None, request.mail} THEN {} ELSE {request.mail})
    /\ UNCHANGED <<provider, given, row, shared, archive, dismissed, mistaken, requests>>

(* To another account (move_cross_account): what is at the number now is   *)
(* read, whatever mail that is; then appended over there or written into   *)
(* its archive; then it is deleted at the number; then all rows with the   *)
(* number, in whichever folder, are the other account's.                   *)
move_cross_account(m) == /\ Begin(m, "raw")
                         /\ UNCHANGED <<provider, given, row, shared, archive, ops, history>>
FetchRaw == /\ request.step = "raw"
            /\ \/ /\ There # None
                  /\ \E step \in {"append", "local"} : request' = [request EXCEPT !.step = step, !.got = There]
               \/ Stop
            /\ UNCHANGED <<provider, given, row, shared, archive, ops, history, requests>>
Append == /\ request.step = "append"
          /\ \/ given' = given \cup {request.got} /\ Go("hard delete")
             \/ given' \in {given, given \cup {request.got}} /\ Stop   \* refused, or the answer lost
          /\ UNCHANGED <<provider, row, shared, archive, ops, history, requests>>
HardDelete == /\ request.step = "hard delete" /\ Go("rows")
              /\ \/ source' = [source EXCEPT ![<<request.from, request.number>>] = None]
                 \/ UNCHANGED source                                   \* the error is let go
              /\ UNCHANGED <<uidnext, given, row, shared, archive, ops, history, requests>>
Numbered == {m \in Mails : row[m] # None /\ row[m].number = request.number}
MoveRows == /\ request.step = "rows" /\ Stop
            /\ \/ /\ \A m, n \in Numbered : m = n      \* else the rows would collide
                  /\ shared' = shared \cup Numbered
                  /\ row' = [m \in Mails |-> IF m \in Numbered THEN None ELSE row[m]]
               \/ UNCHANGED <<shared, row>>                            \* its folder is not known, or an error
            /\ UNCHANGED <<provider, given, archive, ops, history, requests>>
LocalCopy == /\ request.step = "local"
             /\ archive' = archive \cup {request.got}
             /\ shared' = shared \cup Numbered
             /\ row' = [m \in Mails |-> IF m \in Numbered THEN None ELSE row[m]]
             /\ Stop
             /\ UNCHANGED <<provider, given, ops, history, requests>>

(* For good (delete_message_permanent_delete): the row, then the provider  *)
(* through the queue.                                                      *)
delete_message_permanent_delete(m) ==
    /\ requests < MaxRequests /\ requests' = requests + 1
    /\ row[m] # None
    /\ row' = [row EXCEPT ![m] = None]
    /\ IF row[m].folder \in Folders THEN Queue(m, row[m].folder, row[m].number, None) ELSE UNCHANGED ops
    /\ dismissed' = dismissed \cup {m}
    /\ UNCHANGED <<provider, given, shared, archive, request, mistaken, unproven>>

Next == \/ \E m \in Mails : \/ Sync(m) \/ move_to_local_folder(m) \/ move_cross_account(m)
                            \/ delete_message_permanent_delete(m) \/ \E f \in Folders : move_message(m, f)
        \/ \E op \in ops : Replay(op)
        \/ VerifyEml \/ FetchForArchive \/ QueueRemoval
        \/ FetchRaw \/ Append \/ HardDelete \/ MoveRows \/ LocalCopy
Spec == Init /\ [][Next]_vars

-----------------------------------------------------------------------------
(* Properties.                                                             *)

(* However a move ends, and whatever mail its number stands for by then:   *)
(* a mail the user did not delete is at its provider, at the other one, in *)
(* the trash there, or whole in Relay's archive.  Two ways of mails without*)
(* a Message-ID are left out: one is deleted by its number when another    *)
(* mail has that (mistaken), and one is given up at the provider because   *)
(* the EML of another mail was found at its number (unproven: the row moved*)
(* may have been shifted, "its number may have been shifted on a collision"*)
(* (messages.rs:775-777), but is looked for by the number it had).         *)
MovedNotLost == \A m \in Mails \ (dismissed \cup mistaken \cup unproven) : At(m) # {} \/ m \in given \cup archive

=============================================================================
