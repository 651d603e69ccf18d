----------------------------- MODULE ListCache -----------------------------
(***************************************************************************)
(* The lists of mails (fetch_messages) and the cache before them           *)
(* (FolderListCache): a list is read under the database lock, put into the *)
(* cache after it, kept for 30 seconds, and dropped by every handler that  *)
(* changes a folder for the user.  The synchronisation changes folders     *)
(* without dropping anything.  One account; a folder's content is counted. *)
(***************************************************************************)
EXTENDS Naturals, FiniteSets

CONSTANTS Folders, Inbox,
          Readers,     \* requests for lists
          Ttl,         \* how long an entry is good, in ticks
          MaxEntries,  \* of the cache (64 in the code)
          MaxChanges   \* bound: changes of folders

FoldersAssumption == /\ Inbox \in Folders /\ IsFiniteSet(Folders)
                     /\ MaxEntries \in Nat \ {0} /\ Ttl \in Nat /\ MaxChanges \in Nat

VARIABLES data,      \* content of each folder: the number of its changes
          own,       \* the last change the user made and was told of
          entries,   \* the cache: folders listed, with content and age
          order,     \* and the order they came in: pairs of the earlier and the later
          reader,    \* a request: where it is, its folder, what it read
          change,    \* the change of the user under way: folders to drop, then to tell of
          listed,    \* the list shown last, with what the user had been told
          odd        \* history: folders whose list may be behind the user's own change

vars == <<data, own, entries, order, reader, change, listed, odd>>

Content == 0 .. MaxChanges
NoEntry == [content |-> 0, age |-> Ttl + 2]
Idle == [step |-> "idle", folder |-> Inbox, content |-> 0]
NoChange == [drop |-> {}, touched |-> {}]

TypeOK == /\ data \in [Folders -> Content] /\ own \in [Folders -> Content]
          /\ entries \in [Folders -> [content : Content, age : 0 .. Ttl + 2]]
          /\ order \subseteq Folders \X Folders
          /\ reader \in [Readers -> [step : {"idle", "read", "have"}, folder : Folders, content : Content]]
          /\ change \in [drop : SUBSET Folders, touched : SUBSET Folders]
          /\ listed \in [folder : Folders, content : Content, own : Content]
          /\ odd \subseteq Folders

Init == /\ data = [f \in Folders |-> 0] /\ own = data
        /\ entries = [f \in Folders |-> NoEntry] /\ order = {}
        /\ reader = [r \in Readers |-> Idle] /\ change = NoChange
        /\ listed = [folder |-> Inbox, content |-> 0, own |-> 0]
        /\ odd = {}

Held(f) == entries[f].age <= Ttl + 1
Without(F) == /\ entries' = [f \in Folders |-> IF f \in F THEN NoEntry ELSE entries[f]]
              /\ order' = {o \in order : o[1] \notin F /\ o[2] \notin F}

-----------------------------------------------------------------------------
(* A request: what the cache has, if it is young enough (get), else a read *)
(* of the database, which is put into the cache afterwards.  The request   *)
(* remembers what the user had been told when it came.                     *)
Ask(r, f) == /\ reader[r] = Idle
             /\ IF entries[f].age <= Ttl
                THEN /\ listed' = [folder |-> f, content |-> entries[f].content, own |-> own[f]]
                     /\ UNCHANGED <<entries, order, reader>>
                ELSE /\ IF Held(f) THEN Without({f}) ELSE UNCHANGED <<entries, order>>
                     /\ reader' = [reader EXCEPT ![r] = [step |-> "read", folder |-> f, content |-> own[f]]]
                     /\ UNCHANGED listed
             /\ UNCHANGED <<data, own, change, odd>>
fetch_inbox_meta(r) ==
    LET f == reader[r].folder
    IN /\ reader[r].step = "read"
       /\ reader' = [reader EXCEPT ![r] = [@ EXCEPT !.step = "have", !.content = data[f]]]
       /\ listed' = [folder |-> f, content |-> data[f], own |-> reader[r].content]
       /\ UNCHANGED <<data, own, entries, order, change, odd>>
(* put: a folder listed again goes to the end; the oldest goes when there  *)
(* are too many.                                                           *)
InCache == {f \in Folders : Held(f)}
Entered(f) == {o \in order : f \notin {o[1], o[2]}} \cup (InCache \ {f}) \X {f}
Oldest(f) == {g \in InCache \cup {f} : \A h \in (InCache \cup {f}) \ {g} : <<g, h>> \in Entered(f)}
put(r) ==
    LET f == reader[r].folder
        gone == IF Cardinality(InCache \cup {f}) > MaxEntries THEN Oldest(f) ELSE {}
    IN /\ reader[r].step = "have"
       /\ order' = {o \in Entered(f) : o[1] \notin gone}
       /\ entries' = [g \in Folders |-> IF g \in gone THEN NoEntry
                                        ELSE IF g = f THEN [content |-> reader[r].content, age |-> 0]
                                        ELSE entries[g]]
       /\ reader' = [reader EXCEPT ![r] = Idle]
       /\ odd' = IF reader[r].content < data[f] THEN odd \cup {f} ELSE odd
       /\ UNCHANGED <<data, own, change, listed>>

-----------------------------------------------------------------------------
(* The user's changes: the rows first, then the cache, then the answer.    *)
Changed(F) == /\ \A f \in F : data[f] < MaxChanges
              /\ data' = [f \in Folders |-> IF f \in F THEN data[f] + 1 ELSE data[f]]
Begin(F, drop) == /\ change = NoChange
                  /\ Changed(F)
                  /\ change' = [drop |-> drop, touched |-> F]
                  /\ UNCHANGED <<own, entries, order, reader, listed>>
(* Flags and the mark "urgent": the folder of the mail.                    *)
mark_as_read(f) == Begin({f}, {f}) /\ UNCHANGED odd       \* mark_as_unseen, flag_message, set_urgent
batch_set_read(f) == Begin({f}, {f}) /\ UNCHANGED odd
(* The mail is not where the request says (any more): the number is marked *)
(* in every folder that has it, and the inbox dropped from the cache.      *)
MarkedElsewhere(F) == F # {} /\ Begin(F, {Inbox}) /\ odd' = odd \cup F
(* Moves: source and target (move_message, move_cross_account).  (Mutant:  *)
(* only the source.)                                                       *)
SourceOnly(f, g) == {f}
Dropped(f, g) == {f, g}
move_message(f, g) == f # g /\ Begin({f, g}, Dropped(f, g)) /\ UNCHANGED odd
(* Deletions, renamed and emptied folders: the whole account.              *)
delete_message(F) == F # {} /\ Begin(F, Folders) /\ UNCHANGED odd
(* delete_folder drops the account's lists, then works at the provider and *)
(* takes the rows out.                                                     *)
delete_folder(F) == /\ F # {} /\ change = NoChange
                    /\ Without(Folders)
                    /\ change' = [drop |-> {}, touched |-> F]
                    /\ odd' = odd \cup F
                    /\ UNCHANGED <<data, own, reader, listed>>
DeleteRows == /\ change.drop = {} /\ change.touched # {}
              /\ Changed(change.touched)
              /\ change' = NoChange
              /\ own' = [f \in Folders |-> IF f \in change.touched THEN data'[f] ELSE own[f]]
              /\ UNCHANGED <<entries, order, reader, listed, odd>>
invalidate == /\ change.drop # {}
              /\ Without(change.drop)
              /\ own' = [f \in Folders |-> IF f \in change.touched THEN data[f] ELSE own[f]]
              /\ change' = NoChange
              /\ UNCHANGED <<data, reader, listed, odd>>

Sync(f) == /\ Changed({f})
           /\ UNCHANGED <<own, entries, order, reader, change, listed, odd>>
Tick == /\ \E f \in Folders : Held(f)
        /\ entries' = [f \in Folders |-> IF entries[f].age <= Ttl THEN [entries[f] EXCEPT !.age = @ + 1]
                                         ELSE entries[f]]
        /\ UNCHANGED <<data, own, order, reader, change, listed, odd>>

Next == \/ \E r \in Readers : fetch_inbox_meta(r) \/ put(r) \/ \E f \in Folders : Ask(r, f)
        \/ \E f \in Folders : mark_as_read(f) \/ batch_set_read(f) \/ Sync(f)
        \/ \E f, g \in Folders : move_message(f, g)
        \/ \E F \in SUBSET Folders : MarkedElsewhere(F) \/ delete_message(F) \/ delete_folder(F)
        \/ DeleteRows \/ invalidate \/ Tick
Spec == Init /\ [][Next]_vars

-----------------------------------------------------------------------------
(* Properties.                                                             *)

Newest == listed.content >= listed.own
(* A list shows every change the user had been told of when asking for it, *)
(* unless a request read the folder before the change and stored the list  *)
(* after it, the change was made to a mail that was elsewhere, or the      *)
(* folder was deleted.                                                     *)
OwnChangesShown == Newest \/ listed.folder \in odd

=============================================================================
