----------------------------- MODULE MailImport -----------------------------
(***************************************************************************)
(* Importing mailbox files into local folders of an account                *)
(* (api/import.rs).  A mail gets a number of its folder under one lock of  *)
(* the database, its file without, and its row under a second.             *)
(***************************************************************************)
EXTENDS Naturals, Sequences, FiniteSets

CONSTANTS Box,         \* the mails of each mailbox file, by the folder it becomes
          Anonymous,   \* mails without a message id
          Requests,    \* import requests that may run side by side
          MaxRequests, \* bound: requests begun
          MaxErrors,   \* bound: files that cannot be written or read
          MaxCrashes   \* bound: restarts

Folders == DOMAIN Box
Mails == UNION {{Box[f][i] : i \in 1 .. Len(Box[f])} : f \in Folders}
None == "none"
ImportAssumption == Box \in [Folders -> Seq(Mails)] /\ {MaxRequests, MaxErrors, MaxCrashes} \subseteq Nat

VARIABLES rows,      \* per folder, the rows by number
          files,     \* the archive
          job,
          imported,  \* mails some request counted as imported
          raced,     \* mails two requests looked for at the same time
          requests, errors, crashes
vars == <<rows, files, job, imported, raced, requests, errors, crashes>>

Numbers == 1 .. 2 \* an import takes the number after the confirmed ones, of which a folder has one at most
\* synced: the provider has confirmed the number; an import's row never is.
Row == [mail : Mails, parts : Mails \cup {None}, synced : BOOLEAN]
\* The path: number and message id; the slug of an anonymous mail is its number.
Path(f, n, mail) == <<f, n, IF mail \in Anonymous THEN None ELSE mail>>
Paths == Folders \X Numbers \X ((Mails \ Anonymous) \cup {None})
Idle == [step |-> "idle", boxes |-> {}, folder |-> None, next |-> 1, number |-> 0]

TypeOK == /\ \A f \in Folders : DOMAIN rows[f] \subseteq Numbers /\ \A n \in DOMAIN rows[f] : rows[f][n] \in Row
          /\ DOMAIN rows = Folders /\ files \in [Paths -> Mails \cup {None}]
          /\ job \in [Requests -> [step : {"idle", "box", "mail", "number", "write", "insert"},
                                   boxes : SUBSET Folders, folder : Folders \cup {None}, next : Nat,
                                   number : Numbers \cup {0}]]
          /\ imported \subseteq Mails /\ raced \subseteq Mails
          /\ requests \in 0 .. MaxRequests /\ errors \in 0 .. MaxErrors /\ crashes \in 0 .. MaxCrashes

\* The folders are new, or known at the provider already.
Fetched == {<<>>} \cup {<<[mail |-> mail, parts |-> mail, synced |-> TRUE]>> : mail \in Mails}
Init == /\ rows \in [Folders -> Fetched]
        /\ files = [p \in Paths |-> IF 1 \in DOMAIN rows[p[1]] /\ p = Path(p[1], 1, rows[p[1]][1].mail)
                                    THEN rows[p[1]][1].mail ELSE None]
        /\ job = [r \in Requests |-> Idle]
        /\ imported = {} /\ raced = {} /\ requests = 0 /\ errors = 0 /\ crashes = 0

Fails == errors < MaxErrors /\ errors' = errors + 1
Is(r, step) == job[r].step = step
Mail(r) == Box[job[r].folder][job[r].next]
Go(r, step) == job' = [job EXCEPT ![r].step = step]
Onward(r) == job' = [job EXCEPT ![r].step = "mail", ![r].next = @ + 1, ![r].number = 0]
Bounds == <<requests, errors, crashes>>

-----------------------------------------------------------------------------
\* import_mbox takes one mailbox, import_mbox_dir those of a directory.
Import(r, boxes) == /\ Is(r, "idle") /\ requests < MaxRequests /\ requests' = requests + 1
                    /\ job' = [job EXCEPT ![r] = [Idle EXCEPT !.step = "box", !.boxes = boxes]]
                    /\ UNCHANGED <<rows, files, imported, raced, errors, crashes>>

\* One mailbox after the other; a file that cannot be read ends the request.
NextBox(r) == /\ Is(r, "box") /\ job[r].boxes # {}
              /\ \/ UNCHANGED errors /\ \E f \in job[r].boxes :
                       job' = [job EXCEPT ![r] = [Idle EXCEPT !.step = "mail", !.folder = f, !.boxes = job[r].boxes \ {f}]]
                 \/ Fails /\ job' = [job EXCEPT ![r] = Idle]
              /\ UNCHANGED <<rows, files, imported, raced, requests, crashes>>
Answer(r) == /\ Is(r, "box") /\ job[r].boxes = {} /\ job' = [job EXCEPT ![r] = Idle]
             /\ UNCHANGED <<rows, files, imported, raced, Bounds>>

\* Known by its message id anywhere in the account.
HasConfirmed(mail) == \E f \in Folders : \E n \in DOMAIN rows[f] : rows[f][n].mail = mail /\ rows[f][n].synced
HasMail(mail) == \E f \in Folders : \E n \in DOMAIN rows[f] : rows[f][n].mail = mail
Duplicate(mail) == mail \notin Anonymous /\ HasMail(mail)
Seeks(r, mail) == job[r].step \in {"number", "write", "insert"} /\ Mail(r) = mail
NextMail(r) == /\ Is(r, "mail")
               /\ \/ job[r].next > Len(Box[job[r].folder]) /\ Go(r, "box") /\ UNCHANGED raced
                  \/ /\ job[r].next <= Len(Box[job[r].folder])
                     /\ IF Duplicate(Mail(r)) THEN Onward(r) /\ UNCHANGED raced
                        ELSE /\ Go(r, "number")
                             /\ raced' = IF \E q \in Requests \ {r} : Seeks(q, Mail(r)) THEN raced \cup {Mail(r)}
                                         ELSE raced
               /\ UNCHANGED <<rows, files, imported, Bounds>>

\* The highest number the provider has confirmed in the folder, plus one.
Confirmed(f) == {n \in DOMAIN rows[f] : rows[f][n].synced}
NextNumber(f) == IF Confirmed(f) = {} THEN 1 ELSE 1 + CHOOSE n \in Confirmed(f) : \A k \in Confirmed(f) : k <= n
Number(r) == /\ Is(r, "number")
             /\ job' = [job EXCEPT ![r].step = "write", ![r].number = NextNumber(job[r].folder)]
             /\ UNCHANGED <<rows, files, imported, raced, Bounds>>

WriteFile(r) == /\ Is(r, "write")
                /\ \/ files' = [files EXCEPT ![Path(job[r].folder, job[r].number, Mail(r))] = Mail(r)]
                      /\ Go(r, "insert") /\ UNCHANGED errors
                   \/ Fails /\ job' = [job EXCEPT ![r] = Idle] /\ UNCHANGED files
                /\ UNCHANGED <<rows, imported, raced, requests, crashes>>

\* INSERT OR IGNORE, then the attachments, of whatever row has the number now.
With(row, f, n) == [rows EXCEPT ![f] = [k \in DOMAIN @ \cup {n} |-> IF k = n THEN row ELSE @[k]]]
Inserted(r) == LET f == job[r].folder
               n == job[r].number IN
           IF n \in DOMAIN rows[f] THEN rows[f][n] ELSE [mail |-> Mail(r), parts |-> None, synced |-> FALSE]
Insert(r) == /\ Is(r, "insert") /\ Onward(r)
             /\ rows' = With([Inserted(r) EXCEPT !.parts = Mail(r)], job[r].folder, job[r].number)
             /\ imported' = imported \cup {Mail(r)}
             /\ UNCHANGED <<files, raced, Bounds>>

import_mbox_content(r) == NextMail(r) \/ Number(r) \/ WriteFile(r) \/ Insert(r)

\* Rows said to have attachments, but without any, get them from their file.
attachments_backfill(f) ==
    \E n \in DOMAIN rows[f] :
        /\ rows[f][n].parts = None
        /\ rows' = With([rows[f][n] EXCEPT !.parts = files[Path(f, n, rows[f][n].mail)]], f, n)
        /\ UNCHANGED <<files, job, imported, raced, Bounds>>

\* Row and attachments are committed one after the other.
Restart == /\ crashes < MaxCrashes /\ crashes' = crashes + 1 /\ job' = [r \in Requests |-> Idle]
           /\ \/ UNCHANGED rows
              \/ \E r \in Requests : Is(r, "insert") /\ rows' = With(Inserted(r), job[r].folder, job[r].number)
           /\ UNCHANGED <<files, imported, raced, requests, errors>>

Next == \/ Restart
        \/ \E f \in Folders : attachments_backfill(f)
        \/ \E r \in Requests : \/ \E boxes \in {{f} : f \in Folders} \cup {Folders} : Import(r, boxes)
                               \/ NextBox(r) \/ Answer(r) \/ import_mbox_content(r)

Spec == Init /\ [][Next]_vars

-----------------------------------------------------------------------------
Places(mail) == {p \in Folders \X Numbers : p[2] \in DOMAIN rows[p[1]] /\ rows[p[1]][p[2]].mail = mail}

(* However often a mailbox is imported, after failures and restarts, an    *)
(* import adds no mail with a message id that the account has already.     *)
(* Excused are mails two requests looked for at the same time.             *)
NoSecondCopy == \A mail \in Mails \ (Anonymous \cup raced) : \A p \in Places(mail) :
                    rows[p[1]][p[2]].synced \/ Places(mail) = {p}

(* A mail a request counted as imported has a row ("a messages row is      *)
(* inserted (... uid = max_uid+1 per folder ...)", api/import.rs:7-8).     *)
ImportedIsThere == \A mail \in imported : Places(mail) # {}
=============================================================================
