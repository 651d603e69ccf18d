----------------------------- MODULE Attachments -----------------------------
(***************************************************************************)
(* Attachments: their rows (cache/attachments.rs), the store of their      *)
(* contents, one file for each content (cache/archive.rs), and those who   *)
(* use both at the same time: a draft being saved with its attachments     *)
(* (api/send.rs), the reader that loads one (api/messages.rs), cleaning up *)
(* and repair.  The database is locked for one section of a handler at a   *)
(* time; files are read without the lock, and a file half written by a     *)
(* crash stays where it is.                                                *)
(***************************************************************************)
EXTENDS Naturals, Sequences, Functions

CONSTANTS Synced,    \* mails of the provider, all with one number, in different folders
          Draft,     \* a local draft
          Names, Contents, None, Torn,
          Letters,   \* what the parts of a mail can be: a set of sequences of [name, content]
          MaxCrashes

NamesAssumption == /\ None \notin Contents /\ Torn \notin Contents \cup {None} /\ Draft \notin Synced
                   /\ Names # {} /\ Letters \subseteq Seq([name : Names, content : Contents]) /\ MaxCrashes \in Nat

VARIABLES real,      \* the parts each mail has: at the provider, or as the user wrote the draft
          eml,       \* mails with a file in the archive
          parts,     \* the rows: name, file (disk_path), content_cached
          files,     \* the store: what is in the file named by each content
          saving,    \* the request that saves the draft: its step and its parts
          reader,    \* the request that loads a content: step, mail, position, name, bytes
          crashes

vars == <<real, eml, parts, files, saving, reader, crashes>>

Mails == Synced \cup {Draft}
Part == [name : Names, content : Contents]
Row == [name : Names, disk : Contents \cup {None}, cached : BOOLEAN]
Bytes == Contents \cup {None, Torn}
Idle == [step |-> "idle", parts |-> <<>>]
NoReader == [step |-> "idle", mail |-> Draft, at |-> 1, name |-> CHOOSE n \in Names : TRUE, disk |-> None]

TypeOK == /\ real \in [Mails -> Seq(Part)] /\ eml \subseteq Synced
          /\ parts \in [Mails -> Seq(Row)]
          /\ files \in [Contents -> Bytes]
          /\ saving \in [step : {"idle", "meta", "content"}, parts : Seq(Part)]
          /\ reader \in [step : {"idle", "file", "eml", "imap"}, mail : Mails, at : Nat,
                         name : Names, disk : Contents \cup {None}]
          /\ crashes \in 0 .. MaxCrashes

(* The synchronisation has brought the mails of the provider.              *)
New(p) == [name |-> p.name, disk |-> None, cached |-> FALSE]
Rows(ps) == [i \in DOMAIN ps |-> New(ps[i])]
Init == /\ real \in {r \in [Mails -> Letters \cup {<<>>}] :
                       \A m \in Mails : r[m] = <<>> <=> m = Draft}
        /\ eml \in SUBSET Synced
        /\ parts = [m \in Mails |-> Rows(real[m])]
        /\ files = [c \in Contents |-> None]
        /\ saving = Idle /\ reader = NoReader
        /\ crashes = 0

-----------------------------------------------------------------------------
(* save_attachment for each of cs: what is there is not written again.     *)
Stored(cs) == [c \in Contents |-> IF c \in cs /\ files[c] = None THEN c ELSE files[c]]
ContentsOf(ps) == {ps[i].content : i \in DOMAIN ps}
(* The rows of a letter, by position: a row that is there keeps its file;  *)
(* rows beyond the last part go.                                           *)
Renamed(row, p) == [row EXCEPT !.name = p.name]
reconcile_attachments(rows, ps) ==
    [i \in DOMAIN ps |-> IF i \in DOMAIN rows THEN Renamed(rows[i], ps[i]) ELSE New(ps[i])]
Cached(row, c) == [row EXCEPT !.disk = c, !.cached = TRUE]

(* save_draft: the row of the mail, the rows of its parts, their contents, *)
(* each under a lock of its own.  Attachments over 25 MB end it after the  *)
(* first.                                                                  *)
save_draft(ps) == /\ saving = Idle /\ ps # real[Draft]
                  /\ saving' = [step |-> "meta", parts |-> ps]
                  /\ UNCHANGED <<real, eml, parts, files, reader, crashes>>
SaveMetas == /\ saving.step = "meta"
             /\ \/ /\ parts' = [parts EXCEPT ![Draft] = reconcile_attachments(@, saving.parts)]
                   /\ real' = [real EXCEPT ![Draft] = saving.parts]
                   /\ saving' = [saving EXCEPT !.step = "content"]
                \/ saving' = Idle /\ UNCHANGED <<real, parts>>
             /\ UNCHANGED <<eml, files, reader, crashes>>
(* (cache_content_dedup for each part) *)
SaveContents == /\ saving.step = "content"
                /\ parts' = [parts EXCEPT ![Draft] =
                               [i \in DOMAIN @ |-> IF i \in DOMAIN saving.parts
                                                   THEN Cached(@[i], saving.parts[i].content) ELSE @[i]]]
                /\ files' = Stored(ContentsOf(saving.parts))
                /\ saving' = Idle
                /\ UNCHANGED <<real, eml, reader, crashes>>
(* discard_draft, or the draft was sent: its rows go with it. *)
discard_draft == /\ saving = Idle /\ real[Draft] # <<>>
                 /\ real' = [real EXCEPT ![Draft] = <<>>]
                 /\ parts' = [parts EXCEPT ![Draft] = <<>>]
                 /\ UNCHANGED <<eml, files, saving, reader, crashes>>

-----------------------------------------------------------------------------
(* fetch_attachment_content: name and file under the lock, the file read   *)
(* without it; else the mail in the archive, where the name may be spelled *)
(* otherwise; else a fetch of the number from whatever folder is selected, *)
(* where another mail may have it.  The part is found again by its name.   *)
Answer == reader' = NoReader
ByName(ps, n) == CHOOSE i \in DOMAIN ps : ps[i].name = n /\ \A j \in DOMAIN ps : ps[j].name = n => i <= j
HasName(ps, n) == \E i \in DOMAIN ps : ps[i].name = n
Keep(c) == /\ files' = Stored({c})
           /\ parts' = IF reader.at \notin DOMAIN parts[reader.mail] THEN parts
                       ELSE [parts EXCEPT ![reader.mail][reader.at] = Cached(@, c)]

fetch_attachment_content(m, i) ==
    /\ reader = NoReader /\ i \in DOMAIN parts[m]
    /\ reader' = [step |-> "file", mail |-> m, at |-> i, name |-> parts[m][i].name, disk |-> parts[m][i].disk]
    /\ UNCHANGED <<real, eml, parts, files, saving, crashes>>
FromFile == /\ reader.step = "file"
            /\ IF reader.disk # None /\ files[reader.disk] # None THEN Answer
               ELSE reader' = [reader EXCEPT !.step = IF reader.mail \in eml THEN "eml" ELSE "imap"]
            /\ UNCHANGED <<real, eml, parts, files, saving, crashes>>
Found(ps) == /\ HasName(ps, reader.name)
             /\ LET c == ps[ByName(ps, reader.name)].content IN Answer /\ Keep(c)
FromEml == /\ reader.step = "eml"
           /\ \/ Found(real[reader.mail])
              \/ /\ reader' = [reader EXCEPT !.step = "imap"]
                 /\ UNCHANGED <<parts, files>>
           /\ UNCHANGED <<real, eml, saving, crashes>>
FromImap == /\ reader.step = "imap"
            /\ \/ reader.mail \in Synced /\ Found(real[reader.mail])
               \/ \E ps \in Letters : Found(ps)
               \/ Answer /\ UNCHANGED <<parts, files>>
            /\ UNCHANGED <<real, eml, saving, crashes>>
-----------------------------------------------------------------------------
(* Cleaning up: the files no row names go.  (Mutant: those whose content   *)
(* is not marked as cached any more.)                                      *)
AllRows == UNION {Range(parts[m]) : m \in Mails}
CachedOnly == {r.disk : r \in {r \in AllRows : r.cached}}
Referenced == {r.disk : r \in AllRows}
gc_orphaned_attachments ==
    /\ files' = [c \in Contents |-> IF c \in Referenced THEN files[c] ELSE None]
    /\ files' # files
    /\ UNCHANGED <<real, eml, parts, saving, reader, crashes>>
(* cleanup_content and clear_all_content take the mark, not the file.      *)
Unmarked(R) == parts' = [m \in Mails |-> [i \in DOMAIN parts[m] |->
                           IF <<m, i>> \in R THEN [parts[m][i] EXCEPT !.cached = FALSE] ELSE parts[m][i]]]
Marked == UNION {{<<m, i>> : i \in {i \in DOMAIN parts[m] : parts[m][i].cached}} : m \in Mails}
cleanup_content == /\ \E p \in Marked : Unmarked({p})
                   /\ UNCHANGED <<real, eml, files, saving, reader, crashes>>
clear_all_content == /\ Marked # {} /\ Unmarked(Marked)
                     /\ UNCHANGED <<real, eml, files, saving, reader, crashes>>
(* The repair drops names of files that are not there (flags of mails are  *)
(* no part of the model).                                                  *)
check_and_repair_attachments ==
    /\ parts' = [m \in Mails |-> [i \in DOMAIN parts[m] |->
                   IF parts[m][i].disk # None /\ files[parts[m][i].disk] = None
                   THEN [parts[m][i] EXCEPT !.disk = None] ELSE parts[m][i]]]
    /\ UNCHANGED <<real, eml, files, saving, reader, crashes>>

(* A crash ends the requests; the file being written may stay half written.*)
Writing == (IF saving.step = "content" THEN ContentsOf(saving.parts) ELSE {})
           \cup (IF reader.step \in {"eml", "imap"} THEN UNION {ContentsOf(real[m]) : m \in Synced} ELSE {})
Crash == /\ crashes < MaxCrashes /\ crashes' = crashes + 1
         /\ \/ \E c \in Writing : files[c] = None /\ files' = [files EXCEPT ![c] = Torn]
            \/ UNCHANGED files
         /\ saving' = Idle /\ reader' = NoReader
         /\ UNCHANGED <<real, eml, parts>>

Next == \/ \E ps \in Letters : save_draft(ps)
        \/ SaveMetas \/ SaveContents \/ discard_draft
        \/ \E m \in Mails : \E i \in DOMAIN parts[m] : fetch_attachment_content(m, i)
        \/ FromFile \/ FromEml \/ FromImap
        \/ gc_orphaned_attachments \/ cleanup_content \/ clear_all_content
        \/ check_and_repair_attachments \/ Crash
Spec == Init /\ [][Next]_vars

-----------------------------------------------------------------------------
(* Properties.                                                             *)

(* A row names no file that is gone: the contents of a draft are nowhere   *)
(* else.                                                                   *)
DraftsKeepContents == \A m \in Mails : \A i \in DOMAIN parts[m] :
                          parts[m][i].disk # None => files[parts[m][i].disk] # None

=============================================================================
