---------------------------- MODULE MailboxProofs ---------------------------
(***************************************************************************)
(* What each part of the mailbox keeps true: its inductive invariant holds *)
(* at first and every step keeps it, for any mails, folders, paths and     *)
(* bounds.                                                                 *)
(***************************************************************************)
EXTENDS Mailbox, FiniteSetTheorems, SequenceTheorems, WellFoundedInduction, TLAPS

-----------------------------------------------------------------------------
(***************************************************************************)
(* Attachments: a file a row names stays in the store, however saving a    *)
(* draft, cleaning up, readers and crashes interleave                      *)
(* (cache/attachments.rs).                                                 *)
(***************************************************************************)
AttachmentsInv == At!TypeOK /\ At!DraftsKeepContents
AttachmentsReaders == [step : {"idle", "file", "eml", "imap"}, mail : At!Mails, at : Nat, name : Names, disk : Contents \cup {Absent}]

LEMMA AttachmentsLeast == ASSUME NEW S \in SUBSET Nat, S # {} PROVE \E k \in S : \A j \in S : k <= j
  <1>1. PICK k \in S : \A j \in S : ~(<<j, k>> \in OpToRel(<, Nat))
    BY NatLessThanWellFounded, WFMin
  <1>2. \A j \in S : ~(j < k)
    BY <1>1 DEF OpToRel
  <1> QED
    BY <1>2

LEMMA AttachmentsSequenceOf ==
    ASSUME NEW S, NEW n \in Nat, NEW f \in [1 .. n -> S]
    PROVE  f \in Seq(S)
  OBVIOUS

LEMMA AttachmentsPartsOf ==
    ASSUME NEW ps \in Seq(At!Part)
    PROVE  /\ At!ContentsOf(ps) \subseteq Contents
           /\ \A i \in DOMAIN ps : ps[i].name \in Names /\ ps[i].content \in Contents /\ At!New(ps[i]) \in At!Row
  <1>1. \A i \in DOMAIN ps : ps[i] \in At!Part
    OBVIOUS
  <1>2. \A p \in At!Part : p.name \in Names /\ p.content \in Contents /\ At!New(p) \in At!Row
    BY DEF At!Part, At!New, At!Row
  <1> QED
    BY <1>1, <1>2 DEF At!ContentsOf

LEMMA AttachmentsRowsAreRows == ASSUME NEW ps \in Seq(At!Part) PROVE At!Rows(ps) \in Seq(At!Row)
  <1>1. At!Rows(ps) \in [1 .. Len(ps) -> At!Row] /\ Len(ps) \in Nat
    BY AttachmentsPartsOf DEF At!Rows
  <1> QED
    BY <1>1, AttachmentsSequenceOf

LEMMA AttachmentsInitially == ASSUME At!NamesAssumption PROVE At!Init => AttachmentsInv
  <1> SUFFICES ASSUME At!Init PROVE AttachmentsInv
    OBVIOUS
  <1>1. \A m \in At!Mails : real[m] \in Seq(At!Part)
    <2>1. Letters \subseteq Seq(At!Part)
      BY Zenon DEF At!NamesAssumption, At!Part
    <2>2. <<>> \in Seq(At!Part)
      OBVIOUS
    <2> QED
      BY <2>1, <2>2 DEF At!Init
  <1>2. real \in [At!Mails -> Seq(At!Part)]
    BY <1>1 DEF At!Init
  <1>3. parts \in [At!Mails -> Seq(At!Row)]
    BY <1>1, AttachmentsRowsAreRows DEF At!Init
  <1>4. /\ At!NoReader \in AttachmentsReaders
        /\ At!Idle \in [step : {"idle", "meta", "content"}, parts : Seq(At!Part)]
    BY DEF At!NoReader, At!Idle, At!NamesAssumption, At!Mails, AttachmentsReaders
  <1>5. At!TypeOK
    BY <1>2, <1>3, <1>4 DEF At!TypeOK, At!Init, At!Bytes, At!NamesAssumption, AttachmentsReaders
  <1>6. \A m \in At!Mails : \A i \in DOMAIN parts[m] : parts[m][i].disk = Absent
    BY DEF At!Init, At!Rows, At!New
  <1> QED
    BY <1>5, <1>6 DEF AttachmentsInv, At!DraftsKeepContents

LEMMA AttachmentsReconciled ==
    ASSUME NEW lines \in Seq(At!Row), NEW ps \in Seq(At!Part)
    PROVE  /\ At!reconcile_attachments(lines, ps) \in Seq(At!Row)
           /\ DOMAIN At!reconcile_attachments(lines, ps) = DOMAIN ps
           /\ \A i \in DOMAIN ps : At!reconcile_attachments(lines, ps)[i].disk =
                                          IF i \in DOMAIN lines THEN lines[i].disk ELSE Absent
  <1>1. \A line \in At!Row, p \in At!Part : /\ At!Renamed(line, p) \in At!Row /\ At!Renamed(line, p).disk = line.disk
                                            /\ At!New(p).disk = Absent
    BY DEF At!Renamed, At!Row, At!Part, At!New
  <1>2. (\A i \in DOMAIN ps : ps[i] \in At!Part) /\ (\A i \in DOMAIN lines : lines[i] \in At!Row)
    OBVIOUS
  <1>3. At!reconcile_attachments(lines, ps) \in [1 .. Len(ps) -> At!Row] /\ Len(ps) \in Nat
    BY <1>1, <1>2, AttachmentsPartsOf DEF At!reconcile_attachments
  <1> QED
    BY <1>1, <1>2, <1>3, AttachmentsSequenceOf DEF At!reconcile_attachments

LEMMA AttachmentsCachedRow ==
    ASSUME NEW line \in At!Row, NEW c \in Contents
    PROVE  At!Cached(line, c) \in At!Row /\ At!Cached(line, c).disk = c
  BY DEF At!Cached, At!Row

LEMMA AttachmentsStoredFiles ==
    ASSUME At!NamesAssumption, At!TypeOK, NEW cs \in SUBSET Contents
    PROVE  /\ At!Stored(cs) \in [Contents -> At!Bytes]
           /\ \A c \in Contents : files[c] # Absent \/ c \in cs => At!Stored(cs)[c] # Absent
  BY DEF At!Stored, At!TypeOK, At!Bytes, At!NamesAssumption

LEMMA AttachmentsFinding ==
    ASSUME At!NamesAssumption, AttachmentsInv, NEW ps \in Seq(At!Part), At!Found(ps),
           UNCHANGED <<real, eml, saving, crashes>>
    PROVE  AttachmentsInv'
  <1> DEFINE c == ps[At!ByName(ps, reader.name)].content
             m == reader.mail
             i == reader.at
  <1>1. c \in Contents
    <2> DEFINE S == {k \in DOMAIN ps : ps[k].name = reader.name}
    <2>1. S # {} /\ S \subseteq Nat
      BY DEF At!Found, At!HasName
    <2>2. \E k \in DOMAIN ps : ps[k].name = reader.name /\ \A j \in DOMAIN ps : ps[j].name = reader.name => k <= j
      BY <2>1, AttachmentsLeast
    <2>3. At!ByName(ps, reader.name) \in DOMAIN ps
      BY <2>2 DEF At!ByName
    <2> QED
      BY <2>3, AttachmentsPartsOf
  <1>2. m \in At!Mails /\ parts[m] \in Seq(At!Row) /\ files' = At!Stored({c})
    BY DEF AttachmentsInv, At!TypeOK, At!Found, At!Keep
  <1>3. /\ files' \in [Contents -> At!Bytes] /\ files'[c] # Absent
        /\ \A d \in Contents : files[d] # Absent => files'[d] # Absent
    BY <1>1, <1>2, AttachmentsStoredFiles DEF AttachmentsInv
  <1>4. reader' \in AttachmentsReaders
    BY DEF At!Found, At!Answer, At!NoReader, At!NamesAssumption, At!Mails, AttachmentsReaders
  <1>5. parts' \in [At!Mails -> Seq(At!Row)] /\ At!DraftsKeepContents'
    <2>1. CASE i \notin DOMAIN parts[m]
      <3>1. parts' = parts
        BY <2>1 DEF At!Found, At!Keep
      <3>2. \A n \in At!Mails : \A k \in DOMAIN parts[n] : parts[n][k] \in At!Row
        BY DEF AttachmentsInv, At!TypeOK
      <3>3. \A line \in At!Row : line.disk \in Contents \cup {Absent}
        BY DEF At!Row
      <3> QED
        BY <1>3, <3>1, <3>2, <3>3 DEF AttachmentsInv, At!TypeOK, At!DraftsKeepContents
    <2>2. CASE i \in DOMAIN parts[m]
      <3>1. parts' = [parts EXCEPT ![m] = [parts[m] EXCEPT ![i] = At!Cached(parts[m][i], c)]]
        BY <2>2 DEF At!Found, At!Keep
      <3>2. parts[m][i] \in At!Row
        BY <1>2, <2>2
      <3>3. At!Cached(parts[m][i], c) \in At!Row /\ At!Cached(parts[m][i], c).disk = c
        BY <1>1, <3>2, AttachmentsCachedRow
      <3>4. [parts[m] EXCEPT ![i] = At!Cached(parts[m][i], c)] \in Seq(At!Row)
        BY <1>2, <2>2, <3>3
      <3>5. parts' \in [At!Mails -> Seq(At!Row)]
        BY <3>1, <3>4 DEF AttachmentsInv, At!TypeOK
      <3>6. ASSUME NEW n \in At!Mails, NEW k \in DOMAIN parts'[n], parts'[n][k].disk # Absent
            PROVE  files'[parts'[n][k].disk] # Absent
        <4>1. CASE n = m /\ k = i
          BY <1>2, <1>3, <2>2, <3>1, <3>3, <4>1 DEF AttachmentsInv, At!TypeOK
        <4>2. CASE ~(n = m /\ k = i)
          <5>1. k \in DOMAIN parts[n] /\ parts'[n][k] = parts[n][k]
            BY <1>2, <2>2, <3>1, <4>2 DEF AttachmentsInv, At!TypeOK
          <5>2. parts[n][k] \in At!Row
            BY <5>1 DEF AttachmentsInv, At!TypeOK
          <5>3. parts[n][k].disk \in Contents
            BY <3>6, <5>1, <5>2 DEF At!Row
          <5> QED
            BY <1>3, <3>6, <5>1, <5>3 DEF AttachmentsInv, At!DraftsKeepContents
        <4> QED
          BY <4>1, <4>2
      <3> QED
        BY <3>5, <3>6 DEF At!DraftsKeepContents
    <2> QED
      BY <2>1, <2>2
  <1> QED
    BY <1>3, <1>4, <1>5 DEF AttachmentsInv, At!TypeOK, AttachmentsReaders, At!Mails

LEMMA AttachmentsAnswering ==
    ASSUME At!NamesAssumption, At!Answer PROVE reader' \in AttachmentsReaders
  BY DEF At!Answer, At!NoReader, At!NamesAssumption, At!Mails, AttachmentsReaders

(* Rows keep their file or lose its name, and no file goes that one names. *)
LEMMA AttachmentsInductive ==
    ASSUME At!NamesAssumption, AttachmentsInv, [At!Next]_At!vars
    PROVE  AttachmentsInv'
  <1> USE DEF At!NamesAssumption, AttachmentsInv
  <1>1. /\ \A m \in At!Mails : \A i \in DOMAIN parts[m] : parts[m][i] \in At!Row
        /\ \A line \in At!Row : line.disk \in Contents \cup {Absent}
        /\ Draft \in At!Mails /\ reader \in AttachmentsReaders
    <2>1. \A m \in At!Mails : parts[m] \in Seq(At!Row)
      BY DEF At!TypeOK
    <2>2. \A m \in At!Mails : \A i \in DOMAIN parts[m] : parts[m][i] \in At!Row
      BY <2>1
    <2>3. \A line \in At!Row : line.disk \in Contents \cup {Absent}
      BY DEF At!Row
    <2> QED
      BY <2>2, <2>3 DEF At!TypeOK, At!Mails, AttachmentsReaders
  <1>2. ASSUME NEW ps \in Letters, At!save_draft(ps) PROVE AttachmentsInv'
    <2>1. ps \in Seq(At!Part)
      BY Zenon DEF At!Part
    <2> QED
      BY <1>2, <2>1 DEF At!save_draft, At!TypeOK, At!DraftsKeepContents, At!Mails
  <1>3. ASSUME At!SaveMetas PROVE AttachmentsInv'
    <2> DEFINE lines == At!reconcile_attachments(parts[Draft], saving.parts)
    <2>1. /\ saving.parts \in Seq(At!Part) /\ parts[Draft] \in Seq(At!Row)
          /\ At!Idle \in [step : {"idle", "meta", "content"}, parts : Seq(At!Part)]
      BY <1>1 DEF At!TypeOK, At!Idle
    <2>2. /\ lines \in Seq(At!Row) /\ DOMAIN lines = DOMAIN saving.parts
          /\ \A i \in DOMAIN lines : lines[i].disk = IF i \in DOMAIN parts[Draft] THEN parts[Draft][i].disk ELSE Absent
      BY <2>1, AttachmentsReconciled
    <2>3. CASE saving' = At!Idle /\ UNCHANGED <<real, parts>>
      BY <1>3, <2>1, <2>3 DEF At!SaveMetas, At!TypeOK, At!DraftsKeepContents, At!Mails
    <2>4. CASE /\ parts' = [parts EXCEPT ![Draft] = lines]
               /\ real' = [real EXCEPT ![Draft] = saving.parts]
               /\ saving' = [saving EXCEPT !.step = "content"]
      <3>1. At!TypeOK'
        BY <1>3, <2>1, <2>2, <2>4 DEF At!SaveMetas, At!TypeOK, At!Mails
      <3>2. At!DraftsKeepContents'
        BY <1>1, <1>3, <2>2, <2>4 DEF At!SaveMetas, At!TypeOK, At!DraftsKeepContents, At!Mails
      <3> QED
        BY <3>1, <3>2
    <2> QED
      BY <1>3, <2>3, <2>4 DEF At!SaveMetas
  <1>4. ASSUME At!SaveContents PROVE AttachmentsInv'
    <2> DEFINE cs == At!ContentsOf(saving.parts)
               lines == [i \in DOMAIN parts[Draft] |-> IF i \in DOMAIN saving.parts
                           THEN At!Cached(parts[Draft][i], saving.parts[i].content) ELSE parts[Draft][i]]
    <2>1. /\ saving.parts \in Seq(At!Part) /\ parts[Draft] \in Seq(At!Row)
          /\ At!Idle \in [step : {"idle", "meta", "content"}, parts : Seq(At!Part)]
      BY <1>1 DEF At!TypeOK, At!Idle
    <2>2. /\ files' = At!Stored(cs) /\ cs \subseteq Contents
          /\ parts' = [parts EXCEPT ![Draft] = lines]
      BY <1>4, <2>1, AttachmentsPartsOf DEF At!SaveContents
    <2>3. /\ files' \in [Contents -> At!Bytes]
          /\ \A c \in Contents : files[c] # Absent \/ c \in cs => files'[c] # Absent
      BY <2>2, AttachmentsStoredFiles
    <2>4. \A i \in DOMAIN saving.parts : saving.parts[i].content \in cs
      BY DEF At!ContentsOf
    <2>5. \A i \in DOMAIN lines : /\ lines[i] \in At!Row
                                  /\ i \in DOMAIN saving.parts => lines[i].disk \in cs
                                  /\ i \notin DOMAIN saving.parts => lines[i] = parts[Draft][i]
      BY <1>1, <2>2, <2>4, AttachmentsCachedRow
    <2>6. /\ lines \in [1 .. Len(parts[Draft]) -> At!Row] /\ Len(parts[Draft]) \in Nat
          /\ DOMAIN lines = DOMAIN parts[Draft]
      <3>1. DOMAIN parts[Draft] = 1 .. Len(parts[Draft]) /\ Len(parts[Draft]) \in Nat
        BY <2>1
      <3> QED
        BY <2>5, <3>1
    <2>7. lines \in Seq(At!Row)
      BY <2>6, AttachmentsSequenceOf
    <2>8. At!TypeOK'
      BY <1>4, <2>1, <2>2, <2>3, <2>7 DEF At!SaveContents, At!TypeOK, At!Mails
    <2>9. ASSUME NEW m \in At!Mails, NEW i \in DOMAIN parts'[m], parts'[m][i].disk # Absent
          PROVE  files'[parts'[m][i].disk] # Absent
      <3>1. CASE m = Draft
        <4>1. parts'[m] = lines /\ i \in DOMAIN lines
          BY <2>2, <2>9, <3>1 DEF At!TypeOK
        <4>2. CASE i \in DOMAIN saving.parts
          BY <2>2, <2>3, <2>5, <4>1, <4>2
        <4>3. CASE i \notin DOMAIN saving.parts
          <5>1. /\ i \in DOMAIN parts[Draft] /\ lines[i].disk = parts[Draft][i].disk
                /\ lines[i].disk \in Contents
            BY <1>1, <2>5, <2>6, <2>9, <4>1, <4>3
          <5> QED
            BY <1>1, <2>3, <2>9, <4>1, <5>1 DEF At!DraftsKeepContents
        <4> QED
          BY <4>2, <4>3
      <3>2. CASE m # Draft
        <4>1. parts'[m] = parts[m] /\ parts[m][i].disk \in Contents
          BY <1>1, <2>2, <2>9, <3>2 DEF At!TypeOK
        <4> QED
          BY <2>3, <2>9, <4>1 DEF At!DraftsKeepContents
      <3> QED
        BY <3>1, <3>2
    <2> QED
      BY <2>8, <2>9 DEF At!DraftsKeepContents
  <1>5. ASSUME At!discard_draft PROVE AttachmentsInv'
    <2>1. At!TypeOK'
      BY <1>5 DEF At!discard_draft, At!TypeOK, At!Mails
    <2>2. \A m \in At!Mails : \A i \in DOMAIN parts'[m] : m # Draft /\ parts'[m] = parts[m]
      BY <1>1, <1>5 DEF At!discard_draft, At!TypeOK
    <2> QED
      BY <1>5, <2>1, <2>2 DEF At!discard_draft, At!DraftsKeepContents, At!Mails
  <1>6. ASSUME NEW m \in At!Mails, NEW i \in DOMAIN parts[m], At!fetch_attachment_content(m, i)
        PROVE  AttachmentsInv'
    <2>1. parts[m][i] \in At!Row /\ i \in Nat
      BY <1>1 DEF At!TypeOK
    <2>2. parts[m][i].name \in Names /\ parts[m][i].disk \in Contents \cup {Absent}
      BY <2>1 DEF At!Row
    <2>3. reader' \in AttachmentsReaders
      BY <1>6, <2>1, <2>2 DEF At!fetch_attachment_content, AttachmentsReaders
    <2> QED
      BY <1>6, <2>3 DEF At!fetch_attachment_content, At!TypeOK, At!DraftsKeepContents, At!Mails,
         AttachmentsReaders
  <1>7. ASSUME At!FromFile PROVE AttachmentsInv'
    <2>1. reader' \in AttachmentsReaders
      BY <1>1, <1>7, AttachmentsAnswering DEF At!FromFile, AttachmentsReaders
    <2> QED
      BY <1>7, <2>1 DEF At!FromFile, At!TypeOK, At!DraftsKeepContents, At!Mails, AttachmentsReaders
  <1>8. ASSUME At!FromEml PROVE AttachmentsInv'
    <2>1. real[reader.mail] \in Seq(At!Part)
      BY <1>1 DEF At!TypeOK, AttachmentsReaders
    <2>2. CASE At!Found(real[reader.mail])
      BY <1>8, <2>1, <2>2, AttachmentsFinding DEF At!FromEml
    <2>3. CASE reader' = [reader EXCEPT !.step = "imap"] /\ UNCHANGED <<parts, files>>
      <3>1. reader' \in AttachmentsReaders
        BY <1>1, <2>3 DEF AttachmentsReaders
      <3> QED
        BY <1>8, <2>3, <3>1 DEF At!FromEml, At!TypeOK, At!DraftsKeepContents, At!Mails,
           AttachmentsReaders
    <2> QED
      BY <1>8, <2>2, <2>3 DEF At!FromEml
  <1>9. ASSUME At!FromImap PROVE AttachmentsInv'
    <2>1. CASE reader.mail \in Synced /\ At!Found(real[reader.mail])
      <3>1. real[reader.mail] \in Seq(At!Part)
        BY <1>1 DEF At!TypeOK, AttachmentsReaders
      <3> QED
        BY <1>9, <2>1, <3>1, AttachmentsFinding DEF At!FromImap
    <2>2. ASSUME NEW ps \in Letters, At!Found(ps) PROVE AttachmentsInv'
      <3>1. ps \in Seq(At!Part)
        BY Zenon DEF At!Part
      <3> QED
        BY <1>9, <2>2, <3>1, AttachmentsFinding DEF At!FromImap
    <2>3. CASE At!Answer /\ UNCHANGED <<parts, files>>
      <3>1. reader' \in AttachmentsReaders
        BY <2>3, AttachmentsAnswering
      <3> QED
        BY <1>9, <2>3, <3>1 DEF At!FromImap, At!TypeOK, At!DraftsKeepContents, At!Mails,
           AttachmentsReaders
    <2> QED
      BY <1>9, <2>1, <2>2, <2>3 DEF At!FromImap
  <1>10. ASSUME At!gc_orphaned_attachments PROVE AttachmentsInv'
    <2>1. At!TypeOK'
      BY <1>10 DEF At!gc_orphaned_attachments, At!TypeOK, At!Mails, At!Bytes
    <2>2. ASSUME NEW m \in At!Mails, NEW i \in DOMAIN parts[m], parts[m][i].disk # Absent
          PROVE  files'[parts[m][i].disk] # Absent
      <3>1. parts[m][i] \in At!AllRows
        BY DEF At!AllRows, At!Range
      <3>2. parts[m][i].disk \in At!Referenced /\ parts[m][i].disk \in Contents
        BY <1>1, <2>2, <3>1 DEF At!Referenced
      <3> QED
        BY <1>10, <2>2, <3>2 DEF At!gc_orphaned_attachments, At!DraftsKeepContents
    <2> QED
      BY <1>10, <2>1, <2>2 DEF At!gc_orphaned_attachments, At!DraftsKeepContents, At!Mails
  <1>11. ASSUME NEW R, At!Unmarked(R), UNCHANGED <<real, eml, files, saving, reader, crashes>>
         PROVE  AttachmentsInv'
    <2>1. \A line \in At!Row : [line EXCEPT !.cached = FALSE] \in At!Row /\ [line EXCEPT !.cached = FALSE].disk = line.disk
      BY DEF At!Row
    <2>2. \A m \in At!Mails : \A i \in DOMAIN parts[m] : /\ DOMAIN parts'[m] = DOMAIN parts[m] /\ parts'[m][i] \in At!Row
                                                         /\ parts'[m][i].disk = parts[m][i].disk
      BY <1>1, <1>11, <2>1 DEF At!Unmarked
    <2>3. \A m \in At!Mails : parts'[m] \in Seq(At!Row) /\ DOMAIN parts'[m] = DOMAIN parts[m]
      <3> SUFFICES ASSUME NEW m \in At!Mails
                   PROVE  parts'[m] \in Seq(At!Row) /\ DOMAIN parts'[m] = DOMAIN parts[m]
        OBVIOUS
      <3>1. DOMAIN parts[m] = 1 .. Len(parts[m]) /\ Len(parts[m]) \in Nat
        BY DEF At!TypeOK
      <3>2. parts'[m] \in [1 .. Len(parts[m]) -> At!Row]
        BY <1>11, <2>2, <3>1 DEF At!Unmarked
      <3> QED
        BY <3>1, <3>2, AttachmentsSequenceOf
    <2>4. parts' \in [At!Mails -> Seq(At!Row)]
      BY <1>11, <2>3 DEF At!Unmarked
    <2>5. At!DraftsKeepContents'
      BY <1>11, <2>2, <2>3 DEF At!DraftsKeepContents, At!Mails
    <2> QED
      BY <1>11, <2>4, <2>5 DEF At!TypeOK, At!Mails
  <1>12. ASSUME At!check_and_repair_attachments PROVE AttachmentsInv'
    <2>1. \A line \in At!Row : [line EXCEPT !.disk = Absent] \in At!Row /\ [line EXCEPT !.disk = Absent].disk = Absent
      BY DEF At!Row
    <2>2. \A m \in At!Mails : \A i \in DOMAIN parts[m] :
              /\ DOMAIN parts'[m] = DOMAIN parts[m] /\ parts'[m][i] \in At!Row
              /\ parts'[m][i].disk = Absent \/ parts'[m][i].disk = parts[m][i].disk
      BY <1>1, <1>12, <2>1 DEF At!check_and_repair_attachments
    <2>3. \A m \in At!Mails : parts'[m] \in Seq(At!Row) /\ DOMAIN parts'[m] = DOMAIN parts[m]
      <3> SUFFICES ASSUME NEW m \in At!Mails
                   PROVE  parts'[m] \in Seq(At!Row) /\ DOMAIN parts'[m] = DOMAIN parts[m]
        OBVIOUS
      <3>1. DOMAIN parts[m] = 1 .. Len(parts[m]) /\ Len(parts[m]) \in Nat
        BY DEF At!TypeOK
      <3>2. parts'[m] \in [1 .. Len(parts[m]) -> At!Row]
        BY <1>12, <2>2, <3>1 DEF At!check_and_repair_attachments
      <3> QED
        BY <3>1, <3>2, AttachmentsSequenceOf
    <2>4. parts' \in [At!Mails -> Seq(At!Row)]
      BY <1>12, <2>3 DEF At!check_and_repair_attachments
    <2>5. At!DraftsKeepContents'
      BY <1>12, <2>2, <2>3 DEF At!check_and_repair_attachments, At!DraftsKeepContents, At!Mails
    <2> QED
      BY <1>12, <2>4, <2>5 DEF At!check_and_repair_attachments, At!TypeOK, At!Mails
  <1>13. ASSUME At!Crash PROVE AttachmentsInv'
    <2>1. /\ reader' \in AttachmentsReaders
          /\ At!Idle \in [step : {"idle", "meta", "content"}, parts : Seq(At!Part)]
          /\ crashes' \in 0 .. MaxCrashes
      BY <1>13 DEF At!Crash, At!NoReader, At!Idle, AttachmentsReaders, At!TypeOK, At!Mails
    <2>2. /\ files' \in [Contents -> At!Bytes]
          /\ \A c \in Contents : files[c] # Absent => files'[c] # Absent
      BY <1>13 DEF At!Crash, At!TypeOK, At!Bytes
    <2>3. At!TypeOK'
      BY <1>13, <2>1, <2>2 DEF At!Crash, At!TypeOK, At!Mails, AttachmentsReaders
    <2> QED
      BY <1>1, <1>13, <2>2, <2>3 DEF At!Crash, At!DraftsKeepContents, At!Mails
  <1>14. ASSUME UNCHANGED At!vars PROVE AttachmentsInv'
    BY <1>14 DEF At!vars, At!TypeOK, At!DraftsKeepContents, At!Mails
  <1> QED
    BY <1>2, <1>3, <1>4, <1>5, <1>6, <1>7, <1>8, <1>9, <1>10, <1>11, <1>12, <1>13, <1>14
       DEF At!Next, At!cleanup_content, At!clear_all_content

-----------------------------------------------------------------------------
(***************************************************************************)
(* Moves and deletions through the API: the mail is whole somewhere at     *)
(* every moment (api/messages.rs).                                         *)
(***************************************************************************)
(* A number is given once: what a folder has is below its next number.     *)
MovesGivenOnce == \A p \in Mo!Place : source[p] # Absent => p[2] < uidnext[p[1]]
(* What the provider removes for good is deleted by the user, or whole in  *)
(* the archive, or was taken for a mail that is.                           *)
MovesRemovable == \A op \in ops : op.to = Absent => op.mail \in dismissed \cup archive \cup unproven
(* The number a request read is that mail's, if anybody's, and what is     *)
(* deleted there was given to the other account before.                    *)
MovesReadThere == /\ request.step # "none" => request.from \in MailFolders
                  /\ request.step = "queue" => request.got \in archive \cup {Absent}
                  /\ request.step \in {"append", "hard delete"} =>
                    /\ request.number \in Uids /\ request.got \in Messages /\ Mo!There \in {Absent, request.got}
                    /\ request.number < uidnext[request.from]
                  /\ request.step \in {"verify", "fetch"} => request.got = Absent
                  /\ request.step = "local" => request.got \in Messages
                  /\ request.step = "hard delete" => request.got \in given
                  /\ request.step \in {"verify", "fetch", "queue"} => request.mail \in Messages
MovesInv == Mo!TypeOK /\ MovesGivenOnce /\ MovesRemovable /\ MovesReadThere /\ Mo!MovedNotLost

(* The module counts as the theorems about finite sets do. *)
LEMMA MovesCounted ==
    \A S : Mo!Cardinality(S) = Cardinality(S) /\ (Mo!IsFiniteSet(S) <=> IsFiniteSet(S))
  BY DEF Mo!Cardinality, Cardinality, Mo!IsFiniteSet, IsFiniteSet

LEMMA MovesInitially == ASSUME Mo!MovesAssumption PROVE Mo!Init => MovesInv
  <1> SUFFICES ASSUME Mo!Init PROVE MovesInv
    OBVIOUS
  <1>1. \A m \in Messages : Mo!At(m) # {}
    <2> SUFFICES ASSUME NEW m \in Messages PROVE Mo!At(m) # {}
      OBVIOUS
    <2>1. Mo!Cardinality(Mo!At(m)) = 1
      BY DEF Mo!Init, Mo!At
    <2> QED
      BY <2>1, FS_EmptySet, MovesCounted
  <1>2. \A m \in Messages : row[m] \in [folder : MailFolders \cup {Local}, number : Nat]
    <2> SUFFICES ASSUME NEW m \in Messages
                 PROVE  row[m] \in [folder : MailFolders \cup {Local}, number : Nat]
      OBVIOUS
    <2> DEFINE p == CHOOSE p \in Mo!Place : source[p] = m
    <2>1. p \in Mo!Place
      BY <1>1 DEF Mo!At
    <2>2. row[m] = [folder |-> p[1], number |-> p[2]]
      BY DEF Mo!Init
    <2> HIDE DEF p
    <2>3. p[1] \in MailFolders /\ p[2] \in Nat
      BY <2>1 DEF Mo!Place, Mo!MovesAssumption
    <2> QED
      BY <2>2, <2>3
  <1>3. \A f \in MailFolders : 1 + Mo!Cardinality({k \in Uids : source[<<f, k>>] # Absent}) \in Nat
    <2> SUFFICES ASSUME NEW f \in MailFolders
                 PROVE  1 + Mo!Cardinality({k \in Uids : source[<<f, k>>] # Absent}) \in Nat
      OBVIOUS
    <2>1. Mo!IsFiniteSet({k \in Uids : source[<<f, k>>] # Absent})
      BY FS_Subset, MovesCounted DEF Mo!MovesAssumption
    <2>2. Mo!Cardinality({k \in Uids : source[<<f, k>>] # Absent}) \in Nat
      BY <2>1, FS_CardinalityType, MovesCounted
    <2> QED
      BY <2>2
  <1>4. source \in [Mo!Place -> Messages \cup {Absent}] /\ uidnext \in [MailFolders -> Nat]
    BY <1>3 DEF Mo!Init
  <1>5. row \in [Messages -> {Absent} \cup [folder : MailFolders \cup {Local}, number : Nat]]
    BY <1>2 DEF Mo!Init
  <1>6. Mo!TypeOK
    BY <1>4, <1>5 DEF Mo!Init, Mo!TypeOK, Mo!NoRequest, Mo!Steps, Mo!MovesAssumption
  <1>7. MovesGivenOnce /\ MovesRemovable /\ MovesReadThere /\ Mo!MovedNotLost
    BY <1>1 DEF Mo!Init, MovesGivenOnce, MovesRemovable, MovesReadThere, Mo!MovedNotLost,
       Mo!NoRequest
  <1> QED
    BY <1>6, <1>7 DEF MovesInv

MovesRequests == [step : Mo!Steps, mail : Messages \cup {Absent}, from : MailFolders \cup {Absent},
                  number : Nat, got : Messages \cup {Absent}]
MovesRows == {Absent} \cup [folder : MailFolders \cup {Local}, number : Nat]

LEMMA MovesBeginning ==
    ASSUME Mo!MovesAssumption, MovesInv, NEW m \in Messages, NEW stage \in {"verify", "raw"},
           Mo!Begin(m, stage)
    PROVE  /\ request' \in MovesRequests /\ requests' \in 0 .. MaxRequests
           /\ request'.step = stage /\ request'.mail = m /\ request'.got = Absent
           /\ request'.from \in MailFolders
  <1>1. row[m].folder \in MailFolders /\ row[m].number \in Nat
    BY DEF MovesInv, Mo!TypeOK, Mo!Begin
  <1>2. requests' \in 0 .. MaxRequests
    BY DEF MovesInv, Mo!TypeOK, Mo!Begin, Mo!MovesAssumption
  <1> QED
    BY <1>1, <1>2 DEF Mo!Begin, MovesRequests, Mo!Steps

LEMMA MovesRowMoved ==
    ASSUME Mo!TypeOK, NEW m \in Messages, row[m] # Absent, NEW f \in MailFolders \cup {Local}, Mo!MoveRow(m, f)
    PROVE  row' \in [Messages -> MovesRows]
  <1>1. PICK j \in 0 .. Mo!Tries : row' = [row EXCEPT ![m] = [folder |-> f, number |-> @.number + Mo!Shift * j]]
    BY DEF Mo!MoveRow
  <1>2. row \in [Messages -> MovesRows] /\ row[m].number \in Nat
    BY DEF Mo!TypeOK, MovesRows
  <1>3. row[m].number + Mo!Shift * j \in Nat
    BY <1>2 DEF Mo!Tries, Mo!Shift
  <1> QED
    BY <1>1, <1>2, <1>3 DEF MovesRows

(* What is queued is one more. *)
LEMMA MovesQueueing ==
    ASSUME Mo!TypeOK, NEW m \in Messages, NEW f \in MailFolders, NEW k \in Nat,
           NEW to \in MailFolders \cup {Absent, Mo!Trash}, Mo!Queue(m, f, k, to)
    PROVE  /\ ops' \subseteq [mail : Messages, folder : MailFolders, number : Nat,
                             to : MailFolders \cup {Absent, Mo!Trash}]
           /\ \A op \in ops' : op \in ops \/ (op.mail = m /\ op.to = to)
  BY DEF Mo!TypeOK, Mo!Queue

LEMMA MovesGoing ==
    ASSUME Mo!TypeOK, NEW stage \in Mo!Steps, Mo!Go(stage)
    PROVE  /\ request' \in MovesRequests /\ request'.step = stage /\ request'.mail = request.mail
           /\ request'.from = request.from /\ request'.number = request.number
           /\ request'.got = request.got
  BY DEF Mo!TypeOK, Mo!Go, MovesRequests

LEMMA MovesStopping == ASSUME Mo!Stop PROVE request' \in MovesRequests /\ request'.step = "none"
  BY DEF Mo!Stop, Mo!NoRequest, MovesRequests, Mo!Steps

LEMMA MovesInductive == ASSUME Mo!MovesAssumption, MovesInv, [Mo!Next]_Mo!vars PROVE MovesInv'
  <1>1. request \in MovesRequests /\ \A m \in Messages : row[m] \in MovesRows
    BY DEF MovesInv, Mo!TypeOK, MovesRequests, MovesRows
  <1>2. ASSUME NEW m \in Messages, NEW f \in MailFolders, Mo!move_message(m, f) PROVE MovesInv'
    <2>1. row[m] # Absent /\ row[m].folder \in MailFolders /\ row[m].number \in Nat
      BY <1>2, <1>1 DEF Mo!move_message, MovesRows
    <2>2. requests' \in 0 .. MaxRequests
      BY <1>2 DEF MovesInv, Mo!TypeOK, Mo!move_message, Mo!MovesAssumption
    <2>3. row' \in [Messages -> MovesRows]
      BY <1>2, <2>1, MovesRowMoved DEF MovesInv, Mo!move_message
    <2>4. /\ ops' \subseteq [mail : Messages, folder : MailFolders, number : Nat,
                            to : MailFolders \cup {Absent, Mo!Trash}]
          /\ \A op \in ops' : op \in ops \/ op.to = f
      BY <1>2, <2>1, MovesQueueing DEF MovesInv, Mo!move_message
    <2>5. UNCHANGED <<source, uidnext, given, shared, archive, request, dismissed, mistaken, unproven>>
      BY <1>2 DEF Mo!move_message, Mo!provider, Mo!history
    <2>6. Mo!TypeOK'
      BY <2>2, <2>3, <2>4, <2>5 DEF MovesInv, Mo!TypeOK, MovesRows
    <2>7. MovesRemovable'
      BY <2>4, <2>5 DEF MovesInv, MovesRemovable, Mo!MovesAssumption
    <2> QED
      BY <2>5, <2>6, <2>7 DEF MovesInv, MovesGivenOnce,
         MovesReadThere, Mo!There, Mo!MailAt, Mo!MovedNotLost, Mo!At
  <1>3. ASSUME NEW op \in ops, Mo!Replay(op) PROVE MovesInv'
    <2> PICK mail : mail = Mo!Aimed(op)
      OBVIOUS
    <2> DEFINE left == Mo!Leave(source, mail, op.folder)
    <2>1. /\ op.mail \in Messages /\ op.folder \in MailFolders /\ ops' = ops \ {op}
          /\ mail \in Messages \cup {Absent}
          /\ UNCHANGED <<row, shared, archive, request, dismissed, unproven, requests>>
      BY <1>3 DEF MovesInv, Mo!TypeOK, Mo!Replay, Mo!Aimed, Mo!MailAt
    <2>2. /\ left \in [Mo!Place -> Messages \cup {Absent}]
          /\ \A p \in Mo!Place : left[p] = source[p] \/ (left[p] = Absent /\ source[p] = mail)
      BY DEF Mo!Leave, MovesInv, Mo!TypeOK
    <2> HIDE DEF left
    <2>3. MovesRemovable'
      BY <2>1 DEF MovesInv, MovesRemovable
    <2>4. ASSUME UNCHANGED <<Mo!provider, given, mistaken>> PROVE MovesInv'
      BY <2>1, <2>3, <2>4 DEF MovesInv, Mo!TypeOK, Mo!provider, MovesGivenOnce, MovesReadThere,
         Mo!There, Mo!MailAt, Mo!MovedNotLost, Mo!At
    <2>5. ASSUME source' = left, UNCHANGED uidnext, given \subseteq given', given' \subseteq Messages,
                 mistaken \subseteq mistaken', mistaken' \subseteq Messages,
                 mail \in given' \cup archive \cup dismissed \cup mistaken' \cup unproven
          PROVE  MovesInv'
      <3>1. Mo!TypeOK'
        BY <2>1, <2>2, <2>5 DEF MovesInv, Mo!TypeOK
      <3>2. MovesGivenOnce'
        BY <2>2, <2>5 DEF MovesInv, MovesGivenOnce
      <3>3. MovesReadThere'
        <4>1. Mo!There' \in {Absent, Mo!There}
          BY <2>1, <2>2, <2>5 DEF Mo!There, Mo!MailAt
        <4> QED
          BY <2>1, <2>5, <4>1 DEF MovesInv, MovesReadThere
      <3>4. Mo!MovedNotLost'
        <4> SUFFICES ASSUME NEW m \in Messages, m \notin dismissed, m \notin mistaken', m \notin unproven,
                            m \notin given', m \notin archive
                     PROVE  Mo!At(m)' # {}
          BY <2>1 DEF Mo!MovedNotLost
        <4>1. PICK p \in Mo!Place : source[p] = m
          BY <2>5 DEF MovesInv, Mo!MovedNotLost, Mo!At
        <4>2. source'[p] = m
          BY <2>2, <2>5, <4>1
        <4> QED
          BY <4>2 DEF Mo!At
      <3> QED
        BY <2>3, <3>1, <3>2, <3>3, <3>4 DEF MovesInv
    <2>6. ASSUME op.to \in MailFolders, uidnext[op.to] \in Uids, UNCHANGED <<given, mistaken>>, mail # Absent,
                 source' = [left EXCEPT ![<<op.to, uidnext[op.to]>>] = mail],
                 uidnext' = [uidnext EXCEPT ![op.to] = @ + 1]
          PROVE  MovesInv'
      <3> DEFINE new == <<op.to, uidnext[op.to]>>
      <3>1. new \in Mo!Place /\ new[1] = op.to /\ new[2] = uidnext[op.to] /\ uidnext[op.to] \in Nat
        BY <2>6 DEF Mo!Place, MovesInv, Mo!TypeOK
      <3>2. source[new] = Absent
        BY <3>1 DEF MovesInv, MovesGivenOnce
      <3> HIDE DEF new
      <3>3. \A p \in Mo!Place : source'[p] = IF p = new THEN mail ELSE left[p]
        BY <2>2, <2>6, <3>1 DEF new
      <3>4. \A f \in MailFolders : uidnext'[f] \in Nat /\ uidnext'[f] = IF f = op.to THEN uidnext[f] + 1 ELSE uidnext[f]
        BY <2>6 DEF MovesInv, Mo!TypeOK
      <3>5. Mo!TypeOK'
        BY <2>1, <2>2, <2>6, <3>4 DEF MovesInv, Mo!TypeOK
      <3>6. MovesGivenOnce'
        <4> SUFFICES ASSUME NEW p \in Mo!Place, source'[p] # Absent PROVE p[2] < uidnext'[p[1]]
          BY DEF MovesGivenOnce
        <4>1. p[1] \in MailFolders /\ p[2] \in Nat
          BY DEF Mo!Place, Mo!MovesAssumption
        <4>2. CASE p = new
          BY <3>1, <3>4, <4>1, <4>2
        <4>3. CASE p # new
          <5>1. source[p] # Absent
            BY <2>2, <3>3, <4>3
          <5>2. p[2] < uidnext[p[1]] /\ uidnext[p[1]] \in Nat
            BY <4>1, <5>1 DEF MovesInv, MovesGivenOnce, Mo!TypeOK
          <5> QED
            BY <3>4, <4>1, <5>2
        <4> QED
          BY <4>2, <4>3
      <3>7. MovesReadThere'
        <4>1. request.step \in {"append", "hard delete"} =>
                /\ <<request.from, request.number>> \in Mo!Place
                /\ request.from \in MailFolders /\ request.number \in Nat
          BY DEF MovesInv, MovesReadThere, Mo!Place, Mo!MovesAssumption
        <4>2. ASSUME request.step \in {"append", "hard delete"}
              PROVE  Mo!There' \in {Absent, request.got} /\ request.number < uidnext'[request.from]
          <5>1. /\ request.number < uidnext[request.from] /\ Mo!There \in {Absent, request.got}
                /\ uidnext[request.from] \in Nat
            BY <4>1, <4>2 DEF MovesInv, MovesReadThere, Mo!TypeOK
          <5>2. <<request.from, request.number>> # new
            BY <5>1 DEF new
          <5>3. <<request.from, request.number>> \in Mo!Place
            BY <4>1, <4>2
          <5>4. Mo!There' = left[<<request.from, request.number>>]
            BY <2>1, <3>3, <5>2, <5>3 DEF Mo!There, Mo!MailAt
          <5>5. Mo!There' \in {Absent, Mo!There}
            BY <2>2, <5>3, <5>4 DEF Mo!There, Mo!MailAt
          <5>6. request.number < uidnext'[request.from]
            <6>1. request.from \in MailFolders /\ request.number \in Nat
              BY <4>1, <4>2
            <6>2. uidnext'[request.from] \in {uidnext[request.from], uidnext[request.from] + 1}
              BY <3>4, <6>1
            <6> QED
              BY <5>1, <6>1, <6>2
          <5> QED
            BY <5>1, <5>5, <5>6
        <4> QED
          BY <2>1, <2>6, <4>2 DEF MovesInv, MovesReadThere
      <3>8. Mo!MovedNotLost'
        <4> SUFFICES ASSUME NEW m \in Messages, m \notin dismissed, m \notin mistaken, m \notin unproven,
                            m \notin given, m \notin archive
                     PROVE  Mo!At(m)' # {}
          BY <2>1, <2>6 DEF Mo!MovedNotLost
        <4>1. PICK p \in Mo!Place : source[p] = m
          BY DEF MovesInv, Mo!MovedNotLost, Mo!At
        <4>2. CASE m = mail
          BY <3>1, <3>3, <4>2 DEF Mo!At
        <4>3. CASE m # mail
          <5>1. p # new
            BY <3>2, <4>1 DEF Mo!MovesAssumption
          <5>2. source'[p] = m
            BY <2>2, <3>3, <4>1, <4>3, <5>1
          <5> QED
            BY <5>2 DEF Mo!At
        <4> QED
          BY <4>2, <4>3
      <3> QED
        BY <2>3, <3>5, <3>6, <3>7, <3>8 DEF MovesInv
    <2>7. op.to = Absent => op.mail \in dismissed \cup archive \cup unproven
      BY DEF MovesInv, MovesRemovable
    <2> QED
      BY <1>3, <2>1, <2>4, <2>5, <2>6, <2>7 DEF Mo!Replay, left, MovesInv, Mo!TypeOK
  <1>4. ASSUME NEW m \in Messages, Mo!Sync(m) PROVE MovesInv'
    <2>1. ASSUME Mo!At(m) # {}
          PROVE  (LET p == CHOOSE p \in Mo!At(m) : TRUE IN [folder |-> p[1], number |-> p[2]]) \in MovesRows
      <3> DEFINE p == CHOOSE p \in Mo!At(m) : TRUE
      <3>1. p \in Mo!Place
        BY <2>1 DEF Mo!At
      <3> HIDE DEF p
      <3>2. [folder |-> p[1], number |-> p[2]] \in MovesRows
        BY <3>1 DEF Mo!Place, MovesRows, Mo!MovesAssumption
      <3> QED
        BY <3>2 DEF p
    <2>2. row' \in [Messages -> MovesRows]
      BY <1>4, <2>1 DEF Mo!Sync, MovesInv, Mo!TypeOK, MovesRows
    <2>3. Mo!TypeOK'
      BY <1>4, <2>2 DEF Mo!Sync, MovesInv, Mo!TypeOK, MovesRows, Mo!provider, Mo!history
    <2> QED
      BY <1>4, <2>3 DEF MovesInv, Mo!Sync, Mo!provider, Mo!history, MovesGivenOnce, MovesRemovable,
         MovesReadThere, Mo!There, Mo!MailAt, Mo!MovedNotLost, Mo!At
  <1>5. ASSUME NEW m \in Messages, Mo!move_to_local_folder(m) PROVE MovesInv'
    <2>1. /\ request' \in MovesRequests /\ requests' \in 0 .. MaxRequests
          /\ request'.step = "verify" /\ request'.mail = m /\ request'.from \in MailFolders
          /\ request'.got = Absent
      BY <1>5, MovesBeginning DEF Mo!move_to_local_folder
    <2>2. row[m] # Absent
      BY <1>5 DEF Mo!move_to_local_folder, Mo!Begin
    <2>3. row' \in [Messages -> MovesRows]
      BY <1>5, <2>2, MovesRowMoved DEF Mo!move_to_local_folder, MovesInv
    <2>4. Mo!TypeOK' /\ MovesReadThere'
      BY <1>5, <2>1, <2>3 DEF Mo!move_to_local_folder, MovesInv, Mo!TypeOK, MovesRows,
         MovesRequests, Mo!provider, Mo!history, MovesReadThere
    <2> QED
      BY <1>5, <2>4 DEF MovesInv, Mo!move_to_local_folder, Mo!provider, Mo!history, MovesGivenOnce,
         MovesRemovable, Mo!MovedNotLost, Mo!At
  <1>6. ASSUME NEW m \in Messages, Mo!move_cross_account(m) PROVE MovesInv'
    <2>1. /\ request' \in MovesRequests /\ requests' \in 0 .. MaxRequests /\ request'.step = "raw"
          /\ request'.from \in MailFolders
      BY <1>6, MovesBeginning DEF Mo!move_cross_account
    <2>2. Mo!TypeOK' /\ MovesReadThere'
      BY <1>6, <2>1 DEF Mo!move_cross_account, MovesInv, Mo!TypeOK, MovesRequests, Mo!provider, Mo!history,
         MovesReadThere
    <2> QED
      BY <1>6, <2>2 DEF MovesInv, Mo!move_cross_account, Mo!provider, Mo!history, MovesGivenOnce,
         MovesRemovable, Mo!MovedNotLost, Mo!At
  <1>7. ASSUME NEW m \in Messages, Mo!delete_message_permanent_delete(m) PROVE MovesInv'
    <2>1. requests' \in 0 .. MaxRequests
      BY <1>7 DEF MovesInv, Mo!TypeOK, Mo!delete_message_permanent_delete, Mo!MovesAssumption
    <2>2. row[m] # Absent /\ row[m].number \in Nat
      BY <1>7, <1>1 DEF Mo!delete_message_permanent_delete, MovesRows
    <2>3. /\ ops' \subseteq [mail : Messages, folder : MailFolders, number : Nat,
                            to : MailFolders \cup {Absent, Mo!Trash}]
          /\ \A op \in ops' : op \in ops \/ op.mail = m
      BY <1>7, <2>2, MovesQueueing DEF Mo!delete_message_permanent_delete, MovesInv, Mo!TypeOK
    <2>4. /\ UNCHANGED <<source, uidnext, given, shared, archive, request, mistaken, unproven>>
          /\ row' = [row EXCEPT ![m] = Absent] /\ dismissed' = dismissed \cup {m}
      BY <1>7 DEF Mo!delete_message_permanent_delete, Mo!provider
    <2>5. Mo!TypeOK'
      BY <2>1, <2>3, <2>4 DEF MovesInv, Mo!TypeOK
    <2>6. MovesRemovable'
      BY <2>3, <2>4 DEF MovesInv, MovesRemovable
    <2> QED
      BY <2>4, <2>5, <2>6 DEF MovesInv, MovesGivenOnce, MovesReadThere, Mo!There, Mo!MailAt, Mo!MovedNotLost, Mo!At
  <1>8. ASSUME Mo!VerifyEml PROVE MovesInv'
    <2>1. /\ request' \in MovesRequests /\ request'.mail = request.mail /\ request'.from = request.from
          /\ \/ request'.step = "queue" /\ request'.got \in archive
             \/ request'.step = "fetch" /\ request'.got = request.got
      <3>1. CASE Mo!Go("fetch")
        BY <3>1, MovesGoing DEF MovesInv, Mo!Steps
      <3>2. CASE \E m \in archive : request' = [request EXCEPT !.step = "queue", !.got = m]
        BY <1>1, <3>2 DEF MovesInv, Mo!TypeOK, MovesRequests, Mo!Steps
      <3> QED
        BY <1>8, <3>1, <3>2 DEF Mo!VerifyEml
    <2>2. UNCHANGED <<source, uidnext, given, row, shared, archive, ops, dismissed, mistaken, unproven, requests>>
      BY <1>8 DEF Mo!VerifyEml, Mo!provider, Mo!history
    <2>3. Mo!TypeOK'
      BY <2>1, <2>2 DEF MovesInv, Mo!TypeOK, MovesRequests
    <2>4. MovesReadThere'
      BY <1>8, <2>1, <2>2 DEF Mo!VerifyEml, MovesInv, MovesReadThere
    <2> QED
      BY <2>2, <2>3, <2>4 DEF MovesInv, MovesGivenOnce, MovesRemovable, Mo!MovedNotLost, Mo!At
  <1>9. ASSUME Mo!FetchForArchive PROVE MovesInv'
    <2>1. request.mail \in Messages
      BY <1>9 DEF Mo!FetchForArchive, MovesInv, MovesReadThere
    <2>2. UNCHANGED <<source, uidnext, given, row, shared, ops, dismissed, mistaken, unproven, requests>>
      BY <1>9 DEF Mo!FetchForArchive, Mo!provider, Mo!history
    <2>3. /\ request' \in MovesRequests /\ request'.step = "queue" /\ request'.mail = request.mail
          /\ request'.from = request.from /\ request'.got \in archive' \cup {Absent}
          /\ archive \subseteq archive' /\ archive' \subseteq Messages
      <3>1. CASE Mo!Go("queue") /\ UNCHANGED archive
        <4>1. request.got = Absent
          BY <1>9 DEF Mo!FetchForArchive, MovesInv, MovesReadThere
        <4> QED
          BY <3>1, <4>1, MovesGoing DEF MovesInv, Mo!TypeOK, Mo!Steps
      <3>2. CASE /\ Mo!There = request.mail /\ archive' = archive \cup {Mo!There}
                 /\ request' = [request EXCEPT !.step = "queue", !.got = Mo!There]
        BY <1>1, <2>1, <3>2 DEF MovesInv, Mo!TypeOK, MovesRequests, Mo!Steps
      <3> QED
        BY <1>9, <3>1, <3>2 DEF Mo!FetchForArchive
    <2>4. Mo!TypeOK'
      BY <2>2, <2>3 DEF MovesInv, Mo!TypeOK, MovesRequests
    <2>5. MovesReadThere'
      BY <1>9, <2>1, <2>2, <2>3 DEF Mo!FetchForArchive, MovesInv, MovesReadThere
    <2> QED
      BY <2>2, <2>3, <2>4, <2>5 DEF MovesInv, MovesGivenOnce, MovesRemovable, Mo!MovedNotLost, Mo!At
  <1>10. ASSUME Mo!QueueRemoval PROVE MovesInv'
    <2>1. request' \in MovesRequests /\ request'.step = "none"
      BY <1>10, MovesStopping DEF Mo!QueueRemoval
    <2>2. /\ request.mail \in Messages /\ request.from \in MailFolders /\ request.number \in Nat
          /\ request.got \in archive \cup {Absent}
      BY <1>10, <1>1 DEF Mo!QueueRemoval, MovesInv, MovesReadThere, MovesRequests
    <2>3. /\ UNCHANGED <<source, uidnext, given, row, shared, archive, dismissed, mistaken, requests>>
          /\ unproven \subseteq unproven' /\ unproven' \subseteq Messages
          /\ request.got \notin {Absent, request.mail} => request.mail \in unproven'
      BY <1>10, <2>2 DEF Mo!QueueRemoval, Mo!provider, MovesInv, Mo!TypeOK
    <2>4. /\ ops' \subseteq [mail : Messages, folder : MailFolders, number : Nat,
                            to : MailFolders \cup {Absent, Mo!Trash}]
          /\ \A op \in ops' : op \in ops \/ (op.mail = request.mail /\ op.to = Mo!Guarantee(Mo!Trash))
      <3>1. Mo!Guarantee(Mo!Trash) \in MailFolders \cup {Absent, Mo!Trash}
        BY DEF Mo!Guarantee
      <3> QED
        BY <1>10, <2>2, <3>1, MovesQueueing DEF Mo!QueueRemoval, MovesInv
    <2>5. Mo!TypeOK'
      BY <2>1, <2>3, <2>4 DEF MovesInv, Mo!TypeOK, MovesRequests
    <2>6. MovesRemovable'
      <3>1. Mo!Guarantee(Mo!Trash) = Absent => request.mail \in archive \cup unproven'
        BY <2>2, <2>3 DEF Mo!Guarantee, Mo!MovesAssumption
      <3> QED
        BY <2>3, <2>4, <3>1 DEF MovesInv, MovesRemovable
    <2>7. MovesReadThere' /\ MovesGivenOnce' /\ Mo!MovedNotLost'
      BY <2>1, <2>3 DEF MovesInv, MovesReadThere, MovesGivenOnce, Mo!MovedNotLost, Mo!At
    <2> QED
      BY <2>5, <2>6, <2>7 DEF MovesInv
  <1>11. ASSUME Mo!FetchRaw PROVE MovesInv'
    <2>1. UNCHANGED <<source, uidnext, given, row, shared, archive, ops, dismissed, mistaken, unproven, requests>>
      BY <1>11 DEF Mo!FetchRaw, Mo!provider, Mo!history
    <2>2. ASSUME Mo!Stop PROVE MovesInv'
      <3>1. request' \in MovesRequests /\ request'.step = "none"
        BY <2>2, MovesStopping
      <3> QED
        BY <2>1, <3>1 DEF MovesInv, Mo!TypeOK, MovesRequests, MovesGivenOnce, MovesRemovable,
           MovesReadThere, Mo!MovedNotLost, Mo!At
    <2>3. ASSUME Mo!There # Absent, NEW stage \in {"append", "local"},
                 request' = [request EXCEPT !.step = stage, !.got = Mo!There]
          PROVE  MovesInv'
      <3>1. /\ request.from \in MailFolders /\ request.number \in Uids
            /\ <<request.from, request.number>> \in Mo!Place
        BY <1>11, <2>3 DEF Mo!FetchRaw, MovesInv, MovesReadThere, Mo!Place, Mo!There, Mo!MailAt
      <3>2. Mo!There \in Messages /\ request.number < uidnext[request.from]
        <4> DEFINE p == <<request.from, request.number>>
        <4>1. p \in Mo!Place /\ p[1] = request.from /\ p[2] = request.number
          BY <3>1
        <4>2. source[p] # Absent /\ source[p] \in Messages \cup {Absent}
          BY <2>3, <4>1 DEF Mo!There, Mo!MailAt, MovesInv, Mo!TypeOK
        <4>3. p[2] < uidnext[p[1]]
          BY <4>1, <4>2 DEF MovesInv, MovesGivenOnce
        <4> QED
          BY <4>1, <4>2, <4>3 DEF Mo!There, Mo!MailAt
      <3>3. /\ request' \in MovesRequests /\ request'.step = stage /\ request'.got = Mo!There
            /\ request'.from = request.from /\ request'.number = request.number
        BY <1>1, <2>3, <3>2 DEF MovesRequests, Mo!Steps
      <3>4. Mo!There' = Mo!There
        BY <2>1, <3>3 DEF Mo!There, Mo!MailAt
      <3>5. MovesReadThere'
        BY <2>1, <3>1, <3>2, <3>3, <3>4 DEF MovesReadThere
      <3> QED
        BY <2>1, <3>3, <3>5 DEF MovesInv, Mo!TypeOK, MovesRequests, MovesGivenOnce, MovesRemovable,
           Mo!MovedNotLost, Mo!At
    <2> QED
      BY <1>11, <2>2, <2>3 DEF Mo!FetchRaw
  <1>12. ASSUME Mo!Append PROVE MovesInv'
    <2>1. /\ UNCHANGED <<source, uidnext, row, shared, archive, ops, dismissed, mistaken, unproven, requests>>
          /\ request.got \in Messages
      BY <1>12 DEF Mo!Append, Mo!provider, Mo!history, MovesInv, MovesReadThere
    <2>2. given \subseteq given' /\ given' \subseteq Messages
      BY <1>12, <2>1 DEF Mo!Append, MovesInv, Mo!TypeOK
    <2>3. CASE Mo!Stop
      <3>1. request' \in MovesRequests /\ request'.step = "none"
        BY <2>3, MovesStopping
      <3> QED
        BY <2>1, <2>2, <3>1 DEF MovesInv, Mo!TypeOK, MovesRequests, MovesGivenOnce, MovesRemovable,
           MovesReadThere, Mo!MovedNotLost, Mo!At
    <2>4. CASE given' = given \cup {request.got} /\ Mo!Go("hard delete")
      <3>1. /\ request' \in MovesRequests /\ request'.step = "hard delete"
            /\ request'.got = request.got
            /\ request'.from = request.from /\ request'.number = request.number
        BY <2>4, MovesGoing DEF Mo!Steps, MovesInv
      <3>2. Mo!There' = Mo!There
        BY <2>1, <3>1 DEF Mo!There, Mo!MailAt
      <3>3. MovesReadThere'
        BY <1>12, <2>1, <2>4, <3>1, <3>2 DEF Mo!Append, MovesInv, MovesReadThere
      <3> QED
        BY <2>1, <2>2, <3>1, <3>3 DEF MovesInv, Mo!TypeOK, MovesRequests, MovesGivenOnce,
           MovesRemovable, Mo!MovedNotLost, Mo!At
    <2> QED
      BY <1>12, <2>3, <2>4 DEF Mo!Append
  <1>13. ASSUME Mo!HardDelete PROVE MovesInv'
    <2>1. /\ request' \in MovesRequests /\ request'.step = "rows" /\ request'.got = request.got
          /\ request'.from = request.from /\ request'.number = request.number
      BY <1>13, MovesGoing DEF Mo!HardDelete, Mo!Steps, MovesInv
    <2>2. /\ UNCHANGED <<uidnext, given, row, shared, archive, ops, dismissed, mistaken, unproven, requests>>
          /\ \A p \in Mo!Place : source'[p] = source[p] \/ (source'[p] = Absent /\ source[p] \in given \cup {Absent})
      <3>1. Mo!There \in given \cup {Absent}
        BY <1>13 DEF Mo!HardDelete, MovesInv, MovesReadThere
      <3> QED
        BY <1>13, <3>1 DEF Mo!HardDelete, Mo!There, Mo!MailAt, Mo!history, MovesInv, Mo!TypeOK
    <2>3. Mo!TypeOK'
      BY <1>13, <2>1, <2>2 DEF Mo!HardDelete, MovesInv, Mo!TypeOK, MovesRequests
    <2>4. Mo!MovedNotLost'
      <3> SUFFICES ASSUME NEW m \in Messages, m \notin dismissed, m \notin mistaken, m \notin unproven,
                            m \notin given, m \notin archive
                   PROVE  Mo!At(m)' # {}
        BY <2>2 DEF Mo!MovedNotLost
      <3>1. PICK p \in Mo!Place : source[p] = m
        BY DEF MovesInv, Mo!MovedNotLost, Mo!At
      <3>2. source'[p] = m
        BY <2>2, <3>1 DEF Mo!MovesAssumption
      <3> QED
        BY <3>2 DEF Mo!At
    <2>5. MovesGivenOnce'
      BY <2>2 DEF MovesInv, MovesGivenOnce
    <2>6. MovesReadThere' /\ MovesRemovable'
      BY <1>13, <2>1, <2>2 DEF Mo!HardDelete, MovesInv, MovesReadThere, MovesRemovable
    <2> QED
      BY <2>3, <2>4, <2>5, <2>6 DEF MovesInv
  <1>14. ASSUME Mo!MoveRows \/ Mo!LocalCopy PROVE MovesInv'
    <2>1. request' \in MovesRequests /\ request'.step = "none"
      BY <1>14, MovesStopping DEF Mo!MoveRows, Mo!LocalCopy
    <2>2. row' \in [Messages -> MovesRows] /\ shared' \subseteq Messages
      BY <1>14 DEF Mo!MoveRows, Mo!LocalCopy, Mo!Numbered, MovesInv, Mo!TypeOK, MovesRows
    <2>3. archive \subseteq archive' /\ archive' \subseteq Messages
      BY <1>14 DEF Mo!MoveRows, Mo!LocalCopy, MovesInv, Mo!TypeOK, MovesReadThere
    <2>4. UNCHANGED <<source, uidnext, given, ops, dismissed, mistaken, unproven, requests>>
      BY <1>14 DEF Mo!MoveRows, Mo!LocalCopy, Mo!provider, Mo!history
    <2> QED
      BY <2>1, <2>2, <2>3, <2>4 DEF MovesInv, Mo!TypeOK, MovesRequests, MovesRows, MovesGivenOnce,
         MovesRemovable, MovesReadThere, Mo!MovedNotLost, Mo!At
  <1>15. ASSUME UNCHANGED Mo!vars PROVE MovesInv'
    BY <1>15 DEF Mo!vars, Mo!provider, Mo!history, MovesInv, Mo!TypeOK, MovesGivenOnce, MovesRemovable,
       MovesReadThere, Mo!There, Mo!MailAt, Mo!MovedNotLost, Mo!At
  <1> QED
    BY <1>2, <1>3, <1>4, <1>5, <1>6, <1>7, <1>8, <1>9, <1>10, <1>11, <1>12, <1>13, <1>14, <1>15
       DEF Mo!Next

-----------------------------------------------------------------------------
(***************************************************************************)
(* The cache of lists: what a change drops is read afresh (cache/mod.rs).  *)
(***************************************************************************)
ListEntry == [content : Li!Content, age : 0 .. Ttl + 2]
ListReader == [step : {"idle", "read", "have"}, folder : MailFolders, content : Li!Content]

(* The user is told of changes that were made. *)
ListTold == \A f \in MailFolders : own[f] <= data[f]
(* A request asked before it reads. *)
ListAsked == \A r \in Readers : reader[r].step = "read" => reader[r].content <= data[reader[r].folder]
(* The cache has what the user was told of. *)
ListFresh == \A f \in MailFolders \ odd : Li!Held(f) => own[f] <= entries[f].content
(* A change of the user's drops what it touched. *)
ListDrops == change.touched \subseteq change.drop \cup odd
ListInv == Li!TypeOK /\ ListTold /\ ListAsked /\ ListFresh /\ ListDrops /\ Li!OwnChangesShown

LEMMA ListSimple ==
    ASSUME Li!FoldersAssumption
    PROVE  /\ Ttl \in Nat /\ MaxChanges \in Nat /\ InboxFolder \in MailFolders /\ 0 \in Li!Content
           /\ Li!NoEntry \in ListEntry /\ Li!NoEntry.age = Ttl + 2 /\ Li!Idle \in ListReader
           /\ Li!Idle.step = "idle"
           /\ Li!NoChange.touched = {} /\ Li!NoChange.drop = {}
           /\ Li!NoChange \in [drop : SUBSET MailFolders, touched : SUBSET MailFolders]
  BY DEF Li!FoldersAssumption, Li!Content, Li!NoEntry, ListEntry, Li!Idle, ListReader, Li!NoChange

LEMMA ListTyped ==
    ASSUME Li!TypeOK
    PROVE  /\ data \in [MailFolders -> Li!Content] /\ own \in [MailFolders -> Li!Content]
           /\ entries \in [MailFolders -> ListEntry]
           /\ order \subseteq MailFolders \X MailFolders /\ reader \in [Readers -> ListReader]
           /\ change \in [drop : SUBSET MailFolders, touched : SUBSET MailFolders]
           /\ listed \in [folder : MailFolders, content : Li!Content, own : Li!Content]
           /\ odd \subseteq MailFolders
  BY DEF Li!TypeOK, ListEntry, ListReader

LEMMA ListInitially == ASSUME Li!FoldersAssumption PROVE Li!Init => ListInv
  <1> SUFFICES ASSUME Li!Init PROVE ListInv
    OBVIOUS
  <1>1. Li!TypeOK
    BY ListSimple DEF Li!Init, Li!TypeOK, ListEntry, ListReader
  <1>2. ListTold /\ ListAsked /\ ListDrops /\ Li!OwnChangesShown
    BY ListSimple DEF Li!Init, ListTold, ListAsked, ListDrops, Li!OwnChangesShown, Li!Newest,
       Li!Content
  <1>3. ListFresh
    BY ListSimple DEF Li!Init, ListFresh, Li!Content, Li!NoEntry
  <1> QED
    BY <1>1, <1>2, <1>3 DEF ListInv

(* Dropping folders from the cache leaves the others as they are. *)
LEMMA ListDropping ==
    ASSUME Li!FoldersAssumption, Li!TypeOK, NEW F, Li!Without(F)
    PROVE  /\ entries' \in [MailFolders -> ListEntry] /\ order' \subseteq MailFolders \X MailFolders
           /\ \A f \in MailFolders : Li!Held(f)' => f \notin F /\ Li!Held(f) /\ entries'[f] = entries[f]
  <1>1. /\ entries \in [MailFolders -> ListEntry] /\ Li!NoEntry \in ListEntry
        /\ order \subseteq MailFolders \X MailFolders
    BY ListSimple, ListTyped
  <1>2. \A f \in MailFolders : entries'[f] = IF f \in F THEN Li!NoEntry ELSE entries[f]
    BY DEF Li!Without
  <1>3. entries' \in [MailFolders -> ListEntry] /\ order' \subseteq MailFolders \X MailFolders
    BY <1>1 DEF Li!Without
  <1>4. Ttl \in Nat /\ Li!NoEntry.age = Ttl + 2
    BY ListSimple
  <1>5. \A f \in MailFolders : Li!Held(f)' => f \notin F
    BY <1>2, <1>4 DEF Li!Held
  <1> QED
    BY <1>2, <1>3, <1>5 DEF Li!Held

LEMMA ListChanging ==
    ASSUME Li!FoldersAssumption, Li!TypeOK, NEW F, Li!Changed(F)
    PROVE  /\ data' \in [MailFolders -> Li!Content] /\ \A f \in MailFolders : data[f] <= data'[f]
  <1>1. data \in [MailFolders -> Li!Content] /\ MaxChanges \in Nat
    BY ListSimple, ListTyped
  <1>2. F \subseteq F /\ \A f \in MailFolders : f \in F => data[f] + 1 \in Li!Content
    BY <1>1 DEF Li!Changed, Li!Content
  <1>3. \A f \in MailFolders : data[f] \in Nat
    BY <1>1 DEF Li!Content
  <1> QED
    BY <1>1, <1>2, <1>3 DEF Li!Changed

LEMMA ListInductive == ASSUME Li!FoldersAssumption, ListInv, [Li!Next]_Li!vars PROVE ListInv'
  <1>1. /\ Li!TypeOK /\ ListTold /\ ListAsked /\ ListFresh /\ ListDrops /\ Li!OwnChangesShown
        /\ Ttl \in Nat /\ MaxChanges \in Nat
        /\ \A f \in MailFolders : data[f] \in Nat /\ own[f] \in Nat /\ entries[f].content \in Nat
    BY ListSimple, ListTyped DEF ListInv, Li!Content, ListEntry
  (* A request. *)
  <1>2. ASSUME NEW r \in Readers, NEW f \in MailFolders, Li!Ask(r, f) PROVE ListInv'
    <2>1. UNCHANGED <<data, own, change, odd>> /\ own[f] \in Li!Content /\ entries[f] \in ListEntry
      BY <1>1, <1>2, ListTyped DEF Li!Ask
    <2>2. CASE entries[f].age <= Ttl
      <3>1. /\ listed' = [folder |-> f, content |-> entries[f].content, own |-> own[f]]
            /\ UNCHANGED <<entries, order, reader>>
        BY <1>2, <2>2 DEF Li!Ask
      <3>2. Li!TypeOK'
        BY <1>1, <2>1, <3>1, ListTyped DEF Li!TypeOK, ListEntry, ListReader
      <3>3. Li!Held(f)
        BY <1>1, <2>1, <2>2 DEF Li!Held, ListEntry
      <3>4. Li!OwnChangesShown'
        BY <1>1, <2>1, <3>1, <3>3 DEF ListFresh, Li!OwnChangesShown, Li!Newest
      <3>5. ListTold' /\ ListAsked' /\ ListFresh' /\ ListDrops'
        BY <1>1, <2>1, <3>1 DEF ListTold, ListAsked, ListFresh, ListDrops, Li!Held
      <3> QED
        BY <3>2, <3>4, <3>5 DEF ListInv
    <2>3. CASE ~(entries[f].age <= Ttl)
      <3> DEFINE new == [step |-> "read", folder |-> f, content |-> own[f]]
      <3>1. /\ UNCHANGED listed /\ reader' = [reader EXCEPT ![r] = new]
            /\ (Li!Without({f}) \/ UNCHANGED <<entries, order>>)
        BY <1>2, <2>3 DEF Li!Ask
      <3>2. new \in ListReader /\ new.folder = f /\ new.content = own[f]
        BY <2>1 DEF ListReader
      <3> HIDE DEF new
      <3>3. /\ entries' \in [MailFolders -> ListEntry] /\ order' \subseteq MailFolders \X MailFolders
            /\ \A g \in MailFolders : Li!Held(g)' => Li!Held(g) /\ entries'[g] = entries[g]
        BY <1>1, <3>1, ListDropping, ListTyped DEF Li!Held
      <3>4. /\ reader' \in [Readers -> ListReader] /\ reader'[r] = new
            /\ \A q \in Readers \ {r} : reader'[q] = reader[q]
        BY <1>1, <3>1, <3>2, ListTyped
      <3>5. Li!TypeOK'
        BY <1>1, <2>1, <3>1, <3>3, <3>4, ListTyped DEF Li!TypeOK, ListEntry, ListReader
      <3>6. ListAsked'
        BY <1>1, <2>1, <3>2, <3>4 DEF ListAsked, ListTold
      <3>7. ListTold' /\ ListFresh' /\ ListDrops' /\ Li!OwnChangesShown'
        BY <1>1, <2>1, <3>1, <3>3 DEF ListTold, ListFresh, ListDrops, Li!OwnChangesShown, Li!Newest
      <3> QED
        BY <3>5, <3>6, <3>7 DEF ListInv
    <2> QED
      BY <2>2, <2>3
  <1>3. ASSUME NEW r \in Readers, Li!fetch_inbox_meta(r) PROVE ListInv'
    <2> DEFINE f == reader[r].folder
               new == [reader[r] EXCEPT !.step = "have", !.content = data[f]]
    <2>1. /\ reader[r] \in ListReader /\ f \in MailFolders /\ data[f] \in Li!Content
          /\ reader[r].content \in Li!Content /\ reader[r].step = "read"
      BY <1>1, <1>3, ListTyped DEF ListReader, Li!fetch_inbox_meta
    <2>2. /\ UNCHANGED <<data, own, entries, order, change, odd>>
          /\ reader' = [reader EXCEPT ![r] = new]
          /\ listed' = [folder |-> f, content |-> data[f], own |-> reader[r].content]
      BY <1>3 DEF Li!fetch_inbox_meta
    <2>3. new \in ListReader /\ new.step = "have"
      BY <2>1 DEF ListReader
    <2>4. reader[r].content <= data[f]
      BY <1>1, <2>1 DEF ListAsked
    <2> HIDE DEF new, f
    <2>5. /\ reader' \in [Readers -> ListReader] /\ reader'[r] = new
          /\ \A q \in Readers \ {r} : reader'[q] = reader[q]
      BY <1>1, <2>2, <2>3, ListTyped
    <2>6. Li!TypeOK'
      BY <1>1, <2>1, <2>2, <2>5, ListTyped DEF Li!TypeOK, ListEntry, ListReader
    <2>7. ListAsked'
      BY <1>1, <2>2, <2>3, <2>5 DEF ListAsked
    <2>8. Li!OwnChangesShown'
      BY <2>1, <2>2, <2>4 DEF Li!OwnChangesShown, Li!Newest, Li!Content
    <2>9. ListTold' /\ ListFresh' /\ ListDrops'
      BY <1>1, <2>2 DEF ListTold, ListFresh, ListDrops, Li!Held
    <2> QED
      BY <2>6, <2>7, <2>8, <2>9 DEF ListInv
  <1>4. ASSUME NEW r \in Readers, Li!put(r) PROVE ListInv'
    <2> DEFINE f == reader[r].folder
               gone == IF Li!Cardinality(Li!InCache \cup {f}) > MaxEntries THEN Li!Oldest(f) ELSE {}
               entry == [content |-> reader[r].content, age |-> 0]
    <2>1. f \in MailFolders /\ reader[r].content \in Li!Content /\ Li!InCache \subseteq MailFolders
      BY <1>1, ListTyped DEF ListReader, Li!InCache
    <2>2. /\ UNCHANGED <<data, own, change, listed>> /\ reader' = [reader EXCEPT ![r] = Li!Idle]
          /\ odd' = (IF reader[r].content < data[f] THEN odd \cup {f} ELSE odd)
      BY <1>4 DEF Li!put
    <2>3. /\ order' = {o \in Li!Entered(f) : o[1] \notin gone}
          /\ entries' = [g \in MailFolders |-> IF g \in gone THEN Li!NoEntry ELSE IF g = f THEN entry ELSE entries[g]]
      BY <1>4, Zenon DEF Li!put
    <2> HIDE DEF gone
    <2>4. entry \in ListEntry /\ entry.content = reader[r].content
      BY <1>1, <2>1 DEF ListEntry
    <2> HIDE DEF f, entry
    <2>5. order' \subseteq MailFolders \X MailFolders
      BY <1>1, <2>1, <2>3, ListTyped DEF Li!Entered
    <2>6. entries' \in [MailFolders -> ListEntry]
      BY <1>1, <2>3, <2>4, ListSimple, ListTyped
    <2>7. \A g \in MailFolders : Li!Held(g)' => (g = f /\ entries'[g] = entry) \/ (Li!Held(g) /\ entries'[g] = entries[g])
      BY <1>1, <2>3, ListSimple DEF Li!Held
    <2>8. /\ reader' \in [Readers -> ListReader]
          /\ \A q \in Readers : reader'[q].step = "read" => reader'[q] = reader[q]
      BY <1>1, <2>2, ListSimple, ListTyped
    <2>9. odd \subseteq odd' /\ odd' \subseteq MailFolders
      BY <1>1, <2>1, <2>2, ListTyped
    <2>10. Li!TypeOK'
      BY <1>1, <2>2, <2>5, <2>6, <2>8, <2>9, ListTyped DEF Li!TypeOK, ListEntry, ListReader
    <2>11. ListFresh'
      <3> SUFFICES ASSUME NEW g \in MailFolders \ odd', Li!Held(g)' PROVE own[g] <= entries'[g].content
        BY <2>2 DEF ListFresh
      <3>1. CASE g = f /\ entries'[g] = entry
        <4>1. ~(reader[r].content < data[f]) /\ reader[r].content \in Nat /\ data[f] \in Nat
          BY <1>1, <2>1, <2>2, <3>1 DEF Li!Content
        <4> QED
          BY <1>1, <2>4, <3>1, <4>1 DEF ListTold
      <3>2. CASE Li!Held(g) /\ entries'[g] = entries[g]
        BY <1>1, <2>9, <3>2 DEF ListFresh
      <3> QED
        BY <2>7, <3>1, <3>2
    <2>12. ListTold' /\ ListDrops' /\ Li!OwnChangesShown'
      BY <1>1, <2>2, <2>9 DEF ListTold, ListDrops, Li!OwnChangesShown, Li!Newest
    <2>13. ListAsked'
      BY <1>1, <2>2, <2>8 DEF ListAsked
    <2> QED
      BY <2>10, <2>11, <2>12, <2>13 DEF ListInv
  (* Changes of folders. *)
  <1>5. ASSUME NEW F \in SUBSET MailFolders, Li!Changed(F) PROVE
            /\ data' \in [MailFolders -> Li!Content]
            /\ \A f \in MailFolders : data[f] <= data'[f] /\ data'[f] \in Nat
            /\ UNCHANGED own => ListTold' /\ (UNCHANGED reader => ListAsked')
    <2>1. data' \in [MailFolders -> Li!Content] /\ \A f \in MailFolders : data[f] <= data'[f]
      BY <1>1, <1>5, ListChanging
    <2>2. \A f \in MailFolders : data'[f] \in Nat
      BY <2>1 DEF Li!Content
    <2>3. ASSUME UNCHANGED own PROVE ListTold'
      BY <1>1, <2>1, <2>2, <2>3 DEF ListTold
    <2>4. ASSUME UNCHANGED reader PROVE ListAsked'
      <3> SUFFICES ASSUME NEW r \in Readers, reader[r].step = "read"
                   PROVE  reader[r].content <= data'[reader[r].folder]
        BY <2>4 DEF ListAsked
      <3>1. reader[r].folder \in MailFolders /\ reader[r].content \in Nat
        BY <1>1, ListTyped DEF ListReader, Li!Content
      <3> QED
        BY <1>1, <2>1, <2>2, <3>1 DEF ListAsked
    <2> QED
      BY <2>1, <2>2, <2>3, <2>4
  <1>6. ASSUME NEW F \in SUBSET MailFolders, NEW drop \in SUBSET MailFolders, Li!Begin(F, drop),
               odd \subseteq odd',
               odd' \subseteq MailFolders, F \subseteq drop \cup odd'
        PROVE  ListInv'
    <2>1. /\ Li!Changed(F) /\ change' = [drop |-> drop, touched |-> F]
          /\ UNCHANGED <<own, entries, order, reader, listed>>
      BY <1>6 DEF Li!Begin
    <2>2. Li!TypeOK'
      BY <1>1, <1>5, <1>6, <2>1, ListTyped DEF Li!TypeOK, ListEntry, ListReader
    <2>3. ListTold' /\ ListAsked'
      BY <1>5, <2>1
    <2>4. ListFresh' /\ ListDrops' /\ Li!OwnChangesShown'
      BY <1>1, <1>6, <2>1 DEF ListFresh, ListDrops, Li!OwnChangesShown, Li!Newest, Li!Held
    <2> QED
      BY <2>2, <2>3, <2>4 DEF ListInv
  <1>7. ASSUME NEW F \in SUBSET MailFolders, Li!delete_folder(F) PROVE ListInv'
    <2>1. /\ Li!Without(MailFolders) /\ change' = [drop |-> {}, touched |-> F] /\ odd' = odd \cup F
          /\ UNCHANGED <<data, own, reader, listed>>
      BY <1>7 DEF Li!delete_folder
    <2>2. /\ entries' \in [MailFolders -> ListEntry] /\ order' \subseteq MailFolders \X MailFolders
          /\ \A f \in MailFolders : ~Li!Held(f)'
      BY <1>1, <2>1, ListDropping
    <2>3. Li!TypeOK'
      BY <1>1, <2>1, <2>2, ListTyped DEF Li!TypeOK, ListEntry, ListReader
    <2>4. ListTold' /\ ListAsked' /\ ListFresh' /\ ListDrops' /\ Li!OwnChangesShown'
      BY <1>1, <2>1, <2>2 DEF ListTold, ListAsked, ListFresh, ListDrops, Li!OwnChangesShown,
         Li!Newest
    <2> QED
      BY <2>3, <2>4 DEF ListInv
  <1>8. ASSUME Li!DeleteRows PROVE ListInv'
    <2>1. /\ change.drop = {} /\ Li!Changed(change.touched) /\ change' = Li!NoChange
          /\ own' = [f \in MailFolders |-> IF f \in change.touched THEN data'[f] ELSE own[f]]
          /\ UNCHANGED <<entries, order, reader, listed, odd>> /\ change.touched \in SUBSET MailFolders
          /\ change.touched \subseteq odd
      BY <1>1, <1>8, ListTyped DEF Li!DeleteRows, ListDrops
    <2>2. /\ data' \in [MailFolders -> Li!Content]
          /\ \A f \in MailFolders : data[f] <= data'[f] /\ data'[f] \in Nat
      BY <1>5, <2>1
    <2>3. Li!TypeOK'
      BY <1>1, <2>1, <2>2, ListSimple, ListTyped DEF Li!TypeOK, ListEntry, ListReader
    <2>4. ListTold'
      BY <1>1, <2>1, <2>2 DEF ListTold
    <2>5. ListAsked'
      <3> SUFFICES ASSUME NEW r \in Readers, reader[r].step = "read"
                   PROVE  reader[r].content <= data'[reader[r].folder]
        BY <2>1 DEF ListAsked
      <3>1. reader[r].folder \in MailFolders /\ reader[r].content \in Nat
        BY <1>1, ListTyped DEF ListReader, Li!Content
      <3> QED
        BY <1>1, <2>2, <3>1 DEF ListAsked
    <2>6. ListFresh' /\ ListDrops' /\ Li!OwnChangesShown'
      BY <1>1, <2>1, ListSimple DEF ListFresh, ListDrops, Li!OwnChangesShown, Li!Newest, Li!Held
    <2> QED
      BY <2>3, <2>4, <2>5, <2>6 DEF ListInv
  <1>9. ASSUME Li!invalidate PROVE ListInv'
    <2>1. /\ Li!Without(change.drop)
          /\ own' = [f \in MailFolders |-> IF f \in change.touched THEN data[f] ELSE own[f]]
          /\ change' = Li!NoChange /\ UNCHANGED <<data, reader, listed, odd>>
      BY <1>9 DEF Li!invalidate
    <2>2. /\ entries' \in [MailFolders -> ListEntry] /\ order' \subseteq MailFolders \X MailFolders
          /\ \A f \in MailFolders : Li!Held(f)' => f \notin change.drop /\ Li!Held(f) /\ entries'[f] = entries[f]
      BY <1>1, <2>1, ListDropping
    <2>3. Li!TypeOK'
      BY <1>1, <2>1, <2>2, ListSimple, ListTyped DEF Li!TypeOK, ListEntry, ListReader
    <2>4. ListFresh'
      <3> SUFFICES ASSUME NEW f \in MailFolders \ odd, Li!Held(f)' PROVE own'[f] <= entries'[f].content
        BY <2>1 DEF ListFresh
      <3>1. f \notin change.touched
        BY <1>1, <2>2 DEF ListDrops
      <3> QED
        BY <1>1, <2>1, <2>2, <3>1 DEF ListFresh
    <2>5. ListTold' /\ ListAsked' /\ ListDrops' /\ Li!OwnChangesShown'
      BY <1>1, <2>1, ListSimple DEF ListTold, ListAsked, ListDrops, Li!OwnChangesShown, Li!Newest
    <2> QED
      BY <2>3, <2>4, <2>5 DEF ListInv
  <1>10. ASSUME NEW f \in MailFolders, Li!Sync(f) PROVE ListInv'
    <2>1. /\ Li!Changed({f}) /\ {f} \in SUBSET MailFolders
          /\ UNCHANGED <<own, entries, order, reader, change, listed, odd>>
      BY <1>10 DEF Li!Sync
    <2>2. Li!TypeOK' /\ ListTold' /\ ListAsked'
      BY <1>1, <1>5, <2>1, ListTyped DEF Li!TypeOK, ListEntry, ListReader
    <2>3. ListFresh' /\ ListDrops' /\ Li!OwnChangesShown'
      BY <1>1, <2>1 DEF ListFresh, ListDrops, Li!OwnChangesShown, Li!Newest, Li!Held
    <2> QED
      BY <2>2, <2>3 DEF ListInv
  <1>11. ASSUME Li!Tick PROVE ListInv'
    <2>1. /\ entries' = [f \in MailFolders |-> IF entries[f].age <= Ttl THEN [entries[f] EXCEPT !.age = @ + 1] ELSE entries[f]]
          /\ UNCHANGED <<data, own, order, reader, change, listed, odd>>
      BY <1>11 DEF Li!Tick
    <2>2. \A f \in MailFolders : entries[f] \in ListEntry
      BY <1>1, ListTyped
    <2>3. \A f \in MailFolders : entries[f].age <= Ttl => [entries[f] EXCEPT !.age = @ + 1] \in ListEntry
      BY <1>1, <2>2 DEF ListEntry
    <2>4. \A f \in MailFolders : entries'[f] \in ListEntry /\ entries'[f].content = entries[f].content /\ (Li!Held(f)' => Li!Held(f))
      BY <1>1, <2>1, <2>2, <2>3 DEF Li!Held, ListEntry
    <2>5. Li!TypeOK'
      BY <1>1, <2>1, <2>4, ListTyped DEF Li!TypeOK, ListEntry, ListReader
    <2>6. ListTold' /\ ListAsked' /\ ListFresh' /\ ListDrops' /\ Li!OwnChangesShown'
      BY <1>1, <2>1, <2>4 DEF ListTold, ListAsked, ListFresh, ListDrops, Li!OwnChangesShown,
         Li!Newest
    <2> QED
      BY <2>5, <2>6 DEF ListInv
  <1>12. ASSUME UNCHANGED Li!vars PROVE ListInv'
    BY <1>1, <1>12, ListTyped DEF Li!vars, ListInv, Li!TypeOK, ListTold, ListAsked, ListFresh,
       ListDrops, Li!OwnChangesShown, Li!Newest, Li!Held
  <1>13. ASSUME NEW f \in MailFolders, Li!mark_as_read(f) \/ Li!batch_set_read(f) PROVE ListInv'
    BY <1>1, <1>6, <1>13, ListTyped DEF Li!mark_as_read, Li!batch_set_read
  <1>14. ASSUME NEW f \in MailFolders, NEW g \in MailFolders, Li!move_message(f, g) PROVE ListInv'
    BY <1>1, <1>6, <1>14, ListTyped DEF Li!move_message, Li!Dropped
  <1>15. ASSUME NEW F \in SUBSET MailFolders, Li!MarkedElsewhere(F) \/ Li!delete_message(F)
         PROVE  ListInv'
    BY <1>1, <1>6, <1>15, ListSimple, ListTyped DEF Li!MarkedElsewhere, Li!delete_message
  <1> QED
    BY <1>2, <1>3, <1>4, <1>7, <1>8, <1>9, <1>10, <1>11, <1>12, <1>13, <1>14, <1>15 DEF Li!Next

-----------------------------------------------------------------------------
(***************************************************************************)
(* Folders: what a move waits for is there, or was deleted, through every  *)
(* rename; what is in a folder once its mails are in the trash came in     *)
(* after that (api/messages.rs).                                           *)
(***************************************************************************)
FolderName == Seq(STRING)

(* Names position by position. *)
LEMMA FolderBelow ==
    ASSUME NEW p \in FolderName, NEW q \in FolderName
    PROVE  Fo!Below(p, q) <=> Len(q) <= Len(p) /\ \A i \in 1 .. Len(q) : p[i] = q[i]
  <1>1. Len(p) \in Nat /\ Len(q) \in Nat
    BY LenProperties DEF FolderName
  <1>2. ASSUME Len(q) <= Len(p)
        PROVE  SubSeq(q, 1, Len(q)) = SubSeq(p, 1, Len(q)) <=> \A i \in 1 .. Len(q) : p[i] = q[i]
    <2>1. \A i \in 1 .. Len(q) : q[i] \in STRING /\ p[i] \in STRING
      BY <1>1, <1>2, ElementOfSeq DEF FolderName
    <2> DEFINE s == SubSeq(q, 1, Len(q))
               t == SubSeq(p, 1, Len(q))
    <2>2. /\ s \in FolderName /\ Len(s) = Len(q) /\ \A i \in 1 .. Len(q) : s[i] = q[i]
          /\ t \in FolderName /\ Len(t) = Len(q) /\ \A i \in 1 .. Len(q) : t[i] = p[i]
      BY <1>1, <2>1, SubSeqProperties DEF FolderName
    <2> HIDE DEF s, t
    <2>3. (\A i \in 1 .. Len(q) : s[i] = t[i]) => s = t
      BY <2>2, SeqEqual DEF FolderName
    <2>4. s = t <=> \A i \in 1 .. Len(q) : p[i] = q[i]
      BY <2>2, <2>3
    <2> QED
      BY <2>4 DEF s, t
  <1> QED
    BY <1>2 DEF Fo!Below, Fo!IsPrefix

LEMMA FolderRenamed ==
    ASSUME NEW p \in FolderName, NEW old \in FolderName, NEW new \in FolderName, p # Absent,
           Len(old) = Len(new), Fo!Below(p, old)
    PROVE  /\ Fo!Rename(p, old, new) \in FolderName /\ Len(Fo!Rename(p, old, new)) = Len(p)
           /\ \A i \in 1 .. Len(p) : Fo!Rename(p, old, new)[i] = IF i <= Len(old) THEN new[i] ELSE p[i]
  <1>1. Len(p) \in Nat /\ Len(old) \in Nat /\ Len(old) <= Len(p)
    BY FolderBelow, LenProperties DEF FolderName
  <1>2. \A i \in Len(old) + 1 .. Len(p) : p[i] \in STRING
    BY <1>1, ElementOfSeq DEF FolderName
  <1> DEFINE rest == SubSeq(p, Len(old) + 1, Len(p))
  <1>3. /\ rest \in Seq(STRING) /\ Len(rest) = Len(p) - Len(old)
        /\ \A i \in 1 .. Len(p) - Len(old) : rest[i] = p[Len(old) + i]
    BY <1>1, <1>2, SubSeqProperties
  <1> HIDE DEF rest
  <1>4. /\ new \o rest \in Seq(STRING) /\ Len(new \o rest) = Len(p)
        /\ \A i \in 1 .. Len(p) : (new \o rest)[i] = IF i <= Len(old) THEN new[i] ELSE rest[i - Len(old)]
    BY <1>1, <1>3, ConcatProperties DEF FolderName
  <1>5. \A i \in 1 .. Len(p) : i > Len(old) => rest[i - Len(old)] = p[i]
    BY <1>1, <1>3
  <1>6. Fo!Rename(p, old, new) = new \o rest
    BY DEF Fo!Rename, rest
  <1> QED
    BY <1>4, <1>5, <1>6 DEF FolderName

(* Names in order: a folder is below itself, one below another is below    *)
(* what that is below, and of two above it one is below the other.         *)
LEMMA FolderOrder ==
    ASSUME NEW p \in FolderName, NEW q \in FolderName, NEW r \in FolderName
    PROVE  /\ Fo!Below(p, p)
           /\ Fo!Below(r, q) /\ Fo!Below(q, p) => Fo!Below(r, p)
           /\ Fo!Below(p, q) /\ Len(p) = Len(q) => p = q
           /\ Fo!Below(r, p) /\ Fo!Below(r, q) => Fo!Below(p, q) \/ Fo!Below(q, p)
  <1>1. Len(p) \in Nat /\ Len(q) \in Nat /\ Len(r) \in Nat
    BY LenProperties DEF FolderName
  <1>2. Fo!Below(p, p)
    BY <1>1, FolderBelow
  <1>3. Fo!Below(r, q) /\ Fo!Below(q, p) => Fo!Below(r, p)
    BY <1>1, FolderBelow
  <1>4. Fo!Below(p, q) /\ Len(p) = Len(q) => p = q
    BY <1>1, FolderBelow, SeqEqual DEF FolderName
  <1>5. Fo!Below(r, p) /\ Fo!Below(r, q) => Fo!Below(p, q) \/ Fo!Below(q, p)
    <2>1. CASE Len(p) <= Len(q)
      BY <1>1, <2>1, FolderBelow
    <2>2. CASE Len(q) <= Len(p)
      BY <1>1, <2>2, FolderBelow
    <2> QED
      BY <1>1, <2>1, <2>2
  <1> QED
    BY <1>2, <1>3, <1>4, <1>5

(* Renaming keeps the order, can be taken back, and leaves nothing below   *)
(* the old name.                                                           *)
LEMMA FolderRenaming ==
    ASSUME NEW p \in FolderName, NEW r \in FolderName, NEW old \in FolderName, NEW new \in FolderName,
           Absent \notin {p, r, Fo!Rename(p, old, new)}, Len(old) = Len(new), Fo!Below(p, old)
    PROVE  /\ Fo!Below(Fo!Rename(p, old, new), new)
           /\ Fo!Rename(Fo!Rename(p, old, new), new, old) = p
           /\ Fo!Below(r, p) => Fo!Below(Fo!Rename(r, old, new), Fo!Rename(p, old, new))
           /\ old # new => ~Fo!Below(Fo!Rename(p, old, new), old)
  <1> DEFINE n == Fo!Rename(p, old, new)
  <1>1. Len(p) \in Nat /\ Len(old) \in Nat /\ Len(old) <= Len(p) /\ \A i \in 1 .. Len(old) : p[i] = old[i]
    BY FolderBelow, LenProperties DEF FolderName
  <1>2. /\ n \in FolderName /\ Len(n) = Len(p)
        /\ \A i \in 1 .. Len(p) : n[i] = IF i <= Len(old) THEN new[i] ELSE p[i]
    BY FolderRenamed
  <1>3. Fo!Below(n, new)
    BY <1>1, <1>2, FolderBelow
  <1>4. Fo!Rename(n, new, old) = p
    <2> DEFINE b == Fo!Rename(n, new, old)
    <2>1. /\ b \in FolderName /\ Len(b) = Len(n)
          /\ \A i \in 1 .. Len(n) : b[i] = IF i <= Len(new) THEN old[i] ELSE n[i]
      BY <1>2, <1>3, FolderRenamed
    <2>2. \A i \in 1 .. Len(p) : b[i] = p[i]
      BY <1>1, <1>2, <2>1
    <2> QED
      BY <1>1, <1>2, <2>1, <2>2, SeqEqual DEF FolderName
  <1>5. ASSUME Fo!Below(r, p) PROVE Fo!Below(Fo!Rename(r, old, new), n)
    <2> DEFINE b == Fo!Rename(r, old, new)
    <2>1. Fo!Below(r, old) /\ Len(r) \in Nat /\ Len(p) <= Len(r) /\ \A i \in 1 .. Len(p) : r[i] = p[i]
      BY <1>5, FolderOrder, FolderBelow, LenProperties DEF FolderName
    <2>2. /\ b \in FolderName /\ Len(b) = Len(r)
          /\ \A i \in 1 .. Len(r) : b[i] = IF i <= Len(old) THEN new[i] ELSE r[i]
      BY <2>1, FolderRenamed
    <2> QED
      BY <1>1, <1>2, <2>1, <2>2, FolderBelow
  <1>6. old # new => ~Fo!Below(n, old)
    <2> SUFFICES ASSUME Fo!Below(n, old) PROVE old = new
      OBVIOUS
    <2>1. \A i \in 1 .. Len(old) : n[i] = old[i]
      BY <1>2, FolderBelow
    <2>2. \A i \in 1 .. Len(old) : old[i] = new[i]
      BY <1>1, <1>2, <2>1
    <2> QED
      BY <2>2, SeqEqual DEF FolderName
  <1> QED
    BY <1>3, <1>4, <1>5, <1>6

-----------------------------------------------------------------------------
(* The same for the places of a tree. *)
FolderAnother(old, new) == /\ old \in Fo!Place \ {Fo!Inbox} /\ new \in TreePaths \ {Fo!Inbox}
                           /\ Len(new) = Len(old) /\ new # old

LEMMA FolderPlaces ==
    ASSUME Fo!PathsAssumption
    PROVE  /\ Fo!Place \subseteq FolderName /\ Fo!Inbox \in Fo!Place /\ Fo!Trash \in Fo!Place
           /\ TreePaths \subseteq Fo!Place /\ Absent \notin Fo!Place /\ Nowhere \notin Fo!Place
           /\ \A p \in Fo!Place : Len(p) \in Nat \ {0}
  <1>1. /\ Fo!Place \subseteq FolderName /\ Fo!Inbox \in Fo!Place /\ Fo!Trash \in Fo!Place
        /\ TreePaths \subseteq Fo!Place /\ Absent \notin Fo!Place /\ Nowhere \notin Fo!Place
        /\ <<>> \notin Fo!Place
    BY DEF Fo!PathsAssumption, Fo!Place, FolderName
  <1> QED
    BY <1>1, LenProperties, EmptySeq DEF FolderName

LEMMA FolderRoots ==
    ASSUME Fo!PathsAssumption, NEW p \in Fo!Place
    PROVE  /\ Fo!Below(Fo!Inbox, p) => p = Fo!Inbox
           /\ Fo!Below(Fo!Trash, p) => p = Fo!Trash
  <1>1. Len(Fo!Inbox) = 1 /\ Len(Fo!Trash) = 1
    BY DEF Fo!Inbox, Fo!Trash
  <1>2. \A q \in {Fo!Inbox, Fo!Trash} : Fo!Below(q, p) => Len(p) = Len(q)
    BY <1>1, FolderPlaces, FolderBelow
  <1> QED
    BY <1>2, FolderPlaces, FolderOrder

LEMMA FolderRenamedPlace ==
    ASSUME Fo!PathsAssumption, NEW old, NEW new, FolderAnother(old, new), NEW p \in Fo!Place
    PROVE  Fo!Rename(p, old, new) \in Fo!Place
  <1>1. CASE Fo!Below(p, old)
    BY <1>1 DEF Fo!PathsAssumption, FolderAnother, Fo!Under
  <1>2. CASE ~Fo!Below(p, old)
    BY <1>2 DEF Fo!Rename
  <1> QED
    BY <1>1, <1>2

(* What is above a folder renamed is above the new name, or was above the  *)
(* folder and is renamed with it.                                          *)
LEMMA FolderAbove ==
    ASSUME Fo!PathsAssumption, NEW old, NEW new, FolderAnother(old, new), NEW r \in Fo!Place, Fo!Below(r, old),
           NEW q \in Fo!Place, Fo!Below(Fo!Rename(r, old, new), q)
    PROVE  \/ Fo!Below(new, q)
           \/ \E p \in Fo!Place : Fo!Below(r, p) /\ Fo!Below(p, old) /\ q = Fo!Rename(p, old, new)
  <1> DEFINE n == Fo!Rename(r, old, new)
  <1>1. /\ old \in FolderName /\ new \in FolderName /\ r \in FolderName /\ q \in FolderName
        /\ n \in Fo!Place /\ n \in FolderName /\ Len(old) = Len(new) /\ Absent \notin {r, q, n, old, new}
        /\ new \in Fo!Place /\ new # old
    BY FolderPlaces, FolderRenamedPlace DEF FolderAnother
  <1>2. Fo!Below(n, new) /\ Fo!Rename(n, new, old) = r
    BY <1>1, FolderRenaming
  <1>3. Fo!Below(new, q) \/ Fo!Below(q, new)
    BY <1>1, <1>2, FolderOrder
  <1>4. ASSUME Fo!Below(q, new), ~Fo!Below(new, q)
        PROVE  \E p \in Fo!Place : Fo!Below(r, p) /\ Fo!Below(p, old) /\ q = Fo!Rename(p, old, new)
    <2> DEFINE p == Fo!Rename(q, new, old)
    <2>1. CASE old \in TreePaths
      <3>1. FolderAnother(new, old)
        BY <1>1, <2>1, FolderPlaces DEF FolderAnother
      <3>2. p \in Fo!Place /\ p # Absent
        BY <3>1, FolderRenamedPlace, FolderPlaces
      <3>3. Fo!Below(p, old) /\ Fo!Rename(p, old, new) = q /\ Fo!Below(Fo!Rename(n, new, old), p)
        BY <1>1, <1>4, <3>2, FolderRenaming
      <3> QED
        BY <1>2, <3>2, <3>3
    <2>2. CASE old \notin TreePaths
      <3>1. old = Fo!Trash /\ r = old
        BY <2>2 DEF FolderAnother, Fo!Place, Fo!PathsAssumption, Fo!Under
      <3>2. Len(n) = Len(new) /\ Len(q) \in Nat /\ Len(new) \in Nat
        BY <1>1, <3>1, FolderRenamed, FolderPlaces DEF FolderAnother
      <3>3. Len(q) <= Len(n) /\ Len(new) <= Len(q)
        BY <1>1, <1>4, FolderBelow
      <3>4. q = new
        BY <1>1, <1>4, <3>2, <3>3, FolderOrder
      <3> QED
        BY <1>1, <1>4, <3>4, FolderOrder
    <2> QED
      BY <2>1, <2>2
  <1> QED
    BY <1>3, <1>4

-----------------------------------------------------------------------------
(* The tree has the inbox, the trash, and with a folder those above it. *)
FolderTree == /\ Fo!Inbox \in tree /\ trash \in tree \cup {Absent}
              /\ \A p \in tree : Fo!WithParents(p) \subseteq tree

(* While the provider has done a rename that Relay has not, what Relay     *)
(* calls by the old name is there by the new one.                          *)
FolderNamed(p) == IF todo.kind = "renamed" THEN Fo!Rename(p, todo.folder, todo.new) ELSE p
FolderDeleted == IF todo.kind = "renamed" THEN Fo!Along(dropped \cup halfway) ELSE dropped \cup halfway
FolderKnown(p) == Fo!WithParents(FolderNamed(p)) \subseteq tree \cup {Fo!Trash} \cup FolderDeleted

(* What a move waits for, and where Relay shows a mail, the provider has   *)
(* with all above it, or had until it was deleted.                         *)
FolderWaiting == /\ \A m \in Filed : ops[m] # Absent => FolderKnown(ops[m])
                 /\ \A m \in Filed : shown[m] \in locals \cup {Absent} \/ FolderKnown(shown[m])

FolderRequest == /\ todo.kind \in {"rename", "renamed"} => FolderAnother(todo.folder, todo.new)
                 /\ todo.kind \in {"rename", "to provider"} => todo.folder \in tree
                 /\ todo.kind = "delete" => todo.left \subseteq Fo!Place \ {Fo!Inbox}
                 /\ moved # Absent => todo.kind = "delete" /\ moved \in todo.left
FolderRenames == todo.kind = "renamed" => /\ todo.new \in tree /\ \A p \in tree : FolderKnown(p)
                                          /\ trash \in {Absent, Fo!Trash} \/ ~Fo!Below(trash, todo.folder)
                                          /\ \A q \in Fo!Place : Fo!Below(todo.folder, q) /\ q # todo.folder => q \in tree

(* Once the mails of a folder are in the trash, what is in the folder came *)
(* after that.                                                             *)
FolderEmptied == moved # Absent /\ Fo!ToTrashFirst(moved) => \A m \in Filed : at[m] = moved => lost[m] = "late"
FolderInv == /\ Fo!TypeOK /\ FolderTree /\ FolderWaiting /\ FolderRequest /\ FolderRenames
             /\ FolderEmptied /\ Fo!FoldersNotMails

FolderRequests == [kind : {"none", "rename", "renamed", "delete", "empty", "to provider"},
                   folder : Fo!Place, new : Fo!Place, left : SUBSET Fo!Place]

LEMMA FolderKnownTree ==
    ASSUME Fo!PathsAssumption, FolderInv, NEW p \in tree \cup {Fo!Trash} PROVE FolderKnown(p)
  <1> USE DEF FolderInv
  <1>1. CASE todo.kind # "renamed"
    <2>1. Fo!WithParents(Fo!Trash) = {Fo!Trash}
      BY FolderRoots, FolderPlaces, FolderOrder DEF Fo!WithParents
    <2> QED
      BY <1>1, <2>1 DEF FolderKnown, FolderNamed, FolderTree
  <1>2. CASE todo.kind = "renamed" /\ p \in tree
    BY <1>2 DEF FolderRenames
  <1>3. CASE todo.kind = "renamed" /\ p = Fo!Trash
    <2>1. todo.folder \in Fo!Place /\ todo.new \in tree
      BY <1>3 DEF FolderRequest, FolderAnother, FolderRenames
    <2>2. CASE todo.folder = Fo!Trash
      <3>1. FolderNamed(p) = todo.new
        <4>1. /\ p \in FolderName /\ p # Absent /\ Len(todo.new) = Len(p) /\ todo.new \in FolderName
              /\ FolderAnother(todo.folder, todo.new) /\ p \in Fo!Place
          BY <1>3, <2>2, FolderPlaces DEF FolderRequest, FolderAnother
        <4>2. /\ Fo!Below(p, p) /\ Fo!Rename(p, p, todo.new) # Absent /\ Fo!Rename(p, p, todo.new) \in FolderName
          BY <1>3, <2>2, <4>1, FolderOrder, FolderRenamedPlace, FolderPlaces
        <4>3. Fo!Below(Fo!Rename(p, p, todo.new), todo.new) /\ Len(Fo!Rename(p, p, todo.new)) = Len(p)
          BY <4>1, <4>2, FolderRenaming, FolderRenamed
        <4>4. Fo!Rename(p, p, todo.new) = todo.new
          BY <4>1, <4>2, <4>3, FolderOrder
        <4> QED
          BY <1>3, <2>2, <4>4 DEF FolderNamed
      <3> QED
        BY <2>1, <3>1 DEF FolderKnown, FolderTree
    <2>3. CASE todo.folder # Fo!Trash
      <3>1. FolderNamed(p) = Fo!Trash
        BY <1>3, <2>1, <2>3, FolderRoots DEF FolderNamed, Fo!Rename
      <3>2. Fo!WithParents(Fo!Trash) = {Fo!Trash}
        BY FolderRoots, FolderPlaces, FolderOrder DEF Fo!WithParents
      <3> QED
        BY <3>1, <3>2 DEF FolderKnown
    <2> QED
      BY <2>2, <2>3
  <1> QED
    BY <1>1, <1>2, <1>3

(* What a step leaves of it: one that leaves the tree and the request, one *)
(* outside of a rename, and one that makes folders at the provider.        *)
LEMMA FolderQuiet ==
    ASSUME FolderTree, FolderRequest, FolderRenames, UNCHANGED <<tree, trash, todo, moved, dropped, halfway>>
    PROVE  FolderTree' /\ FolderRequest' /\ FolderRenames' /\ \A p : FolderKnown(p) => FolderKnown(p)'
  <1>1. FolderTree'
    BY DEF FolderTree, Fo!WithParents, Fo!Below
  <1>2. FolderRequest'
    BY DEF FolderRequest
  <1>3. \A p : FolderKnown(p) => FolderKnown(p)'
    BY DEF FolderKnown, FolderNamed, FolderDeleted, Fo!Along, Fo!Rename, Fo!Below
  <1>4. FolderRenames'
    BY <1>3 DEF FolderRenames
  <1> QED
    BY <1>1, <1>2, <1>3, <1>4

LEMMA FolderElsewhere ==
    ASSUME todo.kind # "renamed", todo'.kind # "renamed", dropped \subseteq dropped', halfway \subseteq halfway',
           tree \subseteq tree' \cup dropped'
    PROVE  FolderRenames' /\ \A p : FolderKnown(p) => FolderKnown(p)'
  <1>1. FolderRenames'
    BY DEF FolderRenames
  <1>2. \A p : FolderKnown(p) => FolderKnown(p)'
    BY DEF FolderKnown, FolderNamed, FolderDeleted
  <1> QED
    BY <1>1, <1>2

LEMMA FolderGrown ==
    ASSUME Fo!PathsAssumption, FolderTree, NEW p \in Fo!Place, tree' = tree \cup Fo!WithParents(p),
           trash' \in {trash, p}
    PROVE  FolderTree'
  <1>1. \A q \in Fo!WithParents(p) : Fo!WithParents(q) \subseteq Fo!WithParents(p)
    BY FolderPlaces, FolderOrder DEF Fo!WithParents
  <1>2. p \in Fo!WithParents(p)
    BY FolderPlaces, FolderOrder DEF Fo!WithParents
  <1> QED
    BY <1>1, <1>2 DEF FolderTree

-----------------------------------------------------------------------------
LEMMA FolderInitially == ASSUME Fo!PathsAssumption, Fo!Init PROVE FolderInv
  <1>1. /\ trash \in TrashPlaces \cup {Absent} /\ tree \subseteq TreePaths /\ Fo!Inbox \in tree
        /\ (trash = Absent \/ trash \in tree) /\ FolderTree /\ at \in [Filed -> tree \cup {Absent}]
        /\ shown = [m \in Filed |-> IF at[m] # Absent /\ at[m] = trash THEN Fo!Trash ELSE at[m]]
        /\ locals = {} /\ ops = [m \in Filed |-> Absent] /\ rescued = {} /\ dropped = {} /\ halfway = {}
        /\ todo = Fo!NoRequest /\ todo.kind = "none" /\ moved = Absent /\ requests = 0
        /\ lost = [m \in Filed |-> "no"]
    BY DEF Fo!Init, FolderTree, Fo!NoRequest
  <1>2. todo \in FolderRequests /\ TrashPlaces \subseteq Fo!Place /\ MaxRequests \in Nat
    BY <1>1, FolderPlaces DEF FolderRequests, Fo!NoRequest, Fo!PathsAssumption
  <1>3. shown \in [Filed -> Fo!Place \cup {Absent}] /\ at \in [Filed -> Fo!Place \cup {Absent, Nowhere}]
    BY <1>1, FolderPlaces
  <1>4. Fo!TypeOK
    <2>1. tree \subseteq Fo!Place /\ trash \in Fo!Place \cup {Absent} /\ moved \in Fo!Place \cup {Absent}
      BY <1>1, <1>2, FolderPlaces
    <2>2. ops \in [Filed -> Fo!Place \cup {Absent}] /\ requests \in 0 .. MaxRequests
      BY <1>1, <1>2
    <2>3. lost \in [Filed -> {"no", "emptied", "deleted", "late", "waiting", "trash below"}]
      BY <1>1
    <2> QED
      BY <1>1, <1>2, <1>3, <2>1, <2>2, <2>3 DEF Fo!TypeOK, FolderRequests
  <1>5. \A p \in tree \cup {Fo!Trash} : FolderKnown(p)
    <2>1. Fo!WithParents(Fo!Trash) = {Fo!Trash}
      BY FolderRoots, FolderPlaces, FolderOrder DEF Fo!WithParents
    <2> QED
      BY <1>1, <2>1 DEF FolderKnown, FolderNamed, FolderTree
  <1>6. FolderWaiting
    BY <1>1, <1>5 DEF FolderWaiting
  <1>7. FolderRequest /\ FolderRenames /\ FolderEmptied /\ Fo!FoldersNotMails
    BY <1>1 DEF FolderRequest, FolderRenames, FolderEmptied, Fo!FoldersNotMails
  <1> QED
    BY <1>1, <1>4, <1>6, <1>7 DEF FolderInv

(* What goes on beside a request. *)
LEMMA FolderArriveStep ==
    ASSUME Fo!PathsAssumption, FolderInv, NEW m \in Filed, NEW p \in Fo!Place, Fo!Arrive(m, p)
    PROVE  FolderInv'
  <1> USE DEF FolderInv
  <1>1. /\ at' = [at EXCEPT ![m] = p] /\ lost' = [lost EXCEPT ![m] = Fo!Late(p)]
        /\ UNCHANGED <<tree, trash, shown, locals, ops, rescued, todo, moved, requests, dropped, halfway>>
    BY DEF Fo!Arrive, Fo!index
  <1>2. Fo!TypeOK'
    BY <1>1 DEF Fo!TypeOK, Fo!Late
  <1>3. FolderTree' /\ FolderRequest' /\ FolderRenames' /\ \A q : FolderKnown(q) => FolderKnown(q)'
    BY <1>1, FolderQuiet
  <1>4. FolderWaiting'
    BY <1>1, <1>3 DEF FolderWaiting
  <1>5. FolderEmptied' /\ Fo!FoldersNotMails'
    BY <1>1 DEF FolderEmptied, Fo!FoldersNotMails, Fo!Late, Fo!TypeOK, Fo!ToTrashFirst, Fo!Below
  <1> QED
    BY <1>2, <1>3, <1>4, <1>5

LEMMA FolderMoveStep ==
    ASSUME Fo!PathsAssumption, FolderInv, NEW m \in Filed, NEW p \in Fo!Place, Fo!move_message(m, p)
    PROVE  FolderInv'
  <1> USE DEF FolderInv
  <1>1. /\ p \in tree \cup locals \cup {Fo!Trash} \/ \E n \in Filed : shown[n] = p
        /\ shown' = [shown EXCEPT ![m] = p] /\ ops' = [ops EXCEPT ![m] = IF p \in locals THEN Absent ELSE p]
        /\ rescued' = rescued \ {m}
        /\ UNCHANGED <<tree, trash, at, locals, todo, moved, requests, dropped, halfway, lost>>
    BY DEF Fo!move_message, Fo!provider, Fo!history
  <1>2. Fo!TypeOK'
    BY <1>1 DEF Fo!TypeOK
  <1>3. FolderTree' /\ FolderRequest' /\ FolderRenames' /\ \A q : FolderKnown(q) => FolderKnown(q)'
    BY <1>1, FolderQuiet
  <1>4. p \in locals \/ FolderKnown(p)
    BY <1>1, FolderKnownTree, FolderPlaces DEF FolderWaiting
  <1>5. FolderWaiting'
    BY <1>1, <1>3, <1>4 DEF FolderWaiting, Fo!TypeOK
  <1>6. FolderEmptied' /\ Fo!FoldersNotMails'
    BY <1>1 DEF FolderEmptied, Fo!FoldersNotMails, Fo!ToTrashFirst, Fo!Below
  <1> QED
    BY <1>2, <1>3, <1>5, <1>6

LEMMA FolderSyncStep ==
    ASSUME Fo!PathsAssumption, FolderInv, NEW m \in Filed, Fo!Sync(m) PROVE FolderInv'
  <1> USE DEF FolderInv
  <1> DEFINE place == IF at[m] \in tree THEN Fo!Relay(at[m]) ELSE Absent
  <1>1. /\ shown' = [shown EXCEPT ![m] = place]
        /\ UNCHANGED <<tree, trash, at, locals, ops, rescued, todo, moved, requests, dropped, halfway, lost>>
    BY DEF Fo!Sync, Fo!provider, Fo!history
  <1>2. place \in tree \cup {Fo!Trash, Absent} /\ place \in Fo!Place \cup {Absent}
    BY FolderPlaces DEF Fo!Relay, Fo!TypeOK
  <1> HIDE DEF place
  <1>3. Fo!TypeOK'
    BY <1>1, <1>2 DEF Fo!TypeOK
  <1>4. FolderTree' /\ FolderRequest' /\ FolderRenames' /\ \A q : FolderKnown(q) => FolderKnown(q)'
    BY <1>1, FolderQuiet
  <1>5. place = Absent \/ FolderKnown(place)
    BY <1>2, FolderKnownTree
  <1>6. FolderWaiting'
    BY <1>1, <1>4, <1>5 DEF FolderWaiting, Fo!TypeOK
  <1>7. FolderEmptied' /\ Fo!FoldersNotMails'
    BY <1>1 DEF FolderEmptied, Fo!FoldersNotMails, Fo!ToTrashFirst, Fo!Below
  <1> QED
    BY <1>3, <1>4, <1>6, <1>7

(* The replay makes folders, also while a rename is half done. *)
LEMMA FolderReplayStep ==
    ASSUME Fo!PathsAssumption, FolderInv, NEW m \in Filed, Fo!Replay(m) PROVE FolderInv'
  <1> USE DEF FolderInv
  <1> PICK goal : goal = Fo!Provider(ops[m])
    OBVIOUS
  <1>1. /\ ops[m] # Absent /\ ops' = [ops EXCEPT ![m] = Absent] /\ rescued' = rescued \ {m}
        /\ UNCHANGED <<shown, locals, todo, moved, requests, dropped, halfway>>
        /\ \/ /\ at' = [at EXCEPT ![m] = goal] /\ lost' = [lost EXCEPT ![m] = Fo!Late(goal)]
              /\ tree' = tree \cup Fo!WithParents(goal) /\ trash' = IF goal = Fo!Trash THEN Fo!Trash ELSE trash
           \/ UNCHANGED <<tree, trash, at, lost>>
    BY DEF Fo!Replay, Fo!provider
  <1>2. goal \in Fo!Place /\ goal \in {ops[m], trash, Fo!Trash} /\ ops[m] \in Fo!Place
        /\ \/ goal = ops[m]
           \/ goal = trash /\ trash # Fo!Trash
    BY <1>1, FolderPlaces DEF Fo!Provider, Fo!TrashOf, Fo!TypeOK
  <1>3. Fo!TypeOK'
    <2>1. ops' \in [Filed -> Fo!Place \cup {Absent}] /\ rescued' \subseteq Filed
      BY <1>1 DEF Fo!TypeOK
    <2>2. at' \in [Filed -> Fo!Place \cup {Absent, Nowhere}]
      BY <1>1, <1>2 DEF Fo!TypeOK
    <2>3. lost' \in [Filed -> {"no", "emptied", "deleted", "late", "waiting", "trash below"}]
      BY <1>1 DEF Fo!TypeOK, Fo!Late
    <2>4. tree' \subseteq Fo!Place /\ trash' \in Fo!Place \cup {Absent}
      BY <1>1, FolderPlaces DEF Fo!TypeOK, Fo!WithParents
    <2> QED
      BY <1>1, <2>1, <2>2, <2>3, <2>4 DEF Fo!TypeOK
  <1>4. FolderTree'
    <2>1. CASE UNCHANGED <<tree, trash>>
      BY <2>1 DEF FolderTree, Fo!WithParents, Fo!Below
    <2> QED
      BY <1>1, <1>2, <2>1, FolderGrown
  <1>5. FolderRequest'
    BY <1>1 DEF FolderRequest
  <1>6. \A p : FolderKnown(p) => FolderKnown(p)'
    BY <1>1 DEF FolderKnown, FolderNamed, FolderDeleted, Fo!Along, Fo!Rename, Fo!Below
  <1>7. FolderWaiting'
    BY <1>1, <1>6 DEF FolderWaiting, Fo!TypeOK
  <1>8. FolderRenames'
    <2> SUFFICES ASSUME todo.kind = "renamed" PROVE FolderRenames'
      BY <1>1 DEF FolderRenames
    <2> PICK f, n : f = todo.folder /\ n = todo.new
      OBVIOUS
    <2>1. FolderAnother(f, n) /\ n \in tree /\ (trash \in {Absent, Fo!Trash} \/ ~Fo!Below(trash, f))
      BY DEF FolderRequest, FolderRenames
    <2>2. ASSUME NEW p \in Fo!WithParents(goal), tree' = tree \cup Fo!WithParents(goal) PROVE FolderKnown(p)'
      <3>1. p \in Fo!Place /\ Fo!Below(goal, p) /\ p \in tree' /\ Fo!WithParents(p) \subseteq tree'
        BY <1>4, <2>2 DEF Fo!WithParents, FolderTree
      <3>2. CASE ~Fo!Below(p, f)
        <4>1. FolderNamed(p)' = p
          BY <1>1, <3>2 DEF FolderNamed, Fo!Rename, Fo!Below
        <4> QED
          BY <3>1, <4>1 DEF FolderKnown
      <3>3. CASE Fo!Below(p, f)
        <4>1. /\ p \in FolderName /\ goal \in FolderName /\ f \in FolderName /\ n \in FolderName
              /\ Len(f) = Len(n)
          BY <1>2, <2>1, <3>1, FolderPlaces DEF FolderAnother
        <4>2. Fo!Below(goal, f)
          BY <3>1, <3>3, <4>1, FolderOrder
        <4>3. goal = ops[m]
          BY <1>2, <2>1, <4>2, FolderPlaces
        <4>4. FolderKnown(goal)'
          BY <1>1, <1>6, <4>3 DEF FolderWaiting
        <4>5. FolderNamed(goal)' = Fo!Rename(goal, f, n) /\ FolderNamed(p)' = Fo!Rename(p, f, n)
          BY <1>1 DEF FolderNamed, Fo!Rename, Fo!Below
        <4>6. Fo!Rename(p, f, n) \in Fo!Place /\ Fo!Rename(goal, f, n) \in Fo!Place
          BY <1>2, <2>1, <3>1, FolderRenamedPlace
        <4>7. Fo!Below(Fo!Rename(goal, f, n), Fo!Rename(p, f, n))
          BY <3>1, <3>3, <4>1, <4>6, <1>2, FolderRenaming, FolderPlaces
        <4>8. Fo!WithParents(Fo!Rename(p, f, n)) \subseteq Fo!WithParents(Fo!Rename(goal, f, n))
          BY <4>6, <4>7, FolderOrder, FolderPlaces DEF Fo!WithParents
        <4> QED
          BY <4>4, <4>5, <4>8 DEF FolderKnown
      <3> QED
        BY <3>2, <3>3
    <2>3. \A p \in tree' : FolderKnown(p)'
      BY <1>1, <1>6, <2>2 DEF FolderRenames
    <2>4. trash' \in {Absent, Fo!Trash} \/ ~Fo!Below(trash, f)'
      BY <1>1, <2>1 DEF Fo!Below
    <2> QED
      BY <1>1, <2>1, <2>3, <2>4 DEF FolderRenames, Fo!Below
  <1>9. FolderEmptied' /\ Fo!FoldersNotMails'
    BY <1>1 DEF FolderEmptied, Fo!FoldersNotMails, Fo!Late, Fo!TypeOK, Fo!ToTrashFirst, Fo!Below
  <1> QED
    BY <1>3, <1>4, <1>5, <1>7, <1>8, <1>9

(* The provider renames a folder with those below it. *)
LEMMA FolderRenameStep == ASSUME Fo!PathsAssumption, FolderInv, Fo!RenameAtProvider PROVE FolderInv'
  <1> USE DEF FolderInv
  <1> PICK f, n : f = todo.folder /\ n = todo.new
    OBVIOUS
  <1>1. /\ todo.kind = "rename" /\ todo' = [todo EXCEPT !.kind = "renamed"]
        /\ tree' = {Fo!Rename(p, f, n) : p \in tree} \cup Fo!WithParents(n)
        /\ trash' = Fo!Rename(trash, f, n)
        /\ at' = [m \in Filed |-> IF at[m] \in tree THEN Fo!Rename(at[m], f, n) ELSE at[m]]
        /\ UNCHANGED <<shown, locals, ops, rescued, moved, requests, dropped, halfway, lost>>
    BY DEF Fo!RenameAtProvider, Fo!index, Fo!history
  <1>2. todo \in FolderRequests /\ tree \subseteq Fo!Place /\ trash \in Fo!Place \cup {Absent}
    BY DEF Fo!TypeOK, FolderRequests
  <1>3. /\ FolderAnother(f, n) /\ f \in tree /\ f \in Fo!Place /\ n \in Fo!Place /\ n # f
        /\ f \in FolderName /\ n \in FolderName /\ Len(n) = Len(f) /\ f # Fo!Inbox
    BY <1>1, FolderPlaces DEF FolderRequest, FolderAnother
  <1>4. todo' \in FolderRequests /\ todo'.kind = "renamed" /\ todo'.folder = f /\ todo'.new = n
    BY <1>1, <1>2 DEF FolderRequests
  <1>5. \A p \in Fo!Place : Fo!Rename(p, f, n) \in Fo!Place
    BY <1>3, FolderRenamedPlace
  <1>6. \A p : ~Fo!Below(p, f) => Fo!Rename(p, f, n) = p
    BY DEF Fo!Rename
  <1>7. \A p \in Fo!Place : Fo!Below(p, f) => ~Fo!Below(Fo!Rename(p, f, n), f)
    BY <1>3, <1>5, FolderRenaming, FolderPlaces
  <1>8. Fo!TypeOK'
    <2>1. tree' \subseteq Fo!Place /\ trash' \in Fo!Place \cup {Absent}
      <3>1. Fo!Rename(Absent, f, n) = Absent
        BY DEF Fo!Rename
      <3> QED
        BY <1>1, <1>2, <1>5, <3>1 DEF Fo!WithParents
    <2>2. at' \in [Filed -> Fo!Place \cup {Absent, Nowhere}]
      BY <1>1, <1>2, <1>5 DEF Fo!TypeOK
    <2> QED
      BY <1>1, <1>4, <2>1, <2>2 DEF Fo!TypeOK, FolderRequests
  <1>9. ASSUME NEW p \in tree, NEW q \in Fo!WithParents(Fo!Rename(p, f, n)) PROVE q \in tree'
    <2>1. CASE Fo!Below(p, f)
      <3>1. \/ Fo!Below(n, q)
            \/ \E r \in Fo!Place : Fo!Below(p, r) /\ Fo!Below(r, f) /\ q = Fo!Rename(r, f, n)
        BY <1>2, <1>3, <1>9, <2>1, FolderAbove DEF Fo!WithParents
      <3> QED
        BY <1>1, <1>9, <3>1 DEF Fo!WithParents, FolderTree
    <2>2. CASE ~Fo!Below(p, f)
      <3>1. q \in tree
        BY <1>6, <1>9, <2>2 DEF FolderTree
      <3>2. ~Fo!Below(q, f)
        BY <1>2, <1>3, <1>6, <1>9, <2>2, FolderOrder, FolderPlaces DEF Fo!WithParents
      <3> QED
        BY <1>1, <1>6, <3>1, <3>2
    <2> QED
      BY <2>1, <2>2
  <1>10. FolderTree'
    <2>1. \A q \in Fo!WithParents(n) : Fo!WithParents(q) \subseteq Fo!WithParents(n)
      BY <1>3, FolderPlaces, FolderOrder DEF Fo!WithParents
    <2>2. Fo!Inbox \in tree'
      BY <1>1, <1>3, <1>6, FolderRoots DEF FolderTree
    <2>3. trash' \in tree' \cup {Absent}
      <3>1. CASE trash = Absent
        BY <1>1, <3>1 DEF Fo!Rename
      <3> QED
        BY <1>1, <3>1 DEF FolderTree
    <2> QED
      BY <1>1, <1>9, <2>1, <2>2, <2>3 DEF FolderTree
  <1> DEFINE past == dropped \cup halfway
  <1>11. ASSUME NEW p \in Fo!Place, FolderKnown(p) PROVE FolderKnown(p)'
    <2>1. Fo!WithParents(p) \subseteq tree \cup {Fo!Trash} \cup past
      BY <1>1, <1>11 DEF FolderKnown, FolderNamed, FolderDeleted
    <2>2. /\ FolderNamed(p)' = Fo!Rename(p, f, n)
          /\ FolderDeleted' = past \cup {Fo!Rename(q, f, n) : q \in past}
      BY <1>1, <1>4 DEF FolderNamed, FolderDeleted, Fo!Along, Fo!Rename, Fo!Below
    <2>3. Fo!Below(Fo!Trash, f) => f = Fo!Trash
      BY <1>3, FolderRoots
    <2>4. ASSUME NEW q \in Fo!WithParents(Fo!Rename(p, f, n))
          PROVE  q \in tree' \cup {Fo!Trash} \cup FolderDeleted'
      <3>1. CASE Fo!Below(p, f)
        <4>1. \/ Fo!Below(n, q)
              \/ \E r \in Fo!Place : Fo!Below(p, r) /\ Fo!Below(r, f) /\ q = Fo!Rename(r, f, n)
          BY <1>3, <2>4, <3>1, FolderAbove DEF Fo!WithParents
        <4>2. CASE Fo!Below(n, q)
          BY <1>1, <2>4, <4>2 DEF Fo!WithParents
        <4>3. ASSUME NEW r \in Fo!Place, Fo!Below(p, r), Fo!Below(r, f), q = Fo!Rename(r, f, n)
              PROVE  q \in tree' \cup {Fo!Trash} \cup FolderDeleted'
          <5>1. r \in tree \cup past
            BY <1>3, <2>1, <2>3, <4>3 DEF Fo!WithParents
          <5> QED
            BY <1>1, <2>2, <4>3, <5>1
        <4> QED
          BY <4>1, <4>2, <4>3
      <3>2. CASE ~Fo!Below(p, f)
        <4>1. q \in tree \cup {Fo!Trash} \cup past
          BY <1>6, <2>1, <2>4, <3>2
        <4>2. ~Fo!Below(q, f)
          BY <1>3, <1>6, <2>4, <3>2, FolderOrder, FolderPlaces DEF Fo!WithParents
        <4> QED
          BY <1>1, <1>6, <2>2, <4>1, <4>2
      <3> QED
        BY <3>1, <3>2
    <2> QED
      BY <2>2, <2>4 DEF FolderKnown
  <1>12. FolderWaiting'
    BY <1>1, <1>11 DEF FolderWaiting, Fo!TypeOK
  <1>13. FolderRequest'
    BY <1>1, <1>3, <1>4 DEF FolderRequest
  <1>14. FolderRenames'
    <2>1. n \in tree'
      BY <1>1, <1>3, FolderOrder DEF Fo!WithParents
    <2>2. ASSUME NEW p \in tree' PROVE ~Fo!Below(p, f)
      <3>1. CASE p \in Fo!WithParents(n)
        BY <1>3, <3>1, FolderOrder, FolderPlaces DEF Fo!WithParents
      <3>2. CASE p \in {Fo!Rename(q, f, n) : q \in tree}
        BY <1>2, <1>6, <1>7, <3>2
      <3> QED
        BY <1>1, <3>1, <3>2
    <2>3. \A p \in tree' : FolderNamed(p)' = p
      BY <1>4, <1>6, <2>2 DEF FolderNamed, Fo!Rename, Fo!Below
    <2>4. \A p \in tree' : FolderKnown(p)'
      BY <1>10, <2>3 DEF FolderKnown, FolderTree
    <2>5. trash' = Absent \/ ~Fo!Below(trash', f)
      <3>1. CASE trash = Absent
        BY <1>1, <3>1 DEF Fo!Rename
      <3> QED
        BY <1>1, <1>2, <1>6, <1>7, <3>1
    <2>6. ASSUME NEW q \in Fo!Place, Fo!Below(f, q), q # f PROVE q \in tree'
      <3>1. q \in tree
        BY <1>3, <2>6 DEF FolderTree, Fo!WithParents
      <3>2. ~Fo!Below(q, f)
        <4>1. q \in FolderName /\ Len(q) \in Nat /\ Len(f) \in Nat
          BY <1>3, FolderPlaces
        <4>2. Fo!Below(q, f) => Len(q) = Len(f)
          BY <1>3, <2>6, <4>1, FolderBelow
        <4> QED
          BY <1>3, <2>6, <4>1, <4>2, FolderOrder
      <3> QED
        BY <1>1, <1>6, <3>1, <3>2
    <2> QED
      BY <1>4, <2>1, <2>4, <2>5, <2>6 DEF FolderRenames, Fo!Below
  <1>15. FolderEmptied' /\ Fo!FoldersNotMails'
    BY <1>1 DEF FolderRequest, FolderEmptied, Fo!FoldersNotMails
  <1> QED
    BY <1>8, <1>10, <1>12, <1>13, <1>14, <1>15

(* Relay follows, whole or by halves: what was there by the new name has   *)
(* it now, and the old names that stay are known for it.                   *)
LEMMA FolderFollowStep == ASSUME Fo!PathsAssumption, FolderInv, Fo!ordner_umbenennen PROVE FolderInv'
  <1> USE DEF FolderInv
  <1> PICK f, n : f = todo.folder /\ n = todo.new
    OBVIOUS
  <1> DEFINE follows == /\ shown' = [m \in Filed |-> Fo!Rename(shown[m], f, n)]
                        /\ locals' = {Fo!Rename(p, f, n) : p \in locals}
             along == [m \in Filed |-> Fo!Rename(ops[m], f, n)]
             past == dropped' \cup halfway'
  <1>1. /\ todo.kind = "renamed" /\ todo' = Fo!NoRequest
        /\ dropped' = Fo!Along(dropped)
        /\ halfway' \in {Fo!Along(halfway), Fo!Along(halfway) \cup Fo!Under(f, Fo!Place)}
        /\ UNCHANGED <<tree, trash, at, rescued, moved, requests, lost>>
    BY DEF Fo!ordner_umbenennen, Fo!provider
  <1>2. FolderAnother(f, n) /\ \A p : FolderNamed(p) = Fo!Rename(p, f, n)
    BY <1>1 DEF FolderRequest, FolderNamed
  <1>3. \A p \in Fo!Place : Fo!Rename(p, f, n) \in Fo!Place
    BY <1>2, FolderRenamedPlace
  <1>4. Fo!Rename(Absent, f, n) = Absent
    BY DEF Fo!Rename
  <1>5. todo' \in FolderRequests /\ todo'.kind = "none"
    BY <1>1, FolderPlaces DEF Fo!NoRequest, FolderRequests
  <1>6. /\ follows \/ UNCHANGED <<shown, locals>>
        /\ ops' = along \/ (UNCHANGED ops /\ Fo!Under(f, Fo!Place) \subseteq halfway')
    BY DEF Fo!ordner_umbenennen, Fo!FoldersFollow, Fo!RenamedOps
  <1>7. Fo!TypeOK'
    <2>1. /\ shown \in [Filed -> Fo!Place \cup {Absent}] /\ ops \in [Filed -> Fo!Place \cup {Absent}]
          /\ locals \subseteq Fo!Place /\ dropped \subseteq Fo!Place /\ halfway \subseteq Fo!Place
      BY DEF Fo!TypeOK
    <2>2. \A g \in [Filed -> Fo!Place \cup {Absent}] :
            [m \in Filed |-> Fo!Rename(g[m], f, n)] \in [Filed -> Fo!Place \cup {Absent}]
      BY <1>3, <1>4
    <2>3. shown' \in [Filed -> Fo!Place \cup {Absent}]
      BY <1>6, <2>1, <2>2
    <2>4. ops' \in [Filed -> Fo!Place \cup {Absent}]
      BY <1>6, <2>1, <2>2
    <2>5. locals' \subseteq Fo!Place
      BY <1>3, <1>6, <2>1
    <2>6. \A S \in SUBSET Fo!Place : Fo!Along(S) \subseteq Fo!Place
      BY <1>3 DEF Fo!Along
    <2>7. Fo!Under(f, Fo!Place) \subseteq Fo!Place
      BY DEF Fo!Under
    <2>8. dropped' \cup halfway' \subseteq Fo!Place
      BY <1>1, <2>1, <2>6, <2>7
    <2> QED
      BY <1>1, <1>5, <2>3, <2>4, <2>5, <2>8 DEF Fo!TypeOK, FolderRequests
  <1>8. FolderDeleted \subseteq past
    BY <1>1 DEF FolderDeleted, Fo!Along
  <1>9. \A p : Fo!WithParents(p) \subseteq tree \cup {Fo!Trash} \cup past => FolderKnown(p)'
    BY <1>1, <1>5 DEF FolderKnown, FolderNamed, FolderDeleted, Fo!WithParents, Fo!Below
  <1>10. \A p : FolderKnown(p) => FolderKnown(Fo!Rename(p, f, n))'
    <2> SUFFICES ASSUME NEW p, FolderKnown(p) PROVE FolderKnown(Fo!Rename(p, f, n))'
      OBVIOUS
    <2> PICK q : q = Fo!Rename(p, f, n)
      OBVIOUS
    <2>1. FolderKnown(q)'
      BY <1>2, <1>8, <1>9 DEF FolderKnown
    <2> QED
      BY <1>2, <1>8, <1>5, <2>1 DEF FolderKnown, FolderNamed
  <1>11. ASSUME NEW p \in Fo!Place, FolderKnown(p), Fo!Under(f, Fo!Place) \subseteq halfway'
         PROVE  FolderKnown(p)'
    <2> SUFFICES ASSUME NEW q \in Fo!WithParents(p)
                 PROVE  q \in tree \cup {Fo!Trash} \cup past
      BY <1>9
    <2>1. /\ q \in Fo!Place /\ Fo!Below(p, q) /\ f \in Fo!Place
          /\ p \in FolderName /\ q \in FolderName /\ f \in FolderName
      BY <1>2, FolderPlaces DEF Fo!WithParents, FolderAnother
    <2>2. CASE Fo!Below(q, f)
      BY <1>11, <2>1, <2>2 DEF Fo!Under
    <2>3. CASE Fo!Below(p, f) /\ ~Fo!Below(q, f)
      <3>1. Fo!Below(f, q) /\ q # f
        BY <2>1, <2>3, FolderOrder
      <3> QED
        BY <1>1, <2>1, <3>1 DEF FolderRenames
    <2>4. CASE ~Fo!Below(p, f)
      <3>1. FolderNamed(p) = p
        BY <1>2, <2>4 DEF Fo!Rename
      <3> QED
        BY <1>8, <1>11, <3>1 DEF FolderKnown
    <2> QED
      BY <2>2, <2>3, <2>4
  <1>12. FolderTree' /\ FolderRequest' /\ FolderRenames'
    BY <1>1, <1>5 DEF FolderTree, FolderRequest, FolderRenames, Fo!WithParents, Fo!Below
  <1>13. ASSUME NEW m \in Filed, ops'[m] # Absent PROVE FolderKnown(ops[m])'
    <2>1. CASE ops' = along
      <3>1. ops'[m] = Fo!Rename(ops[m], f, n) /\ ops[m] # Absent
        BY <1>4, <1>13, <2>1
      <3>2. PICK p : p = ops[m]
        OBVIOUS
      <3>3. FolderKnown(Fo!Rename(p, f, n))' /\ ops'[m] = Fo!Rename(p, f, n)
        BY <1>10, <3>1, <3>2 DEF FolderWaiting
      <3> QED
        BY <3>3 DEF FolderKnown, FolderNamed
    <2>2. CASE UNCHANGED ops /\ Fo!Under(f, Fo!Place) \subseteq halfway'
      <3>1. PICK p \in Fo!Place : p = ops[m]
        BY <1>13, <2>2 DEF Fo!TypeOK
      <3>2. FolderKnown(p)' /\ ops'[m] = p
        BY <1>11, <1>13, <2>2, <3>1 DEF FolderWaiting
      <3> QED
        BY <3>2 DEF FolderKnown, FolderNamed
    <2> QED
      BY <1>6, <2>1, <2>2
  <1>14. ASSUME NEW m \in Filed, shown'[m] \notin locals' \cup {Absent} PROVE FolderKnown(shown[m])'
    <2>1. CASE follows
      <3>1. shown[m] \notin locals \cup {Absent} /\ shown'[m] = Fo!Rename(shown[m], f, n)
        BY <1>4, <1>14, <2>1
      <3>2. PICK p : p = shown[m]
        OBVIOUS
      <3>3. FolderKnown(Fo!Rename(p, f, n))' /\ shown'[m] = Fo!Rename(p, f, n)
        BY <1>10, <3>1, <3>2 DEF FolderWaiting
      <3> QED
        BY <3>3 DEF FolderKnown, FolderNamed
    <2>2. CASE UNCHANGED <<shown, locals>> /\ Fo!Under(f, Fo!Place) \subseteq halfway'
      <3>1. PICK p \in Fo!Place : p = shown[m]
        BY <1>14, <2>2 DEF Fo!TypeOK
      <3>2. FolderKnown(p)' /\ shown'[m] = p
        BY <1>11, <1>14, <2>2, <3>1 DEF FolderWaiting
      <3> QED
        BY <3>2 DEF FolderKnown, FolderNamed
    <2>3. follows \/ (UNCHANGED <<shown, locals>> /\ Fo!Under(f, Fo!Place) \subseteq halfway')
      BY DEF Fo!ordner_umbenennen, Fo!FoldersFollow
    <2> QED
      BY <2>1, <2>2, <2>3
  <1>15. FolderWaiting'
    BY <1>13, <1>14 DEF FolderWaiting
  <1>16. FolderEmptied' /\ Fo!FoldersNotMails'
    BY <1>1 DEF FolderRequest, FolderEmptied, Fo!FoldersNotMails
  <1> QED
    BY <1>7, <1>12, <1>15, <1>16

-----------------------------------------------------------------------------
(* The other requests. *)
LEMMA FolderNoRequest == ASSUME Fo!PathsAssumption PROVE Fo!NoRequest \in FolderRequests /\ Fo!NoRequest.kind = "none"
  BY FolderPlaces DEF Fo!NoRequest, FolderRequests

LEMMA FolderBegins ==
    ASSUME Fo!PathsAssumption, Fo!TypeOK, NEW r, Fo!Begin(r)
    PROVE  todo.kind = "none" /\ todo' = r /\ moved' = Absent /\ requests' \in 0 .. MaxRequests
  <1>1. todo = Fo!NoRequest /\ requests < MaxRequests /\ requests' = requests + 1 /\ todo' = r /\ moved' = Absent
    BY DEF Fo!Begin
  <1>2. requests \in 0 .. MaxRequests /\ MaxRequests \in Nat
    BY DEF Fo!TypeOK, Fo!PathsAssumption
  <1>3. todo.kind = "none"
    BY <1>1, FolderNoRequest
  <1>4. requests + 1 \in 0 .. MaxRequests
    BY <1>1, <1>2
  <1> QED
    BY <1>1, <1>3, <1>4

(* Those that leave the provider's folders, and end or need nothing more.  *)
LEMMA FolderRests ==
    ASSUME FolderTree, UNCHANGED <<tree, trash, dropped, halfway>>, todo.kind # "renamed",
           todo'.kind \in {"none", "empty"}, moved' = Absent
    PROVE  /\ FolderTree' /\ FolderRequest' /\ FolderRenames' /\ FolderEmptied'
           /\ \A p : FolderKnown(p) => FolderKnown(p)'
  <1>1. FolderTree'
    BY DEF FolderTree, Fo!WithParents, Fo!Below
  <1>2. FolderRequest' /\ FolderEmptied'
    BY DEF FolderRequest, FolderEmptied
  <1> QED
    BY <1>1, <1>2, FolderElsewhere

LEMMA FolderCreateStep ==
    ASSUME Fo!PathsAssumption, FolderInv, NEW p \in Fo!Place, Fo!create_folder(p) PROVE FolderInv'
  <1> USE DEF FolderInv
  <1>1. /\ UNCHANGED <<at, shown, ops, rescued, dropped, halfway, lost>>
        /\ \/ /\ tree' = tree \cup Fo!WithParents(p) /\ UNCHANGED locals
              /\ trash' = IF p = Fo!Trash THEN Fo!TrashOf ELSE trash
           \/ locals' = locals \cup {p} /\ UNCHANGED <<tree, trash>>
    BY DEF Fo!create_folder, Fo!history
  <1>2. todo.kind = "none" /\ todo' = Fo!NoRequest /\ moved' = Absent /\ requests' \in 0 .. MaxRequests
    BY FolderBegins DEF Fo!create_folder
  <1>3. todo' \in FolderRequests /\ todo'.kind = "none"
    BY <1>2, FolderNoRequest
  <1>4. Fo!TypeOK'
    BY <1>1, <1>2, <1>3, FolderPlaces DEF Fo!TypeOK, FolderRequests, Fo!WithParents, Fo!TrashOf
  <1>5. FolderTree'
    <2>1. CASE UNCHANGED <<tree, trash>>
      BY <2>1 DEF FolderTree, Fo!WithParents, Fo!Below
    <2>2. CASE tree' = tree \cup Fo!WithParents(p) /\ trash' = IF p = Fo!Trash THEN Fo!TrashOf ELSE trash
      BY <2>2, FolderGrown DEF Fo!TrashOf
    <2> QED
      BY <1>1, <2>1, <2>2
  <1>6. FolderRenames' /\ \A q : FolderKnown(q) => FolderKnown(q)'
    BY <1>1, <1>2, <1>3, FolderElsewhere
  <1>7. FolderWaiting'
    BY <1>1, <1>6 DEF FolderWaiting
  <1>8. FolderRequest' /\ FolderEmptied' /\ Fo!FoldersNotMails'
    BY <1>1, <1>2, <1>3 DEF FolderRequest, FolderEmptied, Fo!FoldersNotMails
  <1> QED
    BY <1>4, <1>5, <1>6, <1>7, <1>8

LEMMA FolderAskRenameStep ==
    ASSUME Fo!PathsAssumption, FolderInv, NEW p \in Fo!Place, NEW q \in Fo!Place, Fo!rename_folder(p, q)
    PROVE  FolderInv'
  <1> USE DEF FolderInv
  <1>1. /\ p \in tree \ {Fo!Inbox, trash} /\ q \in TreePaths \ (tree \cup locals) /\ Len(q) = Len(p)
        /\ UNCHANGED <<tree, trash, at, shown, locals, ops, rescued, dropped, halfway, lost>>
    BY DEF Fo!rename_folder, Fo!provider, Fo!index, Fo!history
  <1>2. /\ todo.kind = "none" /\ todo' = [Fo!NoRequest EXCEPT !.kind = "rename", !.folder = p, !.new = q]
        /\ moved' = Absent /\ requests' \in 0 .. MaxRequests
    BY FolderBegins DEF Fo!rename_folder
  <1>3. todo' \in FolderRequests /\ todo'.kind = "rename" /\ todo'.folder = p /\ todo'.new = q
    BY <1>2, FolderNoRequest DEF FolderRequests
  <1>4. Fo!TypeOK'
    BY <1>1, <1>2, <1>3 DEF Fo!TypeOK, FolderRequests
  <1>5. FolderTree'
    BY <1>1 DEF FolderTree, Fo!WithParents, Fo!Below
  <1>6. FolderRenames' /\ \A r : FolderKnown(r) => FolderKnown(r)'
    BY <1>1, <1>2, <1>3, FolderElsewhere
  <1>7. FolderWaiting'
    BY <1>1, <1>6 DEF FolderWaiting
  <1>8. FolderAnother(p, q)
    BY <1>1 DEF FolderAnother, FolderTree
  <1>9. FolderRequest' /\ FolderEmptied' /\ Fo!FoldersNotMails'
    BY <1>1, <1>2, <1>3, <1>8 DEF FolderRequest, FolderEmptied, Fo!FoldersNotMails
  <1> QED
    BY <1>4, <1>5, <1>6, <1>7, <1>9

LEMMA FolderDeleteStep ==
    ASSUME Fo!PathsAssumption, FolderInv, NEW p \in Fo!Place, Fo!delete_folder(p) PROVE FolderInv'
  <1> USE DEF FolderInv
  <1> PICK goal, all : goal = Fo!TrashOf /\ all = Fo!Under(p, tree)
    OBVIOUS
  <1>1. /\ p \in tree \ {Fo!Inbox} /\ tree' = tree \cup {goal} /\ trash' = goal
        /\ UNCHANGED <<at, shown, locals, ops, rescued, dropped, halfway, lost>>
    BY DEF Fo!delete_folder, Fo!index, Fo!history
  <1>2. /\ todo.kind = "none"
        /\ todo' = [Fo!NoRequest EXCEPT !.kind = "delete", !.folder = p, !.new = goal, !.left = all]
        /\ moved' = Absent /\ requests' \in 0 .. MaxRequests
    BY FolderBegins DEF Fo!delete_folder
  <1>3. goal \in Fo!Place /\ goal \in tree \cup {Fo!Trash}
    BY FolderPlaces DEF Fo!TrashOf, Fo!TypeOK, FolderTree
  <1>4. all \subseteq Fo!Place \ {Fo!Inbox}
    BY <1>1, FolderRoots DEF Fo!Under, Fo!TypeOK
  <1>5. todo' \in FolderRequests /\ todo'.kind = "delete" /\ todo'.left = all
    BY <1>2, <1>3, <1>4, FolderNoRequest DEF FolderRequests
  <1>6. Fo!TypeOK'
    BY <1>1, <1>2, <1>3, <1>5 DEF Fo!TypeOK, FolderRequests
  <1>7. FolderTree'
    <2>1. Fo!WithParents(Fo!Trash) = {Fo!Trash}
      BY FolderRoots, FolderPlaces, FolderOrder DEF Fo!WithParents
    <2> QED
      BY <1>1, <1>3, <2>1 DEF FolderTree
  <1>8. FolderRenames' /\ \A r : FolderKnown(r) => FolderKnown(r)'
    BY <1>1, <1>2, <1>5, FolderElsewhere
  <1>9. FolderWaiting'
    BY <1>1, <1>8 DEF FolderWaiting
  <1>10. FolderRequest' /\ FolderEmptied' /\ Fo!FoldersNotMails'
    BY <1>1, <1>2, <1>4, <1>5 DEF FolderRequest, FolderEmptied, Fo!FoldersNotMails
  <1> QED
    BY <1>6, <1>7, <1>8, <1>9, <1>10

(* Nobody is left in a folder that was emptied. *)
LEMMA FolderEmptyingStep ==
    ASSUME Fo!PathsAssumption, FolderInv, NEW p \in Fo!Place, Fo!AllToTrash(p) PROVE FolderInv'
  <1> USE DEF FolderInv
  <1> PICK goal : goal = todo.new
    OBVIOUS
  <1>1. /\ todo.kind = "delete" /\ p \in todo.left /\ moved = Absent
        /\ UNCHANGED <<tree, trash, shown, locals, ops, rescued, dropped, halfway, lost, requests>>
    BY DEF Fo!AllToTrash, Fo!Deepest, Fo!index, Fo!history
  <1>2. \/ /\ at' = [m \in Filed |-> IF at[m] = p THEN goal ELSE at[m]] /\ moved' = p /\ UNCHANGED todo
        \/ \E S \in SUBSET Filed : /\ at' = [m \in Filed |-> IF m \in S THEN goal ELSE at[m]]
                                   /\ moved' = Absent /\ todo' = Fo!NoRequest
        \/ ~Fo!ToTrashFirst(p) /\ moved' = p /\ UNCHANGED <<at, todo>>
    BY DEF Fo!AllToTrash
  <1>3. todo \in FolderRequests /\ goal \in Fo!Place
    BY DEF Fo!TypeOK, FolderRequests
  <1>4. at' \in [Filed -> Fo!Place \cup {Absent, Nowhere}] /\ moved' \in {p, Absent}
    BY <1>2, <1>3 DEF Fo!TypeOK
  <1>5. todo' \in FolderRequests /\ todo'.kind \in {"delete", "none"} /\ (moved' = p => UNCHANGED todo)
    BY <1>1, <1>2, <1>3, FolderNoRequest, FolderPlaces
  <1>6. Fo!TypeOK'
    BY <1>1, <1>4, <1>5 DEF Fo!TypeOK, FolderRequests
  <1>7. FolderTree'
    BY <1>1 DEF FolderTree, Fo!WithParents, Fo!Below
  <1>8. FolderRenames' /\ \A r : FolderKnown(r) => FolderKnown(r)'
    BY <1>1, <1>5, FolderElsewhere
  <1>9. FolderWaiting'
    BY <1>1, <1>8 DEF FolderWaiting
  <1>10. FolderRequest'
    BY <1>1, <1>2, <1>4, <1>5, FolderNoRequest DEF FolderRequest
  <1>11. FolderEmptied'
    <2> SUFFICES ASSUME moved' = p, Fo!ToTrashFirst(p)', NEW m \in Filed, at'[m] = p PROVE FALSE
      BY <1>4 DEF FolderEmptied, Fo!ToTrashFirst, Fo!Below
    <2>1. UNCHANGED todo /\ Fo!ToTrashFirst(p) /\ ~Fo!Below(goal, p) /\ p # Absent
      BY <1>5, FolderPlaces DEF Fo!ToTrashFirst, Fo!Below
    <2>2. Fo!Below(p, p)
      BY FolderPlaces, FolderOrder
    <2> QED
      BY <1>2, <2>1, <2>2
  <1>12. Fo!FoldersNotMails'
    BY <1>1 DEF Fo!FoldersNotMails
  <1> QED
    BY <1>6, <1>7, <1>8, <1>9, <1>10, <1>11, <1>12

(* What goes with a folder came late, or the trash was below it. *)
LEMMA FolderGoneStep == ASSUME Fo!PathsAssumption, FolderInv, Fo!DeleteAtProvider PROVE FolderInv'
  <1> USE DEF FolderInv
  <1> PICK f, below : f = moved /\ below = Fo!Below(todo.new, f)
    OBVIOUS
  <1>1. /\ todo.kind = "delete" /\ f # Absent /\ ~\E q \in tree \ {f} : Fo!Below(q, f)
        /\ tree' = tree \ {f} /\ trash' = (IF trash = f THEN Absent ELSE trash)
        /\ dropped' = dropped \cup {f} /\ moved' = Absent
        /\ todo' = [todo EXCEPT !.left = @ \ {f}]
        /\ UNCHANGED <<shown, locals, ops, rescued, requests, halfway>>
    BY DEF Fo!DeleteAtProvider, Fo!index
  <1>2. /\ at' = [m \in Filed |-> IF at[m] = f THEN Nowhere ELSE at[m]]
        /\ lost' = [m \in Filed |-> IF at[m] = f
                                    THEN IF lost[m] = "late" THEN "late"
                                         ELSE IF below THEN "trash below" ELSE "deleted"
                                    ELSE lost[m]]
    BY DEF Fo!DeleteAtProvider, Fo!Removed
  <1>3. todo \in FolderRequests /\ f \in todo.left /\ todo.left \subseteq Fo!Place \ {Fo!Inbox} /\ f \in Fo!Place
    BY <1>1 DEF Fo!TypeOK, FolderRequests, FolderRequest
  <1>4. /\ todo' \in FolderRequests /\ todo'.kind = "delete" /\ todo'.left = todo.left \ {f}
    BY <1>1, <1>3 DEF FolderRequests
  <1>5. Fo!TypeOK'
    <2>1. at' \in [Filed -> Fo!Place \cup {Absent, Nowhere}]
      BY <1>2 DEF Fo!TypeOK
    <2>2. lost' \in [Filed -> {"no", "emptied", "deleted", "late", "waiting", "trash below"}]
      BY <1>2 DEF Fo!TypeOK
    <2> QED
      BY <1>1, <1>3, <1>4, <2>1, <2>2 DEF Fo!TypeOK, FolderRequests
  <1>6. FolderTree'
    BY <1>1, <1>3 DEF FolderTree, Fo!WithParents
  <1>7. FolderRenames' /\ \A r : FolderKnown(r) => FolderKnown(r)'
    BY <1>1, <1>4, FolderElsewhere
  <1>8. FolderWaiting'
    BY <1>1, <1>7 DEF FolderWaiting
  <1>9. FolderRequest' /\ FolderEmptied'
    BY <1>1, <1>3, <1>4 DEF FolderRequest, FolderEmptied
  <1>10. Fo!FoldersNotMails'
    BY <1>1, <1>2 DEF Fo!FoldersNotMails, FolderEmptied, Fo!ToTrashFirst
  <1> QED
    BY <1>5, <1>6, <1>7, <1>8, <1>9, <1>10

LEMMA FolderStruckStep == ASSUME Fo!PathsAssumption, FolderInv, Fo!ordner_austragen PROVE FolderInv'
  <1> USE DEF FolderInv
  <1> PICK S \in SUBSET Filed : S = {m \in Filed : shown[m] # Absent /\ Fo!Below(shown[m], todo.folder)}
    OBVIOUS
  <1>1. /\ todo.kind = "delete" /\ todo.left = {} /\ todo' = Fo!NoRequest
        /\ shown' = [m \in Filed |-> IF m \in S THEN Absent ELSE shown[m]]
        /\ UNCHANGED <<tree, trash, at, locals, ops, rescued, moved, requests, dropped, halfway, lost>>
    BY DEF Fo!ordner_austragen, Fo!provider, Fo!history
  <1>2. moved = Absent /\ todo' \in FolderRequests /\ todo'.kind = "none"
    BY <1>1, FolderNoRequest DEF FolderRequest
  <1>3. Fo!TypeOK'
    BY <1>1, <1>2 DEF Fo!TypeOK, FolderRequests
  <1>4. /\ FolderTree' /\ FolderRequest' /\ FolderRenames' /\ FolderEmptied'
        /\ \A p : FolderKnown(p) => FolderKnown(p)'
    BY <1>1, <1>2, FolderRests
  <1>5. FolderWaiting'
    BY <1>1, <1>4 DEF FolderWaiting, Fo!TypeOK
  <1>6. Fo!FoldersNotMails'
    BY <1>1 DEF Fo!FoldersNotMails
  <1> QED
    BY <1>3, <1>4, <1>5, <1>6

LEMMA FolderDeleteLocalStep ==
    ASSUME Fo!PathsAssumption, FolderInv, NEW p \in Fo!Place, Fo!delete_local_folder(p) PROVE FolderInv'
  <1> USE DEF FolderInv
  <1>1. /\ locals' = locals \ {p} /\ shown' = [m \in Filed |-> IF shown[m] = p THEN Absent ELSE shown[m]]
        /\ UNCHANGED <<tree, trash, at, ops, rescued, dropped, halfway, lost>>
    BY DEF Fo!delete_local_folder, Fo!provider, Fo!history
  <1>2. todo.kind = "none" /\ todo' = Fo!NoRequest /\ moved' = Absent /\ requests' \in 0 .. MaxRequests
    BY FolderBegins DEF Fo!delete_local_folder
  <1>3. todo' \in FolderRequests /\ todo'.kind = "none"
    BY <1>2, FolderNoRequest
  <1>4. Fo!TypeOK'
    BY <1>1, <1>2, <1>3 DEF Fo!TypeOK, FolderRequests
  <1>5. /\ FolderTree' /\ FolderRequest' /\ FolderRenames' /\ FolderEmptied'
        /\ \A q : FolderKnown(q) => FolderKnown(q)'
    BY <1>1, <1>2, <1>3, FolderRests
  <1>6. FolderWaiting'
    BY <1>1, <1>5 DEF FolderWaiting, Fo!TypeOK
  <1>7. Fo!FoldersNotMails'
    BY <1>1 DEF Fo!FoldersNotMails
  <1> QED
    BY <1>4, <1>5, <1>6, <1>7

LEMMA FolderEmptyStep == ASSUME Fo!PathsAssumption, FolderInv, Fo!empty_folder PROVE FolderInv'
  <1> USE DEF FolderInv
  <1> PICK S \in SUBSET Filed : S = {m \in Filed : trash # Absent /\ at[m] = trash}
    OBVIOUS
  <1>1. /\ at' = [m \in Filed |-> IF m \in S THEN Nowhere ELSE at[m]]
        /\ lost' = [m \in Filed |-> IF m \in S THEN IF ops[m] = Absent THEN "emptied" ELSE "waiting" ELSE lost[m]]
        /\ UNCHANGED <<tree, trash, shown, locals, ops, rescued, dropped, halfway>>
    BY DEF Fo!empty_folder, Fo!Removed, Fo!index
  <1>2. /\ todo.kind = "none" /\ todo' = [Fo!NoRequest EXCEPT !.kind = "empty"]
        /\ moved' = Absent /\ requests' \in 0 .. MaxRequests
    BY FolderBegins DEF Fo!empty_folder
  <1>3. todo' \in FolderRequests /\ todo'.kind = "empty"
    BY <1>2, FolderNoRequest DEF FolderRequests
  <1>4. Fo!TypeOK'
    BY <1>1, <1>2, <1>3 DEF Fo!TypeOK, FolderRequests
  <1>5. /\ FolderTree' /\ FolderRequest' /\ FolderRenames' /\ FolderEmptied'
        /\ \A p : FolderKnown(p) => FolderKnown(p)'
    BY <1>1, <1>2, <1>3, FolderRests
  <1>6. FolderWaiting'
    BY <1>1, <1>5 DEF FolderWaiting
  <1>7. Fo!FoldersNotMails'
    BY <1>1 DEF Fo!FoldersNotMails
  <1> QED
    BY <1>4, <1>5, <1>6, <1>7

LEMMA FolderEmptiedStep == ASSUME Fo!PathsAssumption, FolderInv, Fo!ordner_leeren PROVE FolderInv'
  <1> USE DEF FolderInv
  <1>1. /\ todo.kind = "empty" /\ todo' = Fo!NoRequest
        /\ shown' = [m \in Filed |-> IF shown[m] = Fo!Trash THEN Absent ELSE shown[m]]
        /\ UNCHANGED <<tree, trash, at, locals, ops, rescued, moved, requests, dropped, halfway, lost>>
    BY DEF Fo!ordner_leeren, Fo!provider, Fo!history
  <1>2. moved = Absent /\ todo' \in FolderRequests /\ todo'.kind = "none"
    BY <1>1, FolderNoRequest DEF FolderRequest
  <1>3. Fo!TypeOK'
    BY <1>1, <1>2 DEF Fo!TypeOK, FolderRequests
  <1>4. /\ FolderTree' /\ FolderRequest' /\ FolderRenames' /\ FolderEmptied'
        /\ \A p : FolderKnown(p) => FolderKnown(p)'
    BY <1>1, <1>2, FolderRests
  <1>5. FolderWaiting'
    BY <1>1, <1>4 DEF FolderWaiting, Fo!TypeOK
  <1>6. Fo!FoldersNotMails'
    BY <1>1 DEF Fo!FoldersNotMails
  <1> QED
    BY <1>3, <1>4, <1>5, <1>6

(* A folder made at the provider is there when its mails are asked back.   *)
LEMMA FolderPutStep ==
    ASSUME Fo!PathsAssumption, FolderInv, NEW p \in Fo!Place, Fo!folder_to_provider(p) PROVE FolderInv'
  <1> USE DEF FolderInv
  <1>1. /\ tree' = tree \cup Fo!WithParents(p)
        /\ UNCHANGED <<trash, at, shown, locals, ops, rescued, dropped, halfway, lost>>
    BY DEF Fo!folder_to_provider, Fo!index, Fo!history
  <1>2. /\ todo.kind = "none" /\ todo' = [Fo!NoRequest EXCEPT !.kind = "to provider", !.folder = p]
        /\ moved' = Absent /\ requests' \in 0 .. MaxRequests
    BY FolderBegins DEF Fo!folder_to_provider
  <1>3. todo' \in FolderRequests /\ todo'.kind = "to provider" /\ todo'.folder = p
    BY <1>2, FolderNoRequest DEF FolderRequests
  <1>4. Fo!TypeOK'
    BY <1>1, <1>2, <1>3 DEF Fo!TypeOK, FolderRequests, Fo!WithParents
  <1>5. FolderTree'
    BY <1>1, FolderGrown
  <1>6. FolderRenames' /\ \A q : FolderKnown(q) => FolderKnown(q)'
    BY <1>1, <1>2, <1>3, FolderElsewhere
  <1>7. FolderWaiting'
    BY <1>1, <1>6 DEF FolderWaiting
  <1>8. p \in tree'
    BY <1>1, FolderPlaces, FolderOrder DEF Fo!WithParents
  <1>9. FolderRequest' /\ FolderEmptied' /\ Fo!FoldersNotMails'
    BY <1>1, <1>2, <1>3, <1>8 DEF FolderRequest, FolderEmptied, Fo!FoldersNotMails
  <1> QED
    BY <1>4, <1>5, <1>6, <1>7, <1>9

LEMMA FolderRescueStep == ASSUME Fo!PathsAssumption, FolderInv, Fo!enqueue_retten PROVE FolderInv'
  <1> USE DEF FolderInv
  <1> PICK f : f = todo.folder
    OBVIOUS
  <1>1. /\ todo.kind = "to provider" /\ todo' = Fo!NoRequest /\ locals' = locals \ {f}
        /\ ops' = [m \in Filed |-> IF shown[m] = f THEN f ELSE ops[m]]
        /\ rescued' = rescued \cup {m \in Filed : shown[m] = f}
        /\ UNCHANGED <<tree, trash, at, shown, moved, requests, dropped, halfway, lost>>
    BY DEF Fo!enqueue_retten, Fo!provider, Fo!history
  <1>2. moved = Absent /\ todo' \in FolderRequests /\ todo'.kind = "none" /\ f \in tree /\ f \in Fo!Place
    BY <1>1, FolderNoRequest DEF FolderRequest, Fo!TypeOK
  <1>3. Fo!TypeOK'
    BY <1>1, <1>2 DEF Fo!TypeOK, FolderRequests
  <1>4. /\ FolderTree' /\ FolderRequest' /\ FolderRenames' /\ FolderEmptied'
        /\ \A p : FolderKnown(p) => FolderKnown(p)'
    BY <1>1, <1>2, FolderRests
  <1>5. FolderKnown(f)
    BY <1>2, FolderKnownTree
  <1>6. FolderWaiting'
    BY <1>1, <1>4, <1>5 DEF FolderWaiting, Fo!TypeOK
  <1>7. Fo!FoldersNotMails'
    BY <1>1 DEF Fo!FoldersNotMails
  <1> QED
    BY <1>3, <1>4, <1>6, <1>7

LEMMA FolderFailStep == ASSUME Fo!PathsAssumption, FolderInv, Fo!Fail PROVE FolderInv'
  <1> USE DEF FolderInv
  <1>1. /\ todo.kind # "renamed" /\ todo' = Fo!NoRequest /\ moved' = Absent
        /\ UNCHANGED <<tree, trash, at, shown, locals, ops, rescued, requests, dropped, halfway, lost>>
    BY DEF Fo!Fail, Fo!provider, Fo!index, Fo!history
  <1>2. todo' \in FolderRequests /\ todo'.kind = "none"
    BY <1>1, FolderNoRequest
  <1>3. Fo!TypeOK'
    BY <1>1, <1>2 DEF Fo!TypeOK, FolderRequests
  <1>4. /\ FolderTree' /\ FolderRequest' /\ FolderRenames' /\ FolderEmptied'
        /\ \A p : FolderKnown(p) => FolderKnown(p)'
    BY <1>1, <1>2, FolderRests
  <1>5. FolderWaiting' /\ Fo!FoldersNotMails'
    BY <1>1, <1>4 DEF FolderWaiting, Fo!FoldersNotMails
  <1> QED
    BY <1>3, <1>4, <1>5

LEMMA FolderStill == ASSUME FolderInv, UNCHANGED Fo!vars PROVE FolderInv'
  <1> USE DEF FolderInv
  <1>1. UNCHANGED <<tree, trash, at, shown, locals, ops, rescued, todo, moved, requests, dropped, halfway, lost>>
    BY DEF Fo!vars, Fo!provider, Fo!index, Fo!history
  <1>2. FolderTree' /\ FolderRequest' /\ FolderRenames' /\ \A q : FolderKnown(q) => FolderKnown(q)'
    BY <1>1, FolderQuiet
  <1>3. FolderWaiting' /\ Fo!TypeOK' /\ Fo!FoldersNotMails'
    BY <1>1, <1>2 DEF FolderWaiting, Fo!TypeOK, Fo!FoldersNotMails
  <1>4. FolderEmptied'
    BY <1>1 DEF FolderEmptied, Fo!ToTrashFirst, Fo!Below
  <1> QED
    BY <1>2, <1>3, <1>4

LEMMA FolderInductive == ASSUME Fo!PathsAssumption, FolderInv, [Fo!Next]_Fo!vars PROVE FolderInv'
  <1>1. ASSUME NEW m \in Filed, Fo!Replay(m) \/ Fo!Sync(m) PROVE FolderInv'
    BY <1>1, FolderReplayStep, FolderSyncStep
  <1>2. ASSUME NEW m \in Filed, NEW p \in Fo!Place, Fo!Arrive(m, p) \/ Fo!move_message(m, p) PROVE FolderInv'
    BY <1>2, FolderArriveStep, FolderMoveStep
  <1>3. ASSUME NEW p \in Fo!Place,
               \/ Fo!create_folder(p) \/ Fo!delete_folder(p) \/ Fo!delete_local_folder(p)
               \/ Fo!folder_to_provider(p) \/ Fo!AllToTrash(p)
        PROVE  FolderInv'
    BY <1>3, FolderCreateStep, FolderDeleteStep, FolderDeleteLocalStep, FolderPutStep,
       FolderEmptyingStep
  <1>4. ASSUME NEW p \in Fo!Place, NEW q \in Fo!Place, Fo!rename_folder(p, q) PROVE FolderInv'
    BY <1>4, FolderAskRenameStep
  <1>5. ASSUME \/ Fo!RenameAtProvider \/ Fo!ordner_umbenennen \/ Fo!DeleteAtProvider \/ Fo!ordner_austragen
               \/ Fo!empty_folder \/ Fo!ordner_leeren \/ Fo!enqueue_retten \/ Fo!Fail
        PROVE  FolderInv'
    BY <1>5, FolderRenameStep, FolderFollowStep, FolderGoneStep, FolderStruckStep, FolderEmptyStep,
       FolderEmptiedStep, FolderRescueStep, FolderFailStep
  <1>6. CASE UNCHANGED Fo!vars
    BY <1>6, FolderStill
  <1> QED
    BY <1>1, <1>2, <1>3, <1>4, <1>5, <1>6 DEF Fo!Next

LEMMA FolderFollowed == ASSUME Fo!PathsAssumption, FolderInv PROVE Fo!MovesFollow
  <1> SUFFICES ASSUME NEW m \in Filed, ops[m] # Absent, todo.kind # "renamed"
               PROVE  ops[m] \in tree \cup {Fo!Trash} \cup dropped \cup halfway
    BY DEF Fo!MovesFollow
  <1>1. ops[m] \in Fo!Place /\ FolderKnown(ops[m])
    BY DEF FolderInv, FolderWaiting, Fo!TypeOK
  <1>2. ops[m] \in Fo!WithParents(ops[m])
    BY <1>1, FolderPlaces, FolderOrder DEF Fo!WithParents
  <1> QED
    BY <1>1, <1>2 DEF FolderKnown, FolderNamed, FolderDeleted

-----------------------------------------------------------------------------
(***************************************************************************)
(* IMAP slots: who has the session of a slot for itself works in the       *)
(* folder the session has selected (imap/client.rs).                       *)
(***************************************************************************)
SlotsThreadType == [step : {"none", "select", "act", "ok", "error"}, session : Is!Session \cup {Is!Empty}]
SlotsPlaces == {"idle", "locking", "connecting", "connected", "running", "connect", "reconnect"}

(* Who is past its lock has it. *)
SlotsLines == /\ \A o \in Ops : at[o] \in {"connecting", "connected", "running"} => Is!First(opLock, o)
              /\ \A p \in Others : at[p] = "connecting" => Is!First(connLock, p)
(* The tracker names no folder a session has not got, unless it has none.  *)
SlotsGood(s) == s \in {Is!Empty, Absent} \/ tracker \in {Absent, s}
SlotsWorking == \A o \in Ops : thread[o].step # "none" =>
               /\ slot \in {Is!Empty, Absent} /\ ping = Is!Empty /\ thread[o].session # Is!Empty
               /\ \A q \in Ops \ {o} : thread[q].step = "none"
SlotsTracked == /\ SlotsGood(slot) /\ SlotsGood(ping) /\ \A o \in Ops : SlotsGood(thread[o].session)
                /\ \A o \in Ops : thread[o].step = "act" /\ want[o] # Absent => thread[o].session \in {Absent, want[o]}
SlotsThreads == \A o \in Ops : thread[o].step = "none" => thread[o] = Is!NoThread
SlotsInv == Is!TypeOK /\ SlotsLines /\ SlotsThreads /\ (disturbed \/ (SlotsWorking /\ SlotsTracked)) /\ Is!RightFolderUndisturbed

LEMMA SlotsTyped ==
    Is!TypeOK <=> /\ slot \in Is!Session \cup {Is!Empty} /\ ping \in Is!Session \cup {Is!Empty}
                  /\ tracker \in MailFolders \cup {Absent} /\ connected \in BOOLEAN
                  /\ opLock \in Seq(Ops) /\ connLock \in Seq(Ops \cup Others)
                  /\ at \in [Ops \cup Others -> SlotsPlaces]
                  /\ want \in [Ops -> MailFolders \cup {Absent}]
                  /\ thread \in [Ops -> SlotsThreadType] /\ wrong \in BOOLEAN
                  /\ disturbed \in BOOLEAN
  BY DEF Is!TypeOK, SlotsThreadType, SlotsPlaces

LEMMA SlotsWhole ==
    Is!TypeOK' <=> /\ slot' \in Is!Session \cup {Is!Empty} /\ ping' \in Is!Session \cup {Is!Empty}
                   /\ tracker' \in MailFolders \cup {Absent} /\ connected' \in BOOLEAN
                   /\ opLock' \in Seq(Ops) /\ connLock' \in Seq(Ops \cup Others)
                   /\ at' \in [Ops \cup Others -> SlotsPlaces]
                   /\ want' \in [Ops -> MailFolders \cup {Absent}]
                   /\ thread' \in [Ops -> SlotsThreadType] /\ wrong' \in BOOLEAN
                   /\ disturbed' \in BOOLEAN
  BY DEF Is!TypeOK, SlotsThreadType, SlotsPlaces

LEMMA SlotsSimple ==
    ASSUME Is!NamesAssumption
    PROVE  /\ Is!Empty \notin Is!Session /\ Absent \in Is!Session /\ MailFolders \subseteq Is!Session
           /\ Absent \notin MailFolders
           /\ Is!NoThread \in SlotsThreadType /\ Is!NoThread.step = "none"
           /\ Is!NoThread.session = Is!Empty
           /\ Ops \cap Others = {} /\ "ping" \notin Ops \cup Others
  BY DEF Is!NamesAssumption, Is!Session, Is!NoThread, SlotsThreadType

LEMMA SlotsInitially == ASSUME Is!NamesAssumption PROVE Is!Init => SlotsInv
  <1> SUFFICES ASSUME Is!Init PROVE SlotsInv
    OBVIOUS
  <1>1. Is!TypeOK
    <2>1. "idle" \in SlotsPlaces /\ Absent \in Is!Session /\ Is!Empty \in Is!Session \cup {Is!Empty}
      BY SlotsSimple DEF SlotsPlaces
    <2>2. opLock \in Seq(Ops) /\ connLock \in Seq(Ops \cup Others)
      BY DEF Is!Init
    <2>3. /\ at \in [Ops \cup Others -> SlotsPlaces] /\ want \in [Ops -> MailFolders \cup {Absent}]
          /\ thread \in [Ops -> SlotsThreadType]
      BY <2>1, SlotsSimple DEF Is!Init
    <2>4. /\ slot = Is!Empty /\ ping = Is!Empty /\ tracker = Absent /\ connected = FALSE
          /\ wrong = FALSE /\ disturbed = FALSE
      BY DEF Is!Init
    <2> QED
      BY <2>1, <2>2, <2>3, <2>4, SlotsTyped
  <1>2. SlotsLines /\ SlotsThreads /\ SlotsWorking /\ SlotsTracked /\ Is!RightFolderUndisturbed
    BY SlotsSimple DEF Is!Init, SlotsLines, SlotsThreads, SlotsWorking, SlotsTracked, SlotsGood,
       Is!RightFolderUndisturbed
  <1> QED
    BY <1>1, <1>2 DEF SlotsInv

(* Lines grow at the end and lose their first. *)
LEMMA SlotsGrowing ==
    ASSUME NEW S, NEW l \in Seq(S), NEW p \in S
    PROVE  /\ Append(l, p) \in Seq(S) /\ \A q : Is!First(l, q) => Is!First(Append(l, p), q)
           /\ \A q : Is!First(l, q) => Tail(l) \in Seq(S)
  BY DEF Is!First

LEMMA SlotsLinesGrow ==
    ASSUME Is!TypeOK
    PROVE  /\ \A p \in Ops : Append(opLock, p) \in Seq(Ops) /\ \A q : Is!First(opLock, q) => Is!First(Append(opLock, p), q)
           /\ \A q : Is!First(opLock, q) => Tail(opLock) \in Seq(Ops)
           /\ \A p \in Ops \cup Others : /\ Append(connLock, p) \in Seq(Ops \cup Others)
                                        /\ \A q : Is!First(connLock, q) => Is!First(Append(connLock, p), q)
           /\ \A q : Is!First(connLock, q) => Tail(connLock) \in Seq(Ops \cup Others)
  <1>1. opLock \in Seq(Ops) /\ connLock \in Seq(Ops \cup Others)
    BY SlotsTyped
  <1>2. \A p \in Ops : Append(opLock, p) \in Seq(Ops) /\ \A q : Is!First(opLock, q) => Is!First(Append(opLock, p), q)
    BY <1>1, SlotsGrowing
  <1>3. \A q : Is!First(opLock, q) => Tail(opLock) \in Seq(Ops)
    BY <1>1 DEF Is!First
  <1>4. \A p \in Ops \cup Others : /\ Append(connLock, p) \in Seq(Ops \cup Others)
                                   /\ \A q : Is!First(connLock, q) => Is!First(Append(connLock, p), q)
    BY <1>1, SlotsGrowing
  <1>5. \A q : Is!First(connLock, q) => Tail(connLock) \in Seq(Ops \cup Others)
    BY <1>1 DEF Is!First
  <1> QED
    BY <1>2, <1>3, <1>4, <1>5

LEMMA SlotsStepped ==
    ASSUME NEW t \in SlotsThreadType, NEW s
    PROVE  [t EXCEPT !.step = s] = [step |-> s, session |-> t.session]
  BY DEF SlotsThreadType

LEMMA SlotsInductive == ASSUME Is!NamesAssumption, SlotsInv, [Is!Next]_Is!vars PROVE SlotsInv'
  <1>1. /\ Is!TypeOK /\ SlotsLines /\ SlotsThreads /\ (disturbed \/ (SlotsWorking /\ SlotsTracked))
        /\ (wrong => disturbed)
        /\ slot \in Is!Session \cup {Is!Empty} /\ ping \in Is!Session \cup {Is!Empty}
        /\ tracker \in MailFolders \cup {Absent} /\ connected \in BOOLEAN
        /\ opLock \in Seq(Ops) /\ connLock \in Seq(Ops \cup Others)
        /\ at \in [Ops \cup Others -> SlotsPlaces] /\ want \in [Ops -> MailFolders \cup {Absent}]
        /\ thread \in [Ops -> SlotsThreadType] /\ wrong \in BOOLEAN /\ disturbed \in BOOLEAN
        /\ Is!Empty \notin Is!Session /\ Absent \in Is!Session /\ MailFolders \subseteq Is!Session
        /\ Absent \notin MailFolders
        /\ Is!NoThread \in SlotsThreadType /\ Is!NoThread.step = "none"
        /\ Is!NoThread.session = Is!Empty
        /\ Ops \cap Others = {} /\ "ping" \notin Ops \cup Others
    BY SlotsTyped, SlotsSimple DEF SlotsInv, Is!RightFolderUndisturbed
  <1> USE <1>1
  <1>2. /\ \A p \in Ops : Append(opLock, p) \in Seq(Ops) /\ \A q : Is!First(opLock, q) => Is!First(Append(opLock, p), q)
        /\ \A q : Is!First(opLock, q) => Tail(opLock) \in Seq(Ops)
        /\ \A p \in Ops \cup Others : /\ Append(connLock, p) \in Seq(Ops \cup Others)
                                     /\ \A q : Is!First(connLock, q) => Is!First(Append(connLock, p), q)
        /\ \A q : Is!First(connLock, q) => Tail(connLock) \in Seq(Ops \cup Others)
    BY SlotsLinesGrow
  <1>3. \A p, q : /\ Is!First(opLock, p) /\ Is!First(opLock, q) => p = q
                  /\ Is!First(connLock, p) /\ Is!First(connLock, q) => p = q
    BY DEF Is!First
  (* Nobody gets a session. *)
  <1>4. ASSUME NEW p \in Ops \cup Others, NEW place \in SlotsPlaces, Is!Goes(p, place)
        PROVE  /\ at' \in [Ops \cup Others -> SlotsPlaces] /\ at'[p] = place
               /\ \A q \in (Ops \cup Others) \ {p} : at'[q] = at[q]
    BY <1>4 DEF Is!Goes
  <1>5. ASSUME Is!TypeOK', SlotsLines', UNCHANGED <<slot, tracker, thread, ping, Is!history>>,
               \A o \in Ops : thread[o] # Is!NoThread => want'[o] = want[o]
        PROVE  SlotsInv'
    <2>1. SlotsThreads' /\ Is!RightFolderUndisturbed'
      BY <1>5 DEF SlotsThreads, Is!RightFolderUndisturbed, Is!history
    <2>2. \A o \in Ops : thread[o].step = "act" => want'[o] = want[o]
      BY <1>5
    <2>3. disturbed' \/ (SlotsWorking' /\ SlotsTracked')
      BY <1>5, <2>2 DEF SlotsWorking, SlotsTracked, SlotsGood, Is!history
    <2> QED
      BY <1>5, <2>1, <2>3 DEF SlotsInv
  <1>6. ASSUME NEW o \in Ops, NEW f \in MailFolders \cup {Absent}, Is!Request(o, f) PROVE SlotsInv'
    <2>1. /\ Is!Goes(o, "locking") /\ "locking" \in SlotsPlaces /\ opLock' = Append(opLock, o)
          /\ want' = [want EXCEPT ![o] = f]
          /\ thread[o] = Is!NoThread
          /\ UNCHANGED <<slot, tracker, connected, connLock, thread, ping, Is!history>>
      BY <1>6 DEF Is!Request, SlotsPlaces
    <2>2. Is!TypeOK'
      BY <1>2, <1>4, <2>1, SlotsWhole DEF Is!history
    <2>3. SlotsLines'
      BY <1>2, <1>4, <2>1 DEF SlotsLines
    <2> QED
      BY <1>5, <2>1, <2>2, <2>3
  <1>7. ASSUME NEW o \in Ops, Is!NoSession(o) PROVE SlotsInv'
    <2>1. /\ Is!Goes(o, "connecting") /\ "connecting" \in SlotsPlaces
          /\ connLock' = Append(connLock, o) /\ Is!First(opLock, o)
          /\ UNCHANGED <<slot, tracker, connected, opLock, want, thread, ping, Is!history>>
      BY <1>7 DEF Is!NoSession, SlotsPlaces
    <2>2. Is!TypeOK'
      BY <1>2, <1>4, <2>1, SlotsWhole DEF Is!history
    <2>3. SlotsLines'
      BY <1>2, <1>4, <2>1 DEF SlotsLines
    <2> QED
      BY <1>5, <2>1, <2>2, <2>3
  <1>8. ASSUME NEW p \in Others, NEW how \in {"connect", "reconnect"}, Is!Call(p, how)
        PROVE  SlotsInv'
    <2>1. Is!Goes(p, how) /\ how \in SlotsPlaces /\ connLock' = Append(connLock, p)
          /\ UNCHANGED <<slot, tracker, connected, opLock, want, thread, ping, Is!history>>
      BY <1>8 DEF Is!Call, SlotsPlaces
    <2>2. Is!TypeOK'
      BY <1>2, <1>4, <2>1, SlotsWhole DEF Is!history
    <2>3. SlotsLines'
      BY <1>2, <1>4, <2>1, <1>8 DEF SlotsLines
    <2> QED
      BY <1>5, <2>1, <2>2, <2>3
  <1>9. ASSUME NEW p \in Others, Is!connect(p) PROVE SlotsInv'
    <2>1. /\ Is!First(connLock, p)
          /\ UNCHANGED <<slot, tracker, connected, opLock, want, thread, ping, Is!history>>
          /\ \/ Is!Goes(p, "idle") /\ connLock' = Tail(connLock)
             \/ Is!Goes(p, "connecting") /\ connLock' = connLock
      BY <1>9 DEF Is!connect
    <2>2. "idle" \in SlotsPlaces /\ "connecting" \in SlotsPlaces
      BY DEF SlotsPlaces
    <2>3. Is!TypeOK'
      BY <1>2, <1>4, <2>1, <2>2, SlotsWhole DEF Is!history
    <2>4. SlotsLines'
      BY <1>2, <1>3, <1>4, <2>1, <2>2 DEF SlotsLines
    <2> QED
      BY <1>5, <2>1, <2>3, <2>4
  (* The slot gets a new session, or loses its own. *)
  <1>10. ASSUME Is!TypeOK', SlotsLines', UNCHANGED <<want, thread, ping, wrong>>, slot' \in {slot, Absent, Is!Empty},
               tracker' \in {tracker, Absent}, disturbed => disturbed'
        PROVE  SlotsInv'
    <2>1. SlotsThreads' /\ Is!RightFolderUndisturbed'
      BY <1>10 DEF SlotsThreads, Is!RightFolderUndisturbed
    <2>2. disturbed \/ (SlotsWorking' /\ SlotsTracked')
      BY <1>10 DEF SlotsWorking, SlotsTracked, SlotsGood
    <2> QED
      BY <1>10, <2>1, <2>2 DEF SlotsInv
  <1>11. ASSUME NEW o \in Ops, Is!reconnect_slot(o) PROVE SlotsInv'
    <2>1. /\ at[o] = "connecting" /\ Is!First(connLock, o) /\ connLock' = Tail(connLock)
          /\ UNCHANGED <<tracker, want, thread, ping, Is!history>>
          /\ Is!First(opLock, o)
          /\ \/ slot' = Absent /\ connected' = TRUE /\ Is!Goes(o, "connected") /\ UNCHANGED opLock
             \/ Is!Goes(o, "idle") /\ opLock' = Tail(opLock) /\ UNCHANGED <<slot, connected>>
      BY <1>11 DEF Is!reconnect_slot, Is!connect_inner, SlotsLines
    <2>2. "idle" \in SlotsPlaces /\ "connected" \in SlotsPlaces
      BY DEF SlotsPlaces
    <2>3. Is!TypeOK'
      BY <1>2, <1>4, <2>1, <2>2, SlotsWhole DEF Is!history
    <2>4. SlotsLines'
      <3>1. \A q \in Others : at'[q] # "connecting"
        BY <1>3, <1>4, <2>1, <2>2 DEF SlotsLines
      <3>2. CASE Is!Goes(o, "connected") /\ UNCHANGED opLock
        BY <1>4, <2>1, <2>2, <3>1, <3>2 DEF SlotsLines
      <3>3. CASE Is!Goes(o, "idle") /\ opLock' = Tail(opLock)
        <4>1. \A q \in Ops : at'[q] \notin {"connecting", "connected", "running"}
          BY <1>3, <1>4, <2>1, <2>2, <3>3 DEF SlotsLines
        <4> QED
          BY <3>1, <4>1 DEF SlotsLines
      <3> QED
        BY <2>1, <3>2, <3>3
    <2> QED
      BY <1>10, <2>1, <2>3, <2>4 DEF Is!history
  <1>12. ASSUME NEW p \in Others, Is!reconnect_slot_locked(p) PROVE SlotsInv'
    <2>1. /\ Is!First(connLock, p) /\ slot' = Is!Empty /\ connected' = FALSE /\ tracker' = Absent
          /\ Is!Goes(p, "connecting")
          /\ "connecting" \in SlotsPlaces
          /\ UNCHANGED <<opLock, connLock, want, thread, ping, wrong>>
          /\ disturbed' \in BOOLEAN /\ (disturbed => disturbed')
      BY <1>12 DEF Is!reconnect_slot_locked, Is!MayReconnect, SlotsPlaces, Is!locks, Is!Notice,
         Is!Crowd
    <2>2. Is!TypeOK'
      BY <1>4, <2>1, SlotsWhole
    <2>3. SlotsLines'
      BY <1>4, <2>1 DEF SlotsLines
    <2> QED
      BY <1>10, <2>1, <2>2, <2>3
  <1>13. ASSUME NEW p \in Others, Is!Connected(p) PROVE SlotsInv'
    <2>1. /\ at[p] = "connecting" /\ Is!First(connLock, p) /\ connLock' = Tail(connLock)
          /\ Is!Goes(p, "idle") /\ "idle" \in SlotsPlaces
          /\ UNCHANGED <<tracker, opLock, want, thread, ping, wrong>> /\ slot' \in {slot, Absent}
          /\ connected' \in BOOLEAN /\ disturbed' \in BOOLEAN /\ (disturbed => disturbed')
      BY <1>13 DEF Is!Connected, Is!connect_inner, SlotsPlaces, Is!Crowd, SlotsLines
    <2>2. Is!TypeOK'
      BY <1>2, <1>4, <2>1, SlotsWhole
    <2>3. SlotsLines'
      BY <1>2, <1>3, <1>4, <2>1 DEF SlotsLines
    <2> QED
      BY <1>10, <2>1, <2>2, <2>3
  <1>14. ASSUME Is!shutdown \/ Is!rename_folder_elsewhere PROVE SlotsInv'
    <2>1. /\ slot' \in {slot, Is!Empty} /\ connected' \in BOOLEAN /\ tracker' \in {tracker, Absent}
          /\ UNCHANGED <<opLock, connLock, at, want, thread, ping, wrong, disturbed>>
      BY <1>14 DEF Is!shutdown, Is!rename_folder_elsewhere, Is!locks, Is!history
    <2>2. Is!TypeOK' /\ SlotsLines'
      BY <2>1, SlotsWhole DEF SlotsLines
    <2> QED
      BY <1>10, <2>1, <2>2
  <1>15. ASSUME NEW o \in Ops, Is!First(opLock, o), Is!Goes(o, "idle"), opLock' = Tail(opLock),
                UNCHANGED connLock
         PROVE  SlotsLines'
    <2>1. "idle" \in SlotsPlaces
      BY DEF SlotsPlaces
    <2>2. ASSUME NEW q \in Ops PROVE at'[q] \notin {"connecting", "connected", "running"}
      <3>1. CASE q = o
        BY <1>4, <1>15, <2>1, <3>1
      <3>2. CASE q # o
        <4>1. at'[q] = at[q]
          BY <1>4, <1>15, <2>1, <3>2
        <4>2. ~Is!First(opLock, q)
          BY <1>3, <1>15, <3>2
        <4> QED
          BY <4>1, <4>2 DEF SlotsLines
      <3> QED
        BY <3>1, <3>2
    <2>3. \A q \in Others : at'[q] = at[q]
      BY <1>4, <1>15, <2>1
    <2> QED
      BY <1>15, <2>2, <2>3 DEF SlotsLines
  (* An operation gets the session. *)
  <1>16. ASSUME NEW o \in Ops, slot # Is!Empty, Is!Start(o, slot), Is!First(opLock, o),
                UNCHANGED <<tracker, connected, Is!locks, want, ping, wrong>>
         PROVE  SlotsInv'
    <2> DEFINE new == [step |-> "select", session |-> slot]
    <2>1. /\ thread' = [thread EXCEPT ![o] = new] /\ slot' = Is!Empty /\ Is!Goes(o, "running")
          /\ "running" \in SlotsPlaces
          /\ disturbed' = (disturbed \/ Is!Crowd(o)) /\ UNCHANGED <<opLock, connLock>>
      BY <1>16 DEF Is!Start, Is!Notice, SlotsPlaces, Is!locks
    <2>2. new \in SlotsThreadType /\ new.step = "select" /\ new.session = slot
      BY DEF SlotsThreadType
    <2> HIDE DEF new
    <2>3. /\ thread' \in [Ops -> SlotsThreadType] /\ thread'[o] = new
          /\ \A q \in Ops \ {o} : thread'[q] = thread[q]
      BY <2>1, <2>2
    <2>4. Is!TypeOK'
      BY <1>4, <1>16, <2>1, <2>3, SlotsWhole DEF Is!Crowd
    <2>5. SlotsLines'
      BY <1>4, <1>16, <2>1 DEF SlotsLines
    <2>6. SlotsThreads'
      BY <2>2, <2>3 DEF SlotsThreads
    <2>7. ASSUME ~disturbed' PROVE SlotsWorking' /\ SlotsTracked'
      <3>1. ~disturbed /\ ping = Is!Empty /\ \A q \in Ops \ {o} : thread[q] = Is!NoThread
        BY <2>1, <2>7 DEF Is!Crowd
      <3>2. SlotsWorking'
        BY <1>16, <2>1, <2>2, <2>3, <3>1 DEF SlotsWorking
      <3>3. SlotsGood(slot) /\ SlotsWorking /\ SlotsTracked
        BY <3>1 DEF SlotsTracked
      <3>4. SlotsTracked'
        BY <1>16, <2>1, <2>2, <2>3, <3>1, <3>3 DEF SlotsTracked, SlotsGood
      <3> QED
        BY <3>2, <3>4
    <2>8. Is!RightFolderUndisturbed'
      BY <1>16, <2>1 DEF Is!RightFolderUndisturbed
    <2> QED
      BY <2>4, <2>5, <2>6, <2>7, <2>8 DEF SlotsInv
  <1>17. ASSUME NEW o \in Ops, Is!TakeSession(o) PROVE SlotsInv'
    BY <1>16, <1>17 DEF Is!TakeSession
  <1>18. ASSUME NEW o \in Ops, Is!Retake(o) PROVE SlotsInv'
    <2>1. Is!First(opLock, o) /\ UNCHANGED <<tracker, connected, connLock, want, ping, wrong>>
      BY <1>18 DEF Is!Retake, SlotsLines
    <2>2. CASE slot # Is!Empty
      BY <1>16, <1>18, <2>1, <2>2 DEF Is!Retake, Is!locks
    <2>3. CASE slot = Is!Empty
      <3>1. /\ Is!Goes(o, "idle") /\ "idle" \in SlotsPlaces /\ opLock' = Tail(opLock)
            /\ UNCHANGED <<slot, thread, disturbed>>
        BY <1>18, <2>3 DEF Is!Retake, SlotsPlaces
      <3>2. Is!TypeOK'
        BY <1>2, <1>4, <2>1, <3>1, SlotsWhole
      <3>3. SlotsLines'
        BY <1>15, <2>1, <3>1
      <3> QED
        BY <1>10, <2>1, <3>1, <3>2, <3>3
    <2> QED
      BY <2>2, <2>3
  (* A closure at work, and the end of its operation. *)
  <1>19. ASSUME NEW o \in Ops, NEW new \in SlotsThreadType, thread' = [thread EXCEPT ![o] = new],
                thread[o].step # "none",
                new.step # "none", new.session # Is!Empty, tracker' \in MailFolders \cup {Absent}, wrong' \in BOOLEAN,
                UNCHANGED <<slot, connected, Is!locks, at, want, ping, disturbed>>,
                ~disturbed /\ SlotsGood(thread[o].session) =>
                    /\ new.session = Absent \/ tracker' \in {Absent, new.session}
                    /\ new.step = "act" /\ want[o] # Absent => new.session \in {Absent, want[o]},
                ~disturbed => ~wrong'
         PROVE  SlotsInv'
    <2>1. /\ thread' \in [Ops -> SlotsThreadType] /\ thread'[o] = new
          /\ \A q \in Ops \ {o} : thread'[q] = thread[q]
      BY <1>19
    <2>2. Is!TypeOK'
      BY <1>19, <2>1, SlotsWhole DEF Is!locks
    <2>3. SlotsLines'
      BY <1>19 DEF SlotsLines, Is!locks
    <2>4. SlotsThreads'
      BY <1>19, <2>1 DEF SlotsThreads
    <2>5. ASSUME ~disturbed PROVE SlotsWorking' /\ SlotsTracked'
      <3>1. /\ SlotsWorking /\ SlotsTracked /\ slot \in {Is!Empty, Absent} /\ ping = Is!Empty
            /\ \A q \in Ops \ {o} : thread[q] = Is!NoThread
        BY <1>19, <2>5 DEF SlotsWorking, SlotsThreads
      <3>2. SlotsWorking'
        BY <1>19, <2>1, <3>1 DEF SlotsWorking
      <3>3. SlotsGood(slot)' /\ SlotsGood(ping)' /\ \A q \in Ops : SlotsGood(thread[q].session)'
        BY <1>19, <2>1, <2>5, <3>1 DEF SlotsTracked, SlotsGood
      <3>4. \A q \in Ops : thread'[q].step = "act" /\ want'[q] # Absent => thread'[q].session \in {Absent, want'[q]}
        BY <1>19, <2>1, <2>5, <3>1 DEF SlotsTracked
      <3> QED
        BY <3>2, <3>3, <3>4 DEF SlotsTracked
    <2> QED
      BY <1>19, <2>2, <2>3, <2>4, <2>5 DEF SlotsInv, Is!RightFolderUndisturbed
  <1>20. ASSUME NEW o \in Ops, thread[o].step # "none"
         PROVE  /\ thread[o] \in SlotsThreadType /\ thread[o].session \in Is!Session \cup {Is!Empty}
                /\ ~disturbed => thread[o].session # Is!Empty /\ SlotsGood(thread[o].session) /\ SlotsWorking /\ SlotsTracked
    BY <1>20 DEF SlotsThreadType, SlotsWorking, SlotsTracked
  <1>21. ASSUME NEW o \in Ops, Is!ensure_selected(o) PROVE SlotsInv'
    <2> DEFINE f == want[o]
               new(s, g) == [step |-> s, session |-> g]
    <2>1. /\ thread[o].step = "select"
          /\ UNCHANGED <<slot, connected, Is!locks, at, want, ping, disturbed>> /\ wrong' = wrong
          /\ f \in MailFolders \cup {Absent}
      BY <1>21 DEF Is!ensure_selected, Is!history
    <2>2. thread[o].step # "none"
      BY <2>1
    <2>3. thread[o] \in SlotsThreadType /\ thread[o].session \in Is!Session \cup {Is!Empty}
          /\ (~disturbed => thread[o].session # Is!Empty /\ SlotsGood(thread[o].session))
      BY <1>20, <2>2
    <2>4. CASE thread[o].session = Is!Empty
      <3>1. disturbed
        BY <2>3, <2>4
      <3>2. /\ tracker' \in MailFolders \cup {Absent}
            /\ \E n \in SlotsThreadType : thread' = [thread EXCEPT ![o] = n] /\ n.step # "none"
        BY <1>21, <2>3 DEF Is!ensure_selected, SlotsThreadType, Is!Step, Is!Selected,
           Is!SelectFailed
      <3>3. PICK n \in SlotsThreadType : thread' = [thread EXCEPT ![o] = n] /\ n.step # "none"
        BY <3>2
      <3>4. /\ thread' \in [Ops -> SlotsThreadType] /\ thread'[o] = n
            /\ \A q \in Ops \ {o} : thread'[q] = thread[q]
        BY <3>3
      <3>5. Is!TypeOK' /\ SlotsLines' /\ SlotsThreads'
        BY <2>1, <3>2, <3>3, <3>4, SlotsWhole DEF Is!locks, SlotsLines, SlotsThreads
      <3> QED
        BY <2>1, <3>1, <3>5 DEF SlotsInv, Is!RightFolderUndisturbed
    <2>5. CASE thread[o].session # Is!Empty
      <3>1. CASE f = Absent \/ tracker = f
        <4>1. thread' = [thread EXCEPT ![o] = new("act", thread[o].session)] /\ tracker' = tracker
          BY <1>21, <2>3, <3>1 DEF Is!ensure_selected, Is!Step, SlotsThreadType
        <4>2. /\ new("act", thread[o].session) \in SlotsThreadType
              /\ new("act", thread[o].session).step = "act"
              /\ new("act", thread[o].session).session = thread[o].session
          BY <2>3 DEF SlotsThreadType
        <4> QED
          BY <1>19, <2>1, <2>2, <2>3, <2>5, <3>1, <4>1, <4>2 DEF SlotsGood
      <3>2. CASE ~(f = Absent \/ tracker = f) /\ Is!Selected(o, f, "act") /\ tracker' = f
        <4>1. thread' = [thread EXCEPT ![o] = new("act", f)] /\ f \in Is!Session /\ f # Is!Empty
          BY <2>1, <3>2 DEF Is!Selected
        <4>2. /\ new("act", f) \in SlotsThreadType /\ new("act", f).step = "act"
              /\ new("act", f).session = f
          BY <4>1 DEF SlotsThreadType
        <4> HIDE DEF new
        <4> QED
          BY <1>19, <2>1, <2>2, <3>2, <4>1, <4>2
      <3>3. ASSUME tracker' = Absent, NEW g \in {Absent, f, thread[o].session},
                   Is!Selected(o, g, "error")
            PROVE  SlotsInv'
        <4>1. thread' = [thread EXCEPT ![o] = new("error", g)] /\ g \in Is!Session /\ g # Is!Empty
          BY <2>1, <2>3, <2>5, <3>3 DEF Is!Selected
        <4>2. /\ new("error", g) \in SlotsThreadType /\ new("error", g).step = "error"
              /\ new("error", g).session = g
          BY <4>1 DEF SlotsThreadType
        <4> HIDE DEF new
        <4> QED
          BY <1>19, <2>1, <2>2, <3>3, <4>1, <4>2
      <3> QED
        BY <1>21, <3>1, <3>2, <3>3 DEF Is!ensure_selected, Is!SelectFailed
    <2> QED
      BY <2>4, <2>5
  <1>22. ASSUME NEW o \in Ops, thread[o].step = "act", NEW s \in {"ok", "error"}, Is!Step(o, s),
                wrong' \in BOOLEAN,
                UNCHANGED <<slot, tracker, connected, Is!locks, at, want, ping, disturbed>>,
                ~wrong' \/ wrong \/ (thread[o].session # Absent /\ want[o] \notin {Absent, thread[o].session}),
                wrong => wrong'
         PROVE  SlotsInv'
    <2> DEFINE new == [step |-> s, session |-> thread[o].session]
    <2>1. thread[o] \in SlotsThreadType /\ thread[o].session \in Is!Session \cup {Is!Empty}
          /\ (~disturbed => thread[o].session # Is!Empty /\ SlotsGood(thread[o].session) /\ SlotsTracked)
      BY <1>20, <1>22
    <2>2. thread' = [thread EXCEPT ![o] = new]
      <3>1. [thread[o] EXCEPT !.step = s] = new
        BY <2>1, SlotsStepped
      <3> QED
        BY <1>22, <3>1 DEF Is!Step
    <2>3. new \in SlotsThreadType /\ new.step \in {"ok", "error"} /\ new.session = thread[o].session
      BY <2>1 DEF SlotsThreadType
    <2> HIDE DEF new
    <2>4. ~disturbed => ~wrong'
      BY <1>22, <2>1 DEF SlotsTracked
    <2>5. CASE disturbed
      <3>1. /\ thread' \in [Ops -> SlotsThreadType] /\ thread'[o] = new
            /\ \A q \in Ops \ {o} : thread'[q] = thread[q]
        BY <2>2, <2>3
      <3>2. Is!TypeOK' /\ SlotsLines' /\ SlotsThreads'
        BY <1>22, <2>3, <3>1, SlotsWhole DEF Is!locks, SlotsLines, SlotsThreads
      <3> QED
        BY <1>22, <2>5, <3>2 DEF SlotsInv, Is!RightFolderUndisturbed
    <2>6. CASE ~disturbed
      BY <1>19, <1>22, <2>1, <2>2, <2>3, <2>4, <2>6 DEF SlotsGood
    <2> QED
      BY <2>5, <2>6
  <1>23. ASSUME NEW o \in Ops, Is!InFolder(o) \/ Is!Outside(o) PROVE SlotsInv'
    <2>1. CASE Is!InFolder(o)
      <3>1. PICK s \in {"ok", "error"} : Is!Step(o, s) /\ (wrong' = wrong \/
              (thread[o].session # Absent /\ wrong' = (wrong \/ want[o] \notin {Absent, thread[o].session})))
        BY <2>1 DEF Is!InFolder
      <3>2. /\ thread[o].step = "act"
            /\ UNCHANGED <<slot, tracker, connected, Is!locks, at, want, ping, disturbed>>
        BY <2>1 DEF Is!InFolder
      <3>3. wrong' \in BOOLEAN /\ (wrong => wrong')
            /\ (~wrong' \/ wrong \/ (thread[o].session # Absent /\ want[o] \notin {Absent, thread[o].session}))
        <4> HIDE <1>1
        <4>1. wrong \in BOOLEAN
          BY <1>1
        <4> QED
          <5> DEFINE bad == want[o] \notin {Absent, thread[o].session}
          <5>1. bad \in BOOLEAN
            OBVIOUS
          <5>2. wrong' = wrong \/ (thread[o].session # Absent /\ wrong' = (wrong \/ bad))
            BY <3>1
          <5> HIDE DEF bad
          <5>3. /\ (wrong \/ bad) \in BOOLEAN /\ (wrong => (wrong \/ bad))
                /\ (bad = FALSE => (wrong \/ bad) = wrong)
            BY <4>1, <5>1
          <5>4. /\ wrong' \in BOOLEAN /\ (wrong => wrong')
                /\ (wrong' => wrong \/ (thread[o].session # Absent /\ bad))
            BY <4>1, <5>1, <5>2, <5>3
          <5> QED
            BY <5>4 DEF bad
      <3> QED
        BY <1>22, <3>1, <3>2, <3>3
    <2>2. CASE Is!Outside(o)
      BY <1>22, <2>2 DEF Is!Outside, Is!history
    <2> QED
      BY <1>23, <2>1, <2>2
  (* The closure of o is done. *)
  <1>24. ASSUME NEW o \in Ops, thread' = [thread EXCEPT ![o] = Is!NoThread],
                want' = [want EXCEPT ![o] = Absent]
         PROVE  /\ thread' \in [Ops -> SlotsThreadType] /\ thread'[o] = Is!NoThread
                /\ \A q \in Ops \ {o} : thread'[q] = thread[q]
                /\ want' \in [Ops -> MailFolders \cup {Absent}] /\ \A q \in Ops \ {o} : want'[q] = want[q]
                /\ SlotsThreads'
    <2>1. /\ thread' \in [Ops -> SlotsThreadType] /\ thread'[o] = Is!NoThread
          /\ \A q \in Ops \ {o} : thread'[q] = thread[q]
      BY <1>24
    <2>2. want' \in [Ops -> MailFolders \cup {Absent}] /\ \A q \in Ops \ {o} : want'[q] = want[q]
      BY <1>24
    <2> QED
      BY <2>1, <2>2 DEF SlotsThreads
  <1>25. ASSUME NEW o \in Ops, thread[o].step # "none",
                thread' = [thread EXCEPT ![o] = Is!NoThread],
                want' = [want EXCEPT ![o] = Absent], Is!TypeOK', SlotsLines', UNCHANGED <<ping, wrong, disturbed>>,
                slot' \in {slot, thread[o].session}, tracker' \in {tracker, Absent}
         PROVE  SlotsInv'
    <2>1. /\ thread'[o] = Is!NoThread
          /\ \A q \in Ops \ {o} : thread'[q] = thread[q] /\ want'[q] = want[q]
          /\ SlotsThreads'
      BY <1>24, <1>25
    <2>2. ASSUME ~disturbed PROVE SlotsWorking' /\ SlotsTracked'
      <3>1. SlotsWorking /\ SlotsTracked /\ \A q \in Ops : thread'[q].step = "none"
        BY <1>25, <2>1, <2>2 DEF SlotsWorking
      <3>2. SlotsGood(slot)' /\ SlotsGood(ping)'
        BY <1>25, <3>1 DEF SlotsTracked, SlotsGood
      <3>3. \A q \in Ops : thread'[q].session = Is!Empty
        BY <2>1, <3>1 DEF SlotsThreads
      <3>4. \A q \in Ops : SlotsGood(thread[q].session)'
        BY <3>3 DEF SlotsGood
      <3> QED
        BY <3>1, <3>2, <3>4 DEF SlotsWorking, SlotsTracked
    <2> QED
      BY <1>25, <2>1, <2>2 DEF SlotsInv, Is!RightFolderUndisturbed
  <1>26. ASSUME NEW o \in Ops, Is!Abandoned(o) PROVE SlotsInv'
    <2>1. /\ thread[o].step # "none" /\ thread' = [thread EXCEPT ![o] = Is!NoThread]
          /\ want' = [want EXCEPT ![o] = Absent]
          /\ UNCHANGED <<slot, tracker, connected, opLock, connLock, at, ping, wrong, disturbed>>
      BY <1>26 DEF Is!Abandoned, Is!locks, Is!history
    <2>2. Is!TypeOK' /\ SlotsLines'
      BY <1>24, <2>1, SlotsWhole DEF SlotsLines
    <2> QED
      BY <1>25, <2>1, <2>2
  <1>27. ASSUME NEW o \in Ops, at[o] = "running", Is!Ended(o),
                UNCHANGED <<connLock, ping, Is!history>>
         PROVE  /\ SlotsLines' /\ at' \in [Ops \cup Others -> SlotsPlaces] /\ opLock' \in Seq(Ops)
                /\ connLock' \in Seq(Ops \cup Others) /\ UNCHANGED <<ping, wrong, disturbed>>
    <2>1. /\ Is!First(opLock, o) /\ Is!Goes(o, "idle") /\ "idle" \in SlotsPlaces
          /\ opLock' = Tail(opLock)
      BY <1>27 DEF Is!Ended, SlotsPlaces, SlotsLines
    <2> QED
      BY <1>2, <1>4, <1>15, <1>27, <2>1 DEF Is!history
  <1>28. ASSUME NEW o \in Ops, Is!PutBack(o) \/ Is!TagMismatch(o) PROVE SlotsInv'
    <2>1. /\ at[o] = "running" /\ Is!Ended(o) /\ thread[o].step # "none"
          /\ thread' = [thread EXCEPT ![o] = Is!NoThread]
          /\ slot' \in {slot, thread[o].session} /\ tracker' \in {tracker, Absent}
          /\ connected' \in BOOLEAN
          /\ UNCHANGED <<connLock, ping, Is!history>>
      BY <1>28 DEF Is!PutBack, Is!TagMismatch
    <2>2. want' = [want EXCEPT ![o] = Absent]
      BY <2>1 DEF Is!Ended
    <2>3. thread[o].session \in Is!Session \cup {Is!Empty}
      BY <1>20, <2>1
    <2>4. Is!TypeOK'
      BY <1>24, <1>27, <2>1, <2>2, <2>3, SlotsWhole
    <2> QED
      BY <1>25, <1>27, <2>1, <2>2, <2>4
  <1>29. ASSUME NEW o \in Ops, Is!Timeout(o) PROVE SlotsInv'
    <2>1. /\ at[o] = "running" /\ Is!Ended(o) /\ thread[o].step # "none" /\ UNCHANGED thread
          /\ slot' = Is!Empty
          /\ tracker' = Absent /\ connected' = FALSE /\ UNCHANGED <<connLock, ping, Is!history>>
      BY <1>29 DEF Is!Timeout
    <2>2. UNCHANGED want
      BY <2>1 DEF Is!Ended
    <2>3. Is!TypeOK'
      BY <1>27, <2>1, <2>2, SlotsWhole
    <2> QED
      BY <1>10, <1>27, <2>1, <2>2, <2>3
  (* The health check. *)
  <1>30. ASSUME Is!PingTake PROVE SlotsInv'
    <2>1. /\ ping' = slot /\ slot' = Is!Empty
          /\ disturbed' = (disturbed \/ opLock # <<>> \/ Is!Crowd("ping"))
          /\ UNCHANGED <<tracker, connected, opLock, connLock, at, want, thread, wrong>>
      BY <1>30 DEF Is!PingTake, Is!locks
    <2>2. Is!TypeOK' /\ SlotsLines' /\ SlotsThreads'
      BY <2>1, SlotsWhole DEF Is!Crowd, SlotsLines, SlotsThreads
    <2>3. ASSUME ~disturbed' PROVE SlotsWorking' /\ SlotsTracked'
      <3>1. ~disturbed /\ \A q \in Ops : thread[q] = Is!NoThread
        BY <2>1, <2>3 DEF Is!Crowd
      <3> QED
        BY <2>1, <3>1 DEF SlotsWorking, SlotsTracked, SlotsGood
    <2>4. Is!RightFolderUndisturbed'
      BY <2>1 DEF Is!RightFolderUndisturbed
    <2> QED
      BY <2>2, <2>3, <2>4 DEF SlotsInv
  <1>31. ASSUME Is!PingAnswered \/ Is!PingFailed PROVE SlotsInv'
    <2>1. /\ ping # Is!Empty /\ ping' = Is!Empty /\ slot' \in {slot, ping} /\ connected' \in BOOLEAN
          /\ UNCHANGED <<tracker, opLock, connLock, at, want, thread, wrong, disturbed>>
      BY <1>31 DEF Is!PingAnswered, Is!PingFailed, Is!locks, Is!history
    <2>2. Is!TypeOK' /\ SlotsLines' /\ SlotsThreads' /\ Is!RightFolderUndisturbed'
      BY <2>1, SlotsWhole DEF SlotsLines, SlotsThreads, Is!RightFolderUndisturbed
    <2>3. ASSUME ~disturbed PROVE SlotsWorking' /\ SlotsTracked'
      BY <2>1, <2>3 DEF SlotsWorking, SlotsTracked, SlotsGood
    <2> QED
      BY <2>1, <2>2, <2>3 DEF SlotsInv
  <1>32. ASSUME UNCHANGED Is!vars PROVE SlotsInv'
    <2>1. UNCHANGED <<slot, tracker, connected, opLock, connLock, at, want, thread, ping, wrong, disturbed>>
      BY <1>32 DEF Is!vars, Is!locks, Is!history
    <2>2. Is!TypeOK' /\ SlotsLines'
      BY <2>1, SlotsWhole DEF SlotsLines
    <2> QED
      BY <1>10, <2>1, <2>2
  <1>33. ASSUME NEW o \in Ops, Is!Thread(o) PROVE SlotsInv'
    BY <1>21, <1>23, <1>26, <1>33 DEF Is!Thread, Is!fetch_recent_impl, Is!fetch_raw_message,
       Is!mark_flag, Is!move_message,
       Is!ordner_leeren, Is!append_message, Is!select_folder_on, Is!rename_folder
  <1>34. ASSUME NEW o \in Ops, Is!Operation(o) PROVE SlotsInv'
    BY <1>7, <1>11, <1>17, <1>18, <1>28, <1>29, <1>34 DEF Is!Operation
  <1>35. ASSUME NEW p \in Others, Is!Other(p) PROVE SlotsInv'
    BY <1>9, <1>12, <1>13, <1>35 DEF Is!Other
  <1>36. ASSUME Is!Next PROVE SlotsInv'
    <2>1. CASE \E o \in Ops : Is!Thread(o) \/ Is!Operation(o) \/ \E f \in MailFolders \cup {Absent} : Is!Request(o, f)
      BY <1>6, <1>33, <1>34, <2>1
    <2>2. CASE \E p \in Others : Is!Other(p) \/ Is!Call(p, "connect") \/ Is!Call(p, "reconnect")
      BY <1>8, <1>35, <2>2
    <2> QED
      BY <1>14, <1>30, <1>31, <1>36, <2>1, <2>2 DEF Is!Next
  <1> QED
    BY <1>32, <1>36
=============================================================================
