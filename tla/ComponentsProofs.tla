-------------------------- MODULE ComponentsProofs --------------------------
(***************************************************************************)
(* Theorems about the components that share nothing: what each keeps true  *)
(* (the modules this one extends) holds whatever part a behaviour is of,   *)
(* for every value of the constants.                                       *)
(***************************************************************************)
EXTENDS Components, MailboxProofs, TransferProofs, AgendaProofs, AdvisorProofs

MailboxInv == /\ part = "attachments" => AttachmentsInv
              /\ part = "moves" => MovesInv
              /\ part = "lists" => ListInv
              /\ part = "folders" => FolderInv
              /\ part = "imap" => SlotsInv
TransferInv == /\ part = "outgoing" => OutgoingRecords /\ OutgoingRequests /\ OutgoingUndisturbed /\ OutgoingCounted
               /\ part = "import" => ImportInv
               /\ part = "migration" => MigrationInv
AgendaInv == /\ part = "calendars" => Ca!TypeOK
             /\ part = "contacts" => ContactsInv
             /\ part = "tasks" => TasksInv
             /\ part = "invitations" => InvitationsInv
             /\ part = "meetings" => MeetingsInv
             /\ part = "google" => SignInInv
AdvisorInv == /\ part = "ai" => GatewayInv
              /\ part = "assistant" => AssistantInv
              /\ part = "ideas" => IdeasInv
              /\ part = "summaries" => SummaryInv
              /\ part = "learning" => Le!TypeOK
Inv == MailboxInv /\ TransferInv /\ AgendaInv /\ AdvisorInv

(* Each part begins as its module says, and its steps are the module's. *)
LEMMA Begins ==
    ASSUME Init
    PROVE  /\ part = "attachments" => At!Init
           /\ part = "moves" => Mo!Init
           /\ part = "lists" => Li!Init
           /\ part = "folders" => Fo!Init
           /\ part = "imap" => Is!Init
           /\ part = "outgoing" => Ou!Init
           /\ part = "import" => Im!Init
           /\ part = "migration" => Mi!Init
           /\ part = "contacts" => Co!Init
           /\ part = "tasks" => Ta!Init
           /\ part = "invitations" => In!Init
           /\ part = "meetings" => Mt!Init
           /\ part = "google" => Go!Init
           /\ part = "ai" => Ai!Init
           /\ part = "assistant" => As!Init
           /\ part = "ideas" => Id!Init
           /\ part = "calendars" => Ca!Init
           /\ part = "summaries" => Sw!Init
           /\ part = "learning" => Le!Init
  BY DEF Init

LEMMA Steps ==
    ASSUME [Next]_vars
    PROVE  /\ part' = part
           /\ part = "attachments" => [At!Next]_At!vars
           /\ part = "moves" => [Mo!Next]_Mo!vars
           /\ part = "lists" => [Li!Next]_Li!vars
           /\ part = "folders" => [Fo!Next]_Fo!vars
           /\ part = "imap" => [Is!Next]_Is!vars
           /\ part = "outgoing" => [Ou!Next]_Ou!vars
           /\ part = "import" => [Im!Next]_Im!vars
           /\ part = "migration" => [Mi!Next]_Mi!vars
           /\ part = "contacts" => [Co!Next]_Co!vars
           /\ part = "tasks" => [Ta!Next]_Ta!vars
           /\ part = "invitations" => [In!Next]_In!vars
           /\ part = "meetings" => [Mt!Next]_Mt!vars
           /\ part = "google" => [Go!Next]_Go!vars
           /\ part = "ai" => [Ai!Next]_Ai!vars
           /\ part = "assistant" => [As!Next]_As!vars
           /\ part = "ideas" => [Id!Next]_Id!vars
           /\ part = "calendars" => [Ca!Next]_Ca!vars
           /\ part = "summaries" => [Sw!Next]_Sw!vars
           /\ part = "learning" => [Le!Next]_Le!vars
  <1>1. CASE Next
    BY <1>1 DEF Next
  <1>2. CASE UNCHANGED vars
    <2>1. UNCHANGED At!vars
      BY <1>2 DEF vars, At!vars
    <2>2. UNCHANGED Mo!vars
      BY <1>2 DEF vars, Mo!vars, Mo!provider, Mo!history
    <2>3. UNCHANGED Li!vars
      BY <1>2 DEF vars, Li!vars
    <2>4. UNCHANGED Fo!vars
      BY <1>2 DEF vars, Fo!vars, Fo!provider, Fo!index, Fo!history
    <2>5. UNCHANGED Is!vars
      BY <1>2 DEF vars, Is!vars, Is!locks, Is!history
    <2>6. UNCHANGED Ou!vars
      BY <1>2 DEF vars, Ou!vars, Ou!copies, Ou!effects, Ou!history
    <2>7. UNCHANGED Im!vars
      BY <1>2 DEF vars, Im!vars
    <2>8. UNCHANGED Mi!vars
      BY <1>2 DEF vars, Mi!vars
    <2>9. UNCHANGED Co!vars
      BY <1>2 DEF vars, Co!vars, Co!provider
    <2>10. UNCHANGED Ta!vars
      BY <1>2 DEF vars, Ta!vars
    <2>11. UNCHANGED In!vars
      BY <1>2 DEF vars, In!vars
    <2>12. UNCHANGED Mt!vars
      BY <1>2 DEF vars, Mt!vars
    <2>13. UNCHANGED Go!vars
      BY <1>2 DEF vars, Go!vars
    <2>14. UNCHANGED Ai!vars
      BY <1>2 DEF vars, Ai!vars
    <2>15. UNCHANGED As!vars
      BY <1>2 DEF vars, As!vars
    <2>16. UNCHANGED Id!vars
      BY <1>2 DEF vars, Id!vars
    <2>17. UNCHANGED Ca!vars
      BY <1>2 DEF vars, Ca!vars, Ca!counters
    <2>18. UNCHANGED Sw!vars
      BY <1>2 DEF vars, Sw!vars, Sw!queue, Sw!worker
    <2>19. UNCHANGED Le!vars
      BY <1>2 DEF vars, Le!vars
    <2>20. part' = part
      BY <1>2 DEF vars
    <2> QED
      BY <2>1, <2>2, <2>3, <2>4, <2>5, <2>6, <2>7, <2>8, <2>9, <2>10, <2>11, <2>12, <2>13, <2>14,
         <2>15, <2>16, <2>17, <2>18, <2>19, <2>20
  <1> QED
    BY <1>1, <1>2

-----------------------------------------------------------------------------
LEMMA MailboxBegins == ASSUME Init PROVE MailboxInv
  <1>1. CASE part = "attachments"
    BY <1>1, Begins, MailboxAssumption, AttachmentsInitially DEF MailboxInv
  <1>2. CASE part = "moves"
    BY <1>2, Begins, MailboxAssumption, MovesInitially DEF MailboxInv
  <1>3. CASE part = "lists"
    BY <1>3, Begins, MailboxAssumption, ListInitially DEF MailboxInv
  <1>4. CASE part = "folders"
    BY <1>4, Begins, MailboxAssumption, FolderInitially DEF MailboxInv
  <1>5. CASE part = "imap"
    BY <1>5, Begins, MailboxAssumption, SlotsInitially DEF MailboxInv
  <1> QED
    BY <1>1, <1>2, <1>3, <1>4, <1>5 DEF MailboxInv

LEMMA MailboxKept == ASSUME MailboxInv, [Next]_vars PROVE MailboxInv'
  <1>1. part' = part
    BY Steps
  <1>2. CASE part = "attachments"
    BY <1>1, <1>2, Steps, MailboxAssumption, AttachmentsInductive DEF MailboxInv
  <1>3. CASE part = "moves"
    BY <1>1, <1>3, Steps, MailboxAssumption, MovesInductive DEF MailboxInv
  <1>4. CASE part = "lists"
    BY <1>1, <1>4, Steps, MailboxAssumption, ListInductive DEF MailboxInv
  <1>5. CASE part = "folders"
    BY <1>1, <1>5, Steps, MailboxAssumption, FolderInductive DEF MailboxInv
  <1>6. CASE part = "imap"
    BY <1>1, <1>6, Steps, MailboxAssumption, SlotsInductive DEF MailboxInv
  <1> QED
    BY <1>1, <1>2, <1>3, <1>4, <1>5, <1>6 DEF MailboxInv

LEMMA TransferBegins == ASSUME Init PROVE TransferInv
  <1>1. CASE part = "outgoing"
    BY <1>1, Begins, TransferAssumption, OutgoingInitially, OutgoingCountedFirst DEF TransferInv
  <1>2. CASE part = "import"
    BY <1>2, Begins, TransferAssumption, ImportInitially DEF TransferInv
  <1>3. CASE part = "migration"
    BY <1>3, Begins, TransferAssumption, MigrationInitially DEF TransferInv
  <1> QED
    BY <1>1, <1>2, <1>3 DEF TransferInv

LEMMA TransferKept == ASSUME TransferInv, [Next]_vars PROVE TransferInv'
  <1>1. part' = part
    BY Steps
  <1>2. CASE part = "outgoing"
    BY <1>1, <1>2, Steps, TransferAssumption, OutgoingRequestsStay,
       OutgoingUndisturbedStays, OutgoingCountedStep DEF TransferInv
  <1>3. CASE part = "import"
    BY <1>1, <1>3, Steps, TransferAssumption, ImportInductive DEF TransferInv
  <1>4. CASE part = "migration"
    BY <1>1, <1>4, Steps, TransferAssumption, MigrationInductive DEF TransferInv
  <1> QED
    BY <1>1, <1>2, <1>3, <1>4 DEF TransferInv

LEMMA AgendaBegins == ASSUME Init PROVE AgendaInv
  <1>1. CASE part = "contacts"
    BY <1>1, Begins, AgendaAssumption, ContactsInitially DEF AgendaInv
  <1>2. CASE part = "tasks"
    BY <1>2, Begins, AgendaAssumption, TasksInitially DEF AgendaInv
  <1>3. CASE part = "invitations"
    BY <1>3, Begins, AgendaAssumption, InvitationsInitially DEF AgendaInv
  <1>4. CASE part = "meetings"
    BY <1>4, Begins, AgendaAssumption, MeetingsInitially DEF AgendaInv
  <1>5. CASE part = "google"
    BY <1>5, Begins, AgendaAssumption, SignInInitially DEF AgendaInv
  <1>6. CASE part = "calendars"
    BY <1>6, Begins, AgendaAssumption, CalendarsInitially DEF AgendaInv
  <1> QED
    BY <1>1, <1>2, <1>3, <1>4, <1>5, <1>6 DEF AgendaInv

LEMMA AgendaKept == ASSUME AgendaInv, [Next]_vars PROVE AgendaInv'
  <1>1. part' = part
    BY Steps
  <1>2. CASE part = "contacts"
    BY <1>1, <1>2, Steps, AgendaAssumption, ContactsInductive DEF AgendaInv
  <1>3. CASE part = "tasks"
    BY <1>1, <1>3, Steps, AgendaAssumption, TasksInductive DEF AgendaInv
  <1>4. CASE part = "invitations"
    BY <1>1, <1>4, Steps, AgendaAssumption, InvitationsInductive DEF AgendaInv
  <1>5. CASE part = "meetings"
    BY <1>1, <1>5, Steps, AgendaAssumption, MeetingsTypes, MeetingsStaysAway DEF AgendaInv,
       MeetingsInv
  <1>6. CASE part = "google"
    BY <1>1, <1>6, Steps, AgendaAssumption, SignInInductive DEF AgendaInv
  <1>7. CASE part = "calendars"
    BY <1>1, <1>7, Steps, AgendaAssumption, CalendarsInductive DEF AgendaInv
  <1> QED
    BY <1>1, <1>2, <1>3, <1>4, <1>5, <1>6, <1>7 DEF AgendaInv

LEMMA AdvisorBegins == ASSUME Init PROVE AdvisorInv
  <1>1. CASE part = "ai"
    BY <1>1, Begins, AdvisorAssumption, GatewayInitially DEF AdvisorInv, GatewayConstants
  <1>2. CASE part = "assistant"
    BY <1>2, Begins, AdvisorAssumption, AssistantInitially DEF AdvisorInv
  <1>3. CASE part = "ideas"
    BY <1>3, Begins, AdvisorAssumption, IdeasInitially DEF AdvisorInv
  <1>4. CASE part = "summaries"
    BY <1>4, Begins, AdvisorAssumption, SummaryInitially DEF AdvisorInv
  <1>5. CASE part = "learning"
    BY <1>5, Begins, AdvisorAssumption, LearningInitially DEF AdvisorInv
  <1> QED
    BY <1>1, <1>2, <1>3, <1>4, <1>5 DEF AdvisorInv

LEMMA AdvisorKept == ASSUME AdvisorInv, [Next]_vars PROVE AdvisorInv'
  <1>1. part' = part
    BY Steps
  <1>2. CASE part = "ai"
    BY <1>1, <1>2, Steps, AdvisorAssumption, GatewayInductive DEF AdvisorInv, GatewayConstants
  <1>3. CASE part = "assistant"
    BY <1>1, <1>3, Steps, AdvisorAssumption, AssistantInductive DEF AdvisorInv
  <1>4. CASE part = "ideas"
    BY <1>1, <1>4, Steps, AdvisorAssumption, IdeasInductive DEF AdvisorInv
  <1>5. CASE part = "summaries"
    BY <1>1, <1>5, Steps, AdvisorAssumption, SummaryInductive DEF AdvisorInv
  <1>6. CASE part = "learning"
    BY <1>1, <1>6, Steps, AdvisorAssumption, LearningTypeOK DEF AdvisorInv
  <1> QED
    BY <1>1, <1>2, <1>3, <1>4, <1>5, <1>6 DEF AdvisorInv

(* The inductive invariant of every part holds, whatever part a behaviour  *)
(* is of: what the parts keep true of their records, requests and          *)
(* histories, for any values of the constants.                             *)
THEOREM Invariant == Spec => []Inv
  <1>1. Init => Inv
    BY MailboxBegins, TransferBegins, AgendaBegins, AdvisorBegins DEF Inv
  <1>2. Inv /\ [Next]_vars => Inv'
    BY MailboxKept, TransferKept, AgendaKept, AdvisorKept DEF Inv
  <1> QED
    BY <1>1, <1>2, PTL DEF Spec

-----------------------------------------------------------------------------
(* Every part keeps to its types: the rows, requests, workers and counters *)
(* are what its module says they can be, and within their bounds (TypeOK). *)
THEOREM TypeCorrect == Spec => []TypeOK
  <1>1. Inv => TypeOK
    <2> SUFFICES ASSUME Inv PROVE TypeOK
      OBVIOUS
    <2>1. /\ part = "attachments" => At!TypeOK
          /\ part = "moves" => Mo!TypeOK
          /\ part = "lists" => Li!TypeOK
          /\ part = "folders" => Fo!TypeOK
          /\ part = "imap" => Is!TypeOK
      BY DEF Inv, MailboxInv, AttachmentsInv, MovesInv, ListInv, FolderInv, SlotsInv
    <2>2. /\ part = "outgoing" => Ou!TypeOK
          /\ part = "import" => Im!TypeOK
          /\ part = "migration" => Mi!TypeOK
      BY TransferAssumption, OutgoingTypeOK, MigrationTypeOK DEF Inv, TransferInv, ImportInv
    <2>3. /\ part = "calendars" => Ca!TypeOK
          /\ part = "contacts" => Co!TypeOK
          /\ part = "tasks" => Ta!TypeOK
          /\ part = "invitations" => In!TypeOK
          /\ part = "meetings" => Mt!TypeOK
          /\ part = "google" => Go!TypeOK
      BY DEF Inv, AgendaInv, ContactsInv, TasksInv, InvitationsInv, MeetingsInv, SignInInv
    <2>4. /\ part = "ai" => Ai!TypeOK
          /\ part = "assistant" => As!TypeOK
          /\ part = "ideas" => Id!TypeOK
          /\ part = "summaries" => Sw!TypeOK
          /\ part = "learning" => Le!TypeOK
      BY DEF Inv, AdvisorInv, GatewayInv, AssistantInv, IdeasInv, SummaryInv
    <2> QED
      BY <2>1, <2>2, <2>3, <2>4 DEF TypeOK
  <1> QED
    BY <1>1, Invariant, PTL

(* A breaker is half open with nobody under way only when its probe left   *)
(* without a word; a probe that was told of never leaves it so             *)
(* (OnlyLostProbesLatch; ai/circuit_breaker.rs).                           *)
THEOREM OnlyLostProbes == Spec => []OnlyLostProbesLatch
  <1>1. Inv => OnlyLostProbesLatch
    BY GatewayOnlyLostProbes DEF Inv, AdvisorInv, OnlyLostProbesLatch
  <1> QED
    BY <1>1, Invariant, PTL

(* No step of a plan runs again, unless two confirmations of it overlap or *)
(* one breaks off (OnceUnlessOverlapping; ai/plaene.rs).                   *)
THEOREM OnceEach == Spec => []OnceUnlessOverlapping
  <1>1. Inv => OnceUnlessOverlapping
    BY AssistantOnce DEF Inv, AdvisorInv, OnceUnlessOverlapping
  <1> QED
    BY <1>1, Invariant, PTL

(* No second run makes tasks of one memo, loop and endpoint together, but  *)
(* for the excuses of OneRunPerIdea: a memo set back, changed or abandoned *)
(* while at work, a task made and not noted, and the fallback task for a   *)
(* memo whose task is noted when no model is configured (unread;           *)
(* sync/insilo_ideas.rs, cache/ideas.rs).                                  *)
THEOREM OneRunEach == Spec => []OneRunPerIdea
  <1>1. Inv => OneRunPerIdea
    BY DEF Inv, AdvisorInv, OneRunPerIdea, IdeasInv
  <1> QED
    BY <1>1, Invariant, PTL

(* An IMAP command runs in the folder it names, whatever pings, cancels    *)
(* and reconnects happen, unless two had a session of the slot             *)
(* (RightFolderUndisturbed; imap/client.rs).                               *)
THEOREM RightFolder == Spec => []RightFolderUndisturbed
  <1>1. Inv => RightFolderUndisturbed
    BY DEF Inv, MailboxInv, RightFolderUndisturbed, SlotsInv
  <1> QED
    BY <1>1, Invariant, PTL

(* A file that a row names stays in the store, however saving a draft,     *)
(* cleaning up, reading and crashes interleave (DraftsKeepContents;        *)
(* cache/attachments.rs).                                                  *)
THEOREM ContentsStay == Spec => []DraftsKeepContents
  <1>1. Inv => DraftsKeepContents
    BY DEF Inv, MailboxInv, DraftsKeepContents, AttachmentsInv
  <1> QED
    BY <1>1, Invariant, PTL

(* A list shows the changes its user knows of, but for an answer put into  *)
(* the cache late (OwnChangesShown; cache/mod.rs).                         *)
THEOREM ListsShow == Spec => []OwnChangesShown
  <1>1. Inv => OwnChangesShown
    BY DEF Inv, MailboxInv, OwnChangesShown, ListInv
  <1> QED
    BY <1>1, Invariant, PTL

(* Deleting a folder deletes no mail: what is in it and in those below is  *)
(* in the trash first, but for what came in between, or a trash below the  *)
(* folder (FoldersNotMails; api/messages.rs).                              *)
THEOREM MailsSpared == Spec => []FoldersNotMails
  <1>1. Inv => FoldersNotMails
    BY DEF Inv, MailboxInv, FoldersNotMails, FolderInv
  <1> QED
    BY <1>1, Invariant, PTL

(* A move that waits names a folder the provider has, also after that      *)
(* folder or one above it is renamed, unless the folder was deleted, or    *)
(* was renamed at the provider without the waiting moves following         *)
(* (MovesFollow; api/messages.rs, cache/messages.rs).                      *)
THEOREM MovesFind == Spec => []MovesFollow
  <1>1. Inv => MovesFollow
    BY MailboxAssumption, FolderFollowed DEF Inv, MailboxInv, MovesFollow
  <1> QED
    BY <1>1, Invariant, PTL

(* A mail that is moved is whole somewhere, at whatever step the request   *)
(* breaks off and whatever mail its number stands for by then, but for a   *)
(* mail without a Message-ID that is removed in the place of another, or   *)
(* given up for another's EML (MovedNotLost; api/messages.rs).             *)
THEOREM MailsWhole == Spec => []MovedNotLost
  <1>1. Inv => MovedNotLost
    BY DEF Inv, MailboxInv, MovedNotLost, MovesInv
  <1> QED
    BY <1>1, Invariant, PTL

(* A mail is handed to the provider twice only after an answer was lost,   *)
(* or when the event "online" came again while the outbox was being sent   *)
(* (TwiceOnlyDisturbed; routes/+page.svelte, api/send.rs).                 *)
THEOREM OnceUndisturbed == Spec => []TwiceOnlyDisturbed
  <1>1. Inv => TwiceOnlyDisturbed
    BY OutgoingTwice DEF Inv, TransferInv, TwiceOnlyDisturbed
  <1> QED
    BY <1>1, Invariant, PTL

(* Importing a mailbox again adds no mail a second time, after failures    *)
(* and crashes too, but for requests that race (NoSecondCopy;              *)
(* api/import.rs).                                                         *)
THEOREM NoneTwice == Spec => []NoSecondCopy
  <1>1. Inv => NoSecondCopy
    BY DEF Inv, TransferInv, NoSecondCopy, ImportInv
  <1> QED
    BY <1>1, Invariant, PTL

(* A folder the migration reports done without an error has, for every     *)
(* mail the provider listed and did not count as failed, a row in the      *)
(* target and that mail in its file, but for what DoneIsComplete names:    *)
(* two tasks at once, a reset, the target's own mail or another folder's   *)
(* of the same number, an empty one (api/migrate.rs).                      *)
THEOREM DoneComplete == Spec => []DoneIsComplete
  <1>1. Inv => DoneIsComplete
    BY TransferAssumption, MigrationComplete DEF Inv, TransferInv, DoneIsComplete
  <1> QED
    BY <1>1, Invariant, PTL

(* Between runs a contact that the next CardDAV run will not read is shown *)
(* as it is, through partial runs, failures, changed accounts and the      *)
(* removals an incremental answer names, but for the contacts              *)
(* CoveredIsShown excuses (dav/scheduler.rs).                              *)
THEOREM CoveredShown == Spec => []CoveredIsShown
  <1>1. Inv => CoveredIsShown
    BY ContactsShows, AgendaAssumption DEF Inv, AgendaInv, CoveredIsShown
  <1> QED
    BY <1>1, Invariant, PTL

(* A change or deletion the user made to a task is at the provider once no *)
(* request is under way, but for those the code sends to nobody (untold)   *)
(* and those that crossed another, failed or were stored over (parted)     *)
(* (ChangesReachProvider; api/todos.rs).                                   *)
THEOREM ChangesReach == Spec => []ChangesReachProvider
  <1>1. Inv => ChangesReachProvider
    BY TasksReaches DEF Inv, AgendaInv, ChangesReachProvider
  <1> QED
    BY <1>1, Invariant, PTL

(* Who was invited has the status of the last answer that was read, and    *)
(* what is shown as answered was sent (StatusAsAnswered; imip/).           *)
THEOREM AnswersShown == Spec => []StatusAsAnswered
  <1>1. Inv => StatusAsAnswered
    BY InvitationsAnswered DEF Inv, AgendaInv, StatusAsAnswered
  <1> QED
    BY <1>1, Invariant, PTL

(* But for the races it excuses, what is on disk, in memory and among the  *)
(* access tokens is of one sign-in, and an account that was deleted has    *)
(* none (OneSignIn; google/mod.rs).                                        *)
THEOREM SameSignIn == Spec => []OneSignIn
  <1>1. Inv => OneSignIn
    BY SignInSameSignIn DEF Inv, AgendaInv, OneSignIn
  <1> QED
    BY <1>1, Invariant, PTL

(* Two requests that share a client of a language model never call it      *)
(* together, whoever hangs up and however often clients are exchanged      *)
(* (OneCallPerClient; ai/client.rs).                                       *)
THEOREM OneCall == Spec => [](part = "ai" => Ai!OneCallPerClient)
  <1>1. Inv => (part = "ai" => Ai!OneCallPerClient)
    BY GatewayOneCall DEF Inv, AdvisorInv
  <1> QED
    BY <1>1, Invariant, PTL

(* A meeting the user has removed does not come back, however scans        *)
(* overlap with each other and with the removal (RemovedStaysAway;         *)
(* sync/insilo.rs, api/meetings.rs).                                       *)
THEOREM RemovedForGood == Spec => [](part = "meetings" => Mt!RemovedStaysAway)
  <1>1. Inv => (part = "meetings" => Mt!RemovedStaysAway)
    BY DEF Inv, AgendaInv, MeetingsInv
  <1> QED
    BY <1>1, Invariant, PTL

(* A mail leaves the outbox of the client only when the provider has taken *)
(* it, whatever gets lost on the way (NothingLost; routes/+page.svelte,    *)
(* api/send.rs).                                                           *)
THEOREM KeptUntilTaken == Spec => NothingLost
  <1>1. ASSUME Inv, [Next]_vars PROVE [part = "outgoing" => Ou!LosesNothing]_vars
    <2>1. CASE part = "outgoing" /\ Next
      <3>1. Ou!Next
        BY <2>1 DEF Next
      <3> QED
        BY <1>1, <2>1, <3>1, OutgoingLoses, TransferAssumption DEF Inv, TransferInv
    <2> QED
      BY <1>1, <2>1
  <1> QED
    BY <1>1, Invariant, PTL DEF Spec, NothingLost
=============================================================================
