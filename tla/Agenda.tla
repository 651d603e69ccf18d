------------------------------- MODULE Agenda -------------------------------
(***************************************************************************)
(* Calendars, contacts, tasks, invitations, meetings, and the sign-in at   *)
(* Google that their synchronisation uses.                                 *)
(***************************************************************************)
EXTENDS Parts

Ca == INSTANCE Calendars
Co == INSTANCE Contacts WITH People <- Entries, MaxSwitches <- MaxBooks, MaxChanges <- MaxEdits
Ta == INSTANCE Tasks WITH Runs <- Syncs, Requests <- Changers, MaxVersion <- MaxTasks
In == INSTANCE Invitations
Mt == INSTANCE Meetings WITH MaxVersion <- MaxMemos
Go == INSTANCE GoogleSignIn

\* What the parts assume of their constants.
ASSUME AgendaAssumption ==
    /\ Ca!CalendarsAssumption
    /\ Co!ContactsAssumption
    /\ Ta!TasksAssumption
    /\ In!InvitationsAssumption
    /\ Mt!MeetingsAssumption
    /\ Go!SignInAssumption

-----------------------------------------------------------------------------
\* A contact the next CardDAV run will not read is shown as it is (dav/scheduler.rs).
CoveredIsShown == part = "contacts" => Co!CoveredIsShown

\* Changes of tasks reach the provider, however synchronisations race them (api/todos.rs).
ChangesReachProvider == part = "tasks" => Ta!ChangesReachProvider

\* Who was invited has the status of the last answer; what is shown as answered was sent (imip/).
StatusAsAnswered == part = "invitations" => In!StatusAsAnswered

\* No token of an earlier Google sign-in stays behind, on disk or in memory (google/mod.rs).
OneSignIn == part = "google" => Go!OneSignIn
=============================================================================
