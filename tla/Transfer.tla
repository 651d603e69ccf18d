------------------------------ MODULE Transfer ------------------------------
(***************************************************************************)
(* Mails that leave Relay and come into it: sending, import, migration.    *)
(***************************************************************************)
EXTENDS Parts

Ou == INSTANCE Outgoing WITH Mails <- Messages, None <- Absent
Im == INSTANCE MailImport WITH Requests <- Importers
Mi == INSTANCE Migration WITH Folders <- MailFolders, Numbers <- GivenUids, None <- Absent,
                              MaxStarts <- MaxMigrations, MaxChanges <- MaxResets

\* What the parts assume of their constants.
ASSUME TransferAssumption ==
    /\ Ou!NoneAssumption /\ Ou!RunsAssumption /\ Ou!BoundAssumption
    /\ Im!ImportAssumption
    /\ Mi!MigrationAssumption

-----------------------------------------------------------------------------
\* A mail goes out twice only after a lost answer or a second event online (outbox, api/send.rs).
TwiceOnlyDisturbed == part = "outgoing" => Ou!TwiceOnlyDisturbed

\* A mail leaves the outbox only when the provider has it (routes/+page.svelte, api/send.rs).
NothingLost == [][part = "outgoing" => Ou!LosesNothing]_vars

\* Importing a mailbox again adds no mail a second time, after failures too (api/import.rs).
NoSecondCopy == part = "import" => Im!NoSecondCopy

\* A folder reported done without errors has every mail the provider listed (api/migrate.rs).
DoneIsComplete == part = "migration" => Mi!DoneIsComplete
=============================================================================
