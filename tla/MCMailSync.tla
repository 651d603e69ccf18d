----------------------------- MODULE MCMailSync -----------------------------
(* One mail and three events, or two mails and one; for the violations two  *)
(* mails and two events, or one backfilled file.                            *)
EXTENDS MailSync

CONSTANTS m1, m2

MCMails == {m1, m2}
Modes == {"mirror", "archive"}
MCAccounts == [mode : Modes, mails : {{m1}}, events : {3}]
         \cup [mode : Modes, mails : {{m1, m2}}, events : {1}]
MCArchives == [mode : {"archive"}, mails : {{m1, m2}}, events : {2}]
=============================================================================
