---------------------------- MODULE MCMailImport -----------------------------
(* One mailbox with two mails, imported once, by one request: that is       *)
(* enough to lose a mail.                                                   *)
EXTENDS MailImport

CONSTANTS m1, m2

MCBox == [auto |-> <<m1, m2>>]
=============================================================================
