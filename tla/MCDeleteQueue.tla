---------------------------- MODULE MCDeleteQueue ----------------------------
(* One mail, at each kind of provider with a Message-ID header, and at one  *)
(* with a trash folder also without.                                        *)
EXTENDS DeleteQueue

CONSTANT m1

MCMails == {m1}
MCSetups == {<<"gmail", {}>>, <<"trash", {}>>, <<"bare", {}>>, <<"trash", {m1}>>}
=============================================================================
