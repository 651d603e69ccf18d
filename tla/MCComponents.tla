---------------------------- MODULE MCComponents ----------------------------
(* Small instances of the parts for TLC. *)
EXTENDS Components, TLC

CONSTANTS m1, m2, e1

SomeKinds == m1 :> "mail" @@ e1 :> "event"
SomeNumbers == m1 :> 1 @@ e1 :> 1
SomePart(c) == [name |-> "n", content |-> c]
SomeLetters == {<<SomePart(1)>>, <<SomePart(2), SomePart(1)>>}
SomePaths == {<<"INBOX">>, <<"a">>, <<"a", "b">>, <<"c">>, <<"c", "b">>}
SomeTrash == {<<"a", "b">>}
SomeBox == [auto |-> <<m1, m2>>, work |-> <<m1>>]
=============================================================================
