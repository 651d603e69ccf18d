--------------------------- MODULE ArchivePromise ---------------------------
(***************************************************************************)
(* What an account in archive mode promises about a mail the user deletes  *)
(* (decision F1 of the archive concept): the provider gives up its copy    *)
(* only after the user asked for it, for good only while a checked copy    *)
(* lies in the local archive, and otherwise into its trash, from where it  *)
(* can still be fetched back.                                              *)
(***************************************************************************)
CONSTANT Mails

VARIABLES asked,     \* mails whose deletion the user has asked for
          provider,  \* where the provider has the mail
          archive,   \* mails with a checked copy in the local archive
          blind      \* mails whose deletion the promise did not cover

Places == {"held", "trash", "none"}

PromiseTypeOK == /\ asked \subseteq Mails
                 /\ provider \in [Mails -> Places]
                 /\ archive \subseteq Mails
                 /\ blind \subseteq Mails

Init == PromiseTypeOK /\ asked = {} /\ blind = {}

(* The user deletes the mail. *)
Ask(m) == /\ asked' = asked \cup {m}
          /\ UNCHANGED <<provider, archive, blind>>

(* The mail's raw form is stored. *)
Archive(m) == /\ archive' = archive \cup {m}
              /\ UNCHANGED <<asked, provider, blind>>

(* The archived copy of a deleted mail goes after its time in the trash. *)
Expire(m) == /\ m \in asked
             /\ archive' = archive \ {m}
             /\ UNCHANGED <<asked, provider, blind>>

(* Into the provider's trash: always safe, also for a mail marked for      *)
(* removal before.                                                         *)
SoftDelete(m) == /\ m \in asked
                 /\ provider' = [provider EXCEPT ![m] = "trash"]
                 /\ UNCHANGED <<asked, archive, blind>>

(* Off the provider for good: only against the archived copy. *)
HardDelete(m) == /\ m \in asked
                 /\ m \in archive
                 /\ provider[m] = "held"
                 /\ provider' = [provider EXCEPT ![m] = "none"]
                 /\ UNCHANGED <<asked, archive, blind>>

(* The user takes the mail back out of the trash: it starts anew. *)
Return(m) == /\ provider' = [provider EXCEPT ![m] = "held"]
             /\ asked' = asked \ {m}
             /\ archive' = archive \ {m}
             /\ UNCHANGED blind

Step(m) == \/ Ask(m) \/ Archive(m) \/ Expire(m)
           \/ SoftDelete(m) \/ HardDelete(m) \/ Return(m)

Next == \E m \in Mails : Step(m)

Spec == Init /\ [][Next]_<<asked, provider, archive, blind>>

-----------------------------------------------------------------------------
(***************************************************************************)
(* The promise as the worker keeps it: where it sees no trash at the       *)
(* provider it deletes for good without the archived copy.  (An earlier,   *)
(* half failed attempt may have left a copy in the trash after all.)       *)
(***************************************************************************)
BlindDelete(m) == /\ m \in asked
                  /\ provider[m] = "held"
                  /\ provider' \in {[provider EXCEPT ![m] = p] : p \in {"none", "trash"}}
                  /\ blind' = blind \cup {m}
                  /\ UNCHANGED <<asked, archive>>

FallbackNext == \E m \in Mails : Step(m) \/ BlindDelete(m)

FallbackSpec == Init /\ [][FallbackNext]_<<asked, provider, archive, blind>>
=============================================================================
