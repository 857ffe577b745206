------------------------------- MODULE MCSends -------------------------------
(***************************************************************************)
(* Instances of Sends for TLC: uploads that two messages carry, and        *)
(* messages that are sent again.                                           *)
(***************************************************************************)
EXTENDS Sends, TLC

CONSTANTS ana, bob, u1, u2, s1, s2, s3, c1, c2

UploaderOf == u1 :> ana
Nobody == <<>>

SenderOf == c1 :> ana @@ c2 :> ana
CarriedBy == c1 :> {u1} @@ c2 :> {u1}
NoUploads == [c \in {c1, c2} |-> {}]

\* In MCUploads.cfg both client ids have the same sender and the same upload.
Symmetry == Permutations(Slots) \cup Permutations(Cids)
=============================================================================
