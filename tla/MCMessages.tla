----------------------------- MODULE MCMessages -----------------------------
(***************************************************************************)
(* An instance of Messages for TLC.                                        *)
(***************************************************************************)
EXTENDS Messages, TLC

CONSTANTS ana, bob, q1, q2

Symmetry == Permutations(Reqs)
=============================================================================
