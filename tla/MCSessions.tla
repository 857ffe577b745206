----------------------------- MODULE MCSessions -----------------------------
(***************************************************************************)
(* Instances of Sessions for TLC.                                          *)
(***************************************************************************)
EXTENDS Sessions, TLC

CONSTANTS r1, r2

MCReqs == {r1, r2}
Symmetry == Permutations(MCReqs)
=============================================================================
