----------------------------- MODULE MCAccounts -----------------------------
(***************************************************************************)
(* An instance of Accounts for TLC.                                        *)
(***************************************************************************)
EXTENDS Accounts, TLC

CONSTANTS u1, u2, e1, e2, e3, s1, s2

Symmetry == Permutations(Slots) \cup Permutations(Ids) \cup Permutations(Emails \ {Google})
=============================================================================
