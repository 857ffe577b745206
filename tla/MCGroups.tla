------------------------------ MODULE MCGroups ------------------------------
(***************************************************************************)
(* Instances of Groups for TLC.                                            *)
(***************************************************************************)
EXTENDS Groups, TLC

CONSTANTS ana, bob, cid, dan

\* The users who neither create the group nor delete an account.
Bystanders == Permutations({cid, dan})
=============================================================================
