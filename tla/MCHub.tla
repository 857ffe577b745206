------------------------------- MODULE MCHub --------------------------------
(***************************************************************************)
(* Instances of Hub for TLC.                                               *)
(***************************************************************************)
EXTENDS Hub

CONSTANTS ana, a1, a2, a3

OwnerOf == [c \in Conns |-> ana]
=============================================================================
