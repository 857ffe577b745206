------------------------------- MODULE MCCalls -------------------------------
(***************************************************************************)
(* Calls between two or three people.  A connection is named by its user   *)
(* and a number: ana1 and ana2 are two sockets of one phone; bob1, bob2 and *)
(* bob3 are bob's phone, tablet and laptop.                                *)
(***************************************************************************)
EXTENDS Calls, TLC

CONSTANTS ana, bob, cid, ana1, ana2, bob1, bob2, bob3, phone, tablet, laptop

OwnerOf == [c \in Conns |-> IF c \in {ana1, ana2} THEN ana
                            ELSE IF c \in {bob1, bob2, bob3} THEN bob ELSE cid]

DeviceOf == [c \in Conns |-> CASE c = bob2 -> <<bob, tablet>>
                               [] c = bob3 -> <<bob, laptop>>
                               [] OTHER -> <<OwnerOf[c], phone>>]

Symmetry == Permutations(CallIds)
=============================================================================
