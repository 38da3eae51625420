---------------------------- MODULE MCOwnership ----------------------------
(* Two agents claim one room, one of them with a nonce of its own choice, the *)
(* largest there is.  The other sets the list twice.                          *)
EXTENDS Ownership, TLC

CONSTANTS A, B, claimA, claimB, list1, list2

MCSigner == [c \in Calls |-> IF c = claimB THEN B ELSE A]
MCGiven == [c \in Calls |-> IF c = claimB THEN MaxNonce ELSE None]

\* The two lists are interchangeable.
Symmetry == Permutations({list1, list2})
=============================================================================
