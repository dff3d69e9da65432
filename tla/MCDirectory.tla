---------------------------- MODULE MCDirectory ----------------------------
(* Values for TLC: one meeting of two new voices. *)
EXTENDS Directory

CONSTANTS m1, v1, v2

MCPending == (m1 :> <<v1, v2>>)

Symmetry == Permutations(Person)

=============================================================================
