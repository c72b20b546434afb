---------------------------- MODULE MCConnection ----------------------------
(* Constants for model checking Connection. *)
EXTENDS Connection, TLC

CONSTANTS c1, c2

Symmetry == Permutations(Data)
=============================================================================
