--------------------------- MODULE MCKeyedChannel ---------------------------
(* Instances of KeyedChannel for TLC. *)
EXTENDS KeyedChannel, TLC

CONSTANTS p1, p2, a, b

KeySymmetry == Permutations(Keys)
=============================================================================
