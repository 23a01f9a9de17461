---------------------------- MODULE MCDotfileEdits ----------------------------
(* Instances of DotfileEdits for TLC. *)
EXTENDS DotfileEdits, TLC

Symmetry == Permutations(Intended)
=============================================================================
