---------------------------- MODULE MCWorkbench ----------------------------
(* Instances of Workbench for TLC.  Where every connection may send every  *)
(* request, connections are interchangeable.                               *)
EXTENDS Workbench, TLC

Symmetry == Permutations(Conns)
=============================================================================
