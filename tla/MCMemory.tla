------------------------------- MODULE MCMemory -------------------------------
(* Instances of Memory for TLC. *)
EXTENDS Memory, TLC

CONSTANTS o1, o2, s1, s2, p

OneProject == [x \in Observations \cup Sessions |-> p]
=============================================================================
