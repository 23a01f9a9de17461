------------------------------ MODULE MCCritic ------------------------------
(* Instances of Critic for TLC. *)
EXTENDS Critic, TLC

MentorCapacity == [m \in Modes |-> 1]
MentorRefill == [m \in Modes |-> 1]

\* An observation cited once or twice, with an invented one, and no citation.
SomeCitations ==
    LET cites(n, ids) == [i \in Observations \cup Fabricated |-> IF i \in ids THEN n ELSE 0] IN
    {cites(1, ids) : ids \in SUBSET (Observations \cup Fabricated)}
      \cup {cites(2, {o}) : o \in Observations}

Symmetry == Permutations(Pushbacks) \cup Permutations(Observations) \cup Permutations(Verdicts)
=============================================================================
