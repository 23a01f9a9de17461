---------------------------- MODULE Surroundings ----------------------------
(***************************************************************************)
(* What goes on around the daemon's watchers: processes start and exit,    *)
(* the rest of the desktop moves, and what the daemon asks of the store or *)
(* of the desktop may fail.  The parts that EXTEND this module share the   *)
(* two counters, so an instance bounds how often the desktop moves in all. *)
(***************************************************************************)
EXTENDS Integers, FiniteSets

CONSTANTS Pids, Ttys, Commands, NoTty, Gone,
          MaxMoves, MaxTroubles    \* bounds

ASSUME SurroundingsAssumption ==
    /\ Pids \subseteq Nat /\ IsFiniteSet(Pids)
    /\ NoTty \notin Ttys
    /\ MaxMoves \in Nat /\ MaxTroubles \in Nat

VARIABLES procs,      \* /proc
          moves,      \* processes started, files written, keys pressed, ...
          troubles    \* failed calls and crashes

around == <<procs, moves, troubles>>

Process == [cmd : Commands, tty : Ttys \cup {NoTty}]

Move == moves < MaxMoves /\ moves' = moves + 1 /\ UNCHANGED troubles
Moved == Move /\ UNCHANGED procs
Trouble == troubles < MaxTroubles /\ troubles' = troubles + 1 /\ UNCHANGED <<procs, moves>>

AroundInit == procs = [p \in Pids |-> Gone] /\ moves = 0 /\ troubles = 0

Spawn(p, process) == procs[p] = Gone /\ Move /\ procs' = [procs EXCEPT ![p] = process]

Exit(p) == procs[p] # Gone /\ Move /\ procs' = [procs EXCEPT ![p] = Gone]
=============================================================================
