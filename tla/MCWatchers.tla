------------------------------ MODULE MCWatchers ------------------------------
(* Instances of Watchers for TLC. *)
EXTENDS Watchers, TLC

CONSTANTS t1, t2, f1, f2, f3

\* One terminal is outside tmux, one a pane of the daemon's tmux server.
OnePane == [t \in Ttys |-> IF t = t1 THEN NoPane ELSE "rato"]

\* The first run has more files than the task takes.
TwoAndOne == [f \in Files |-> IF f = f3 THEN 2 ELSE 1]
===============================================================================
