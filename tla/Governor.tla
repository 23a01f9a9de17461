------------------------------ MODULE Governor ------------------------------
(***************************************************************************)
(* The interruption governor: a token bucket per personality mode and a    *)
(* cap on the admissions of the last hour, all modes together.  It lives   *)
(* in memory: a restart of the daemon brings full buckets and no past.     *)
(*                                                                         *)
(* A token is worth Refill[m] ticks, so that what accrues is an integer;   *)
(* the code divides in floating point.                                     *)
(***************************************************************************)
EXTENDS Integers, Sequences, FiniteSets

CONSTANTS Modes,
          Capacity,     \* tokens of a full bucket, per mode
          Refill,       \* ticks per token, per mode
          Cap,          \* admissions in an hour
          Hour          \* ticks in an hour

ASSUME GovernorAssumption ==
    /\ Capacity \in [Modes -> Nat \ {0}]
    /\ Refill \in [Modes -> Nat \ {0}]
    /\ Cap \in Nat \ {0}
    /\ Hour \in Nat \ {0}

VARIABLES bucket,       \* BucketState of each mode
          window,       \* global_window: what it still remembers of the log
          log           \* every admission of this run of the daemon (history)

governorVars == <<bucket, window, log>>

Never == -1             \* last_refill_ms = None

Full(m) == Capacity[m] * Refill[m]

GovernorTypeOK ==
    /\ bucket \in [Modes -> [ticks : Nat, last : Nat \cup {Never}]]
    /\ \A m \in Modes : bucket[m].ticks <= Full(m)
    /\ log \in Seq([mode : Modes, at : Nat])
    /\ window \subseteq DOMAIN log

GovernorInit ==
    /\ bucket = [m \in Modes |-> [ticks |-> Full(m), last |-> Never]]
    /\ window = {}
    /\ log = <<>>

Least(a, b) == IF a <= b THEN a ELSE b
Most(a, b) == IF a >= b THEN a ELSE b

\* Mutant: what accrues is not cut off at the capacity.
RefilledWithoutEnd(b, m, now) ==
    [ticks |-> IF b.last = Never THEN b.ticks ELSE b.ticks + Most(now - b.last, 0),
     last  |-> now]

\* refill: the first call only notes the time.
Refilled(b, m, now) ==
    [ticks |-> IF b.last = Never
                 THEN b.ticks
                 ELSE Least(b.ticks + Most(now - b.last, 0), Full(m)),
     last  |-> now]

\* Mutant: an hour is forgotten a tick too early.
RememberedBriefly(now) == {i \in window : log[i].at > now - Hour + 1}

Remembered(now) == {i \in window : log[i].at > now - Hour}

\* Mutant: the token is not taken.
AdmitForFree(m, now) ==
    LET b == Refilled(bucket[m], m, now) IN
    /\ Cardinality(Remembered(now)) < Cap
    /\ b.ticks >= Refill[m]
    /\ bucket' = [bucket EXCEPT ![m] = b]
    /\ log' = Append(log, [mode |-> m, at |-> now])
    /\ window' = Remembered(now) \cup {Len(log) + 1}

\* admit = true: the cap is not reached and the bucket has a token.
Admit(m, now) ==
    LET b == Refilled(bucket[m], m, now) IN
    /\ Cardinality(Remembered(now)) < Cap
    /\ b.ticks >= Refill[m]
    /\ bucket' = [bucket EXCEPT ![m] = [b EXCEPT !.ticks = @ - Refill[m]]]
    /\ log' = Append(log, [mode |-> m, at |-> now])
    /\ window' = Remembered(now) \cup {Len(log) + 1}

\* admit = false: at the cap the bucket is not even refilled.
Deny(m, now) ==
    LET b == Refilled(bucket[m], m, now) IN
    /\ window' = Remembered(now)
    /\ \/ /\ Cardinality(Remembered(now)) >= Cap
          /\ UNCHANGED bucket
       \/ /\ Cardinality(Remembered(now)) < Cap
          /\ b.ticks < Refill[m]
          /\ bucket' = [bucket EXCEPT ![m] = b]
    /\ UNCHANGED log

-----------------------------------------------------------------------------

\* Governor::admit keeps the hourly cap over any admissions of one run of the
\* daemon: Cap + 1 of them, whatever their modes, take an hour or longer.
HourlyCap ==
    \A i \in DOMAIN log :
        i + Cap \in DOMAIN log => log[i + Cap].at - log[i].at >= Hour

\* Governor::admit keeps the rate of each mode: from one admission to another
\* there are no more than a full bucket and what has accrued in between.
ModeRate ==
    \A i, j \in DOMAIN log :
        LET m == log[i].mode IN
        i <= j /\ log[j].mode = m =>
            Cardinality({k \in i .. j : log[k].mode = m})
              <= Capacity[m] + (log[j].at - log[i].at) \div Refill[m]
=============================================================================
