--------------------------- MODULE Critic_proofs ---------------------------
(***************************************************************************)
(* Proofs about Critic and its Governor, for any modes, rates, caps,       *)
(* windows and latencies.  Inv is inductive: the hourly cap follows from   *)
(* the window being complete, which is where the time of an admission and  *)
(* the time of the next one meet; the rate of a mode from what its bucket  *)
(* holds; and the ration of popups from the admission each one came of.    *)
(***************************************************************************)
EXTENDS Critic, FiniteSetTheorems, WellFoundedInduction, TLAPS

USE DEF Never

LEMMA FullType == \A m \in Modes : Full(m) \in Nat
BY GovernorAssumption, SMT DEF Full

-----------------------------------------------------------------------------
(* The governor                                                            *)

LEMMA RefilledType ==
  ASSUME NEW m \in Modes, NEW t \in Nat, NEW b \in [ticks : Nat, last : Nat \cup {Never}],
         b.ticks <= Full(m)
  PROVE  /\ Refilled(b, m, t) \in [ticks : Nat, last : Nat \cup {Never}]
         /\ Refilled(b, m, t).ticks <= Full(m)
<1>1. Full(m) \in Nat
  BY FullType
<1>2. CASE b.last = Never
  BY <1>2 DEF Refilled
<1>3. CASE b.last # Never
  <2>1. Most(t - b.last, 0) \in Nat
    BY <1>3 DEF Most
  <2>2. Least(b.ticks + Most(t - b.last, 0), Full(m)) \in 0 .. Full(m)
    BY <1>1, <2>1 DEF Least
  <2> QED
    BY <1>1, <1>3, <2>2 DEF Refilled
<1> QED
  BY <1>2, <1>3

LEMMA AdmitType ==
  ASSUME GovernorTypeOK, NEW m \in Modes, NEW t \in Nat, Admit(m, t)
  PROVE  GovernorTypeOK'
<1> DEFINE b == Refilled(bucket[m], m, t)
<1>1. b \in [ticks : Nat, last : Nat \cup {Never}] /\ b.ticks <= Full(m)
  BY RefilledType DEF GovernorTypeOK
<1>2. b.ticks >= Refill[m] /\ Refill[m] \in Nat /\ Full(m) \in Nat
  BY GovernorAssumption, FullType DEF Admit
<1>3. bucket' = [bucket EXCEPT ![m] = [b EXCEPT !.ticks = @ - Refill[m]]]
  BY DEF Admit
<1> HIDE DEF b
<1>4. /\ [b EXCEPT !.ticks = @ - Refill[m]] \in [ticks : Nat, last : Nat \cup {Never}]
      /\ [b EXCEPT !.ticks = @ - Refill[m]].ticks <= Full(m)
  BY <1>1, <1>2
<1>5. /\ bucket' \in [Modes -> [ticks : Nat, last : Nat \cup {Never}]]
      /\ \A k \in Modes : bucket'[k].ticks <= Full(k)
  BY <1>3, <1>4 DEF GovernorTypeOK
<1>6. log' \in Seq([mode : Modes, at : Nat]) /\ window' \subseteq DOMAIN log'
  <2>1. /\ log' = Append(log, [mode |-> m, at |-> t])
        /\ window' = Remembered(t) \cup {Len(log) + 1}
    BY DEF Admit
  <2>2. log \in Seq([mode : Modes, at : Nat]) /\ window \subseteq DOMAIN log
    BY DEF GovernorTypeOK
  <2> QED
    BY <2>1, <2>2 DEF Remembered
<1>7. \A k \in Modes : (Full(k))' = Full(k)
  BY DEF Full
<1> QED
  BY <1>5, <1>6 DEF GovernorTypeOK, Full

LEMMA DenyType ==
  ASSUME GovernorTypeOK, NEW m \in Modes, NEW t \in Nat, Deny(m, t)
  PROVE  GovernorTypeOK'
<1> DEFINE b == Refilled(bucket[m], m, t)
<1>1. b \in [ticks : Nat, last : Nat \cup {Never}] /\ b.ticks <= Full(m)
  BY RefilledType DEF GovernorTypeOK
<1>2. bucket' = bucket \/ bucket' = [bucket EXCEPT ![m] = b]
  BY DEF Deny
<1> HIDE DEF b
<1>3. /\ bucket' \in [Modes -> [ticks : Nat, last : Nat \cup {Never}]]
      /\ \A k \in Modes : bucket'[k].ticks <= Full(k)
  BY <1>1, <1>2 DEF GovernorTypeOK
<1>4. log' \in Seq([mode : Modes, at : Nat]) /\ window' \subseteq DOMAIN log'
  BY DEF Deny, GovernorTypeOK, Remembered
<1> QED
  BY <1>3, <1>4 DEF GovernorTypeOK, Full

LEMMA LogType ==
  ASSUME NEW s \in Seq([mode : Modes, at : Nat])
  PROVE  /\ Len(s) \in Nat /\ DOMAIN s = 1 .. Len(s)
         /\ \A i \in 1 .. Len(s) : s[i].at \in Nat
<1> DEFINE R == [mode : Modes, at : Nat]
<1>1. Len(s) \in Nat /\ DOMAIN s = 1 .. Len(s)
  OBVIOUS
<1>2. \A i \in 1 .. Len(s) : s[i] \in R
  <2> HIDE DEF R
  <2>1. s \in Seq(R)
    BY DEF R
  <2> QED
    BY <1>1, <2>1
<1> QED
  BY <1>1, <1>2

(* What is not in the window any more is an hour old at t, and t is not    *)
(* before any admission.                                                   *)
CompleteAt(t) ==
    /\ \A i, j \in DOMAIN log : i <= j => log[i].at <= log[j].at
    /\ \A i \in DOMAIN log : log[i].at <= t
    /\ \A i \in DOMAIN log \ window : log[i].at + Hour <= t

(* Governor::admit keeps the cap: were the admission Cap places back less  *)
(* than an hour old, it and all after it would be remembered, Cap of them. *)
LEMMA AdmitKeepsCap ==
  ASSUME GovernorTypeOK, HourlyCap, NEW m \in Modes, NEW t \in Nat, CompleteAt(t), Admit(m, t)
  PROVE  HourlyCap' /\ CompleteAt(t)'
<1> DEFINE n == Len(log)
<1>1. /\ log \in Seq([mode : Modes, at : Nat]) /\ window \subseteq DOMAIN log
      /\ n \in Nat /\ DOMAIN log = 1 .. n
      /\ \A i \in 1 .. n : log[i].at \in Nat
  BY LogType DEF GovernorTypeOK
<1>2. Hour \in Nat \ {0} /\ Cap \in Nat \ {0}
  BY GovernorAssumption
<1>3. /\ log' = Append(log, [mode |-> m, at |-> t])
      /\ window' = Remembered(t) \cup {n + 1}
      /\ Cardinality(Remembered(t)) < Cap
  BY DEF Admit
<1>4. /\ DOMAIN log' = 1 .. (n + 1)
      /\ \A i \in 1 .. n : log'[i] = log[i]
      /\ log'[n + 1].at = t
  BY <1>1, <1>3
<1>5. CompleteAt(t)'
  <2>1. \A i, j \in DOMAIN log' : i <= j => log'[i].at <= log'[j].at
    BY <1>1, <1>4 DEF CompleteAt
  <2>2. \A i \in DOMAIN log' : log'[i].at <= t
    BY <1>1, <1>4 DEF CompleteAt
  <2>3. \A i \in DOMAIN log' \ window' : log'[i].at + Hour <= t
    BY <1>1, <1>2, <1>3, <1>4 DEF CompleteAt, Remembered
  <2> QED
    BY <2>1, <2>2, <2>3 DEF CompleteAt
<1> HIDE DEF n
<1>6. ASSUME n + 1 - Cap >= 1
      PROVE  t - log[n + 1 - Cap].at >= Hour
  <2> DEFINE k == n + 1 - Cap
  <2>1. k \in 1 .. n
    BY <1>1, <1>2, <1>6
  <2>2. SUFFICES ASSUME log[k].at > t - Hour PROVE FALSE
    BY <1>1, <1>2, <2>1
  <2>3. \A i \in k .. n : log[i].at > t - Hour
    BY <1>1, <1>2, <2>1, <2>2 DEF CompleteAt
  <2>4. k .. n \subseteq Remembered(t)
    BY <1>1, <1>2, <2>1, <2>3 DEF CompleteAt, Remembered
  <2>5. IsFiniteSet(Remembered(t))
    <3>1. Remembered(t) \in SUBSET (1 .. n)
      BY <1>1 DEF Remembered
    <3>2. IsFiniteSet(1 .. n)
      <4>1. 1 \in Int /\ n \in Int
        BY <1>1
      <4> QED
        BY <4>1, FS_Interval
    <3> QED
      BY <3>1, <3>2, FS_Subset
  <2>6. Cardinality(k .. n) = Cap
    BY <1>1, <1>2, <2>1, FS_Interval
  <2>7. Cardinality(k .. n) <= Cardinality(Remembered(t))
    BY <2>4, <2>5, FS_Subset
  <2>8. Cardinality(Remembered(t)) \in Nat
    BY <2>5, FS_CardinalityType
  <2> QED
    BY <1>2, <1>3, <2>6, <2>7, <2>8
<1>7. HourlyCap'
  <2> SUFFICES ASSUME NEW i \in 1 .. (n + 1), i + Cap \in 1 .. (n + 1)
               PROVE  log'[i + Cap].at - log'[i].at >= Hour
    BY <1>4 DEF HourlyCap
  <2>1. CASE i + Cap <= n
    <3>1. i \in 1 .. n /\ i + Cap \in 1 .. n
      BY <1>1, <1>2, <2>1
    <3>2. log[i + Cap].at - log[i].at >= Hour
      BY <1>1, <3>1 DEF HourlyCap
    <3> QED
      BY <1>4, <3>1, <3>2
  <2>2. CASE i + Cap = n + 1
    <3>1. i = n + 1 - Cap /\ i \in 1 .. n
      BY <1>1, <1>2, <2>2
    <3>2. t - log[i].at >= Hour
      BY <1>6, <3>1
    <3> QED
      BY <1>4, <2>2, <3>1, <3>2
  <2> QED
    BY <1>1, <1>2, <2>1, <2>2
<1> QED
  BY <1>5, <1>7

LEMMA DenyKeepsCap ==
  ASSUME GovernorTypeOK, HourlyCap, NEW m \in Modes, NEW t \in Nat, CompleteAt(t), Deny(m, t)
  PROVE  HourlyCap' /\ CompleteAt(t)'
<1>1. /\ log' = log /\ window' = Remembered(t)
      /\ \A i \in DOMAIN log : log[i].at \in Nat
      /\ Hour \in Nat
  BY GovernorAssumption, LogType DEF Deny, GovernorTypeOK
<1>2. HourlyCap'
  BY <1>1 DEF HourlyCap
<1>3. CompleteAt(t)'
  BY <1>1 DEF CompleteAt, Remembered
<1> QED
  BY <1>2, <1>3
(* The rate of a mode: what was admitted since an admission, and what the  *)
(* bucket still holds, is at most a full bucket and what accrued since.    *)
CountIn(s, m, i, j) == Cardinality({k \in i .. j : s[k].mode = m})

BucketsAt(t) ==
    \A m \in Modes :
        /\ bucket[m].last <= t
        /\ \A i \in DOMAIN log : log[i].mode = m =>
              /\ log[i].at <= bucket[m].last
              /\ CountIn(log, m, i, Len(log)) * Refill[m] + bucket[m].ticks
                   <= Full(m) + (bucket[m].last - log[i].at)

RateInv ==
    \A i, j \in DOMAIN log :
        i <= j /\ log[j].mode = log[i].mode =>
            CountIn(log, log[i].mode, i, j) * Refill[log[i].mode]
              <= Full(log[i].mode) + (log[j].at - log[i].at)

LEMMA ElementType == ASSUME NEW S, NEW s \in Seq(S), NEW i \in 1 .. Len(s) PROVE s[i] \in S
OBVIOUS

LEMMA CountType ==
  ASSUME NEW s, NEW m, NEW i \in Int, NEW j \in Int
  PROVE  IsFiniteSet({k \in i .. j : s[k].mode = m}) /\ CountIn(s, m, i, j) \in Nat
<1>1. IsFiniteSet(i .. j)
  BY FS_Interval
<1>2. IsFiniteSet({k \in i .. j : s[k].mode = m})
  BY <1>1, FS_Subset
<1> QED
  BY <1>2, FS_CardinalityType DEF CountIn

LEMMA CountAppend ==
  ASSUME NEW s \in Seq([mode : Modes, at : Nat]), NEW e \in [mode : Modes, at : Nat],
         NEW m \in Modes, NEW i \in 1 .. Len(s) + 1
  PROVE  /\ \A j \in 1 .. Len(s) : CountIn(Append(s, e), m, i, j) = CountIn(s, m, i, j)
         /\ e.mode = m => CountIn(Append(s, e), m, i, Len(s) + 1) = CountIn(s, m, i, Len(s)) + 1
         /\ e.mode # m => CountIn(Append(s, e), m, i, Len(s) + 1) = CountIn(s, m, i, Len(s))
         /\ i = Len(s) + 1 => CountIn(s, m, i, Len(s)) = 0
<1> DEFINE n == Len(s)
           t == Append(s, e)
           T(q, j) == {k \in i .. j : q[k].mode = m}
<1>1. n \in Nat /\ t[n + 1] = e /\ \A k \in 1 .. n : t[k] = s[k]
  BY LogType
<1> HIDE DEF n, t
<1>2. \A j \in 1 .. n : T(t, j) = T(s, j)
  BY <1>1, SMTT(30) DEF n
<1>3. e.mode = m => T(t, n + 1) = T(s, n) \cup {n + 1}
  BY <1>1 DEF n
<1>4. e.mode # m => T(t, n + 1) = T(s, n)
  BY <1>1 DEF n
<1>5. i = n + 1 => T(s, n) = {}
  BY <1>1
<1>6. n + 1 \notin T(s, n) /\ IsFiniteSet(T(s, n))
  <2>1. i \in Int /\ n \in Int
    BY <1>1 DEF n
  <2>2. IsFiniteSet(T(s, n))
    BY <2>1, CountType
  <2> QED
    BY <1>1, <2>2
<1>7. Cardinality(T(s, n) \cup {n + 1}) = Cardinality(T(s, n)) + 1
  BY <1>6, FS_AddElement
<1> QED
  BY <1>2, <1>3, <1>4, <1>5, <1>7, FS_EmptySet DEF CountIn, n, t

LEMMA BucketsDepend ==
  ASSUME NEW t, BucketsAt(t), log' = log, bucket' = bucket PROVE BucketsAt(t)'
<1>1. \A k \in Modes : (Full(k))' = Full(k)
  BY DEF Full
<1> QED
  BY <1>1 DEF BucketsAt, CountIn

LEMMA AdmitKeepsRate ==
  ASSUME GovernorTypeOK, NEW m \in Modes, NEW t \in Nat, BucketsAt(t), RateInv, Admit(m, t)
  PROVE  BucketsAt(t)' /\ RateInv'
<1> DEFINE n == Len(log)
           b == Refilled(bucket[m], m, t)
           e == [mode |-> m, at |-> t]
<1>1. /\ log \in Seq([mode : Modes, at : Nat]) /\ n \in Nat /\ DOMAIN log = 1 .. n
      /\ \A i \in 1 .. n : log[i].at \in Nat /\ log[i].mode \in Modes
      /\ e \in [mode : Modes, at : Nat] /\ e.mode = m /\ e.at = t
  <2>1. log \in Seq([mode : Modes, at : Nat]) /\ DOMAIN log = 1 .. Len(log) /\ Len(log) \in Nat
    BY LogType DEF GovernorTypeOK
  <2>2. \A i \in 1 .. Len(log) : log[i] \in [mode : Modes, at : Nat]
    BY <2>1, ElementType
  <2> QED
    BY <2>1, <2>2
<1>2. /\ log' = Append(log, e) /\ Len(log') = n + 1 /\ DOMAIN log' = 1 .. n + 1
      /\ \A i \in 1 .. n : log'[i] = log[i]
      /\ log'[n + 1] = e
  BY <1>1 DEF Admit
<1>3. /\ \A k \in Modes : /\ Refill[k] \in Nat /\ Full(k) \in Nat
                          /\ bucket[k].ticks \in Nat /\ bucket[k].last \in Nat \cup {-1}
      /\ b.ticks \in Nat /\ b.ticks <= Full(m) /\ b.last = t
      /\ bucket[m].last # -1 => b.ticks <= bucket[m].ticks + (t - bucket[m].last)
  <2>1. \A k \in Modes : /\ Refill[k] \in Nat /\ Full(k) \in Nat
                         /\ bucket[k].ticks \in Nat /\ bucket[k].last \in Nat \cup {-1}
    BY GovernorAssumption, FullType DEF GovernorTypeOK
  <2>2. b.ticks \in Nat /\ b.ticks <= Full(m) /\ b.last = t
    BY RefilledType DEF GovernorTypeOK, Refilled
  <2>3. bucket[m].last # -1 => b.ticks <= bucket[m].ticks + (t - bucket[m].last)
    BY <2>1 DEF Refilled, Least, Most, BucketsAt
  <2> QED
    BY <2>1, <2>2, <2>3
<1>4. /\ bucket'[m].ticks = b.ticks - Refill[m] /\ bucket'[m].last = t
      /\ b.ticks >= Refill[m]
      /\ \A k \in Modes : k # m => bucket'[k] = bucket[k]
  <2>1. bucket' = [bucket EXCEPT ![m] = [b EXCEPT !.ticks = @ - Refill[m]]]
    BY DEF Admit
  <2>2. b \in [ticks : Nat, last : Nat \cup {-1}]
    BY RefilledType DEF GovernorTypeOK
  <2> HIDE DEF b
  <2> QED
    BY <1>3, <2>1, <2>2 DEF GovernorTypeOK, Admit, b
<1> HIDE DEF n, b, e
<1>5. \A k \in Modes, i \in 1 .. n + 1 :
        /\ \A j \in 1 .. n : CountIn(log', k, i, j) = CountIn(log, k, i, j)
        /\ k = m => CountIn(log', k, i, n + 1) = CountIn(log, k, i, n) + 1
        /\ k # m => CountIn(log', k, i, n + 1) = CountIn(log, k, i, n)
        /\ i = n + 1 => CountIn(log, k, i, n) = 0
        /\ CountIn(log, k, i, n) \in Nat
  <2> TAKE k \in Modes, i \in 1 .. n + 1
  <2>1. i \in Int /\ n \in Int
    BY <1>1
  <2>2. CountIn(log, k, i, n) \in Nat
    BY <2>1, CountType
  <2>3. i \in 1 .. Len(log) + 1
    BY DEF n
  <2>4. /\ \A j \in 1 .. Len(log) : CountIn(Append(log, e), k, i, j) = CountIn(log, k, i, j)
        /\ e.mode = k => CountIn(Append(log, e), k, i, Len(log) + 1) = CountIn(log, k, i, Len(log)) + 1
        /\ e.mode # k => CountIn(Append(log, e), k, i, Len(log) + 1) = CountIn(log, k, i, Len(log))
        /\ i = Len(log) + 1 => CountIn(log, k, i, Len(log)) = 0
    BY <1>1, <2>3, CountAppend
  <2> QED
    BY <1>1, <1>2, <2>2, <2>4 DEF n
<1>6. ASSUME NEW k \in Modes, NEW i \in 1 .. n + 1, log'[i].mode = k
      PROVE  /\ log'[i].at <= bucket'[k].last
             /\ CountIn(log', k, i, n + 1) * Refill[k] + bucket'[k].ticks
                  <= Full(k) + (bucket'[k].last - log'[i].at)
  <2>1. CASE i = n + 1
    <3>1. k = m /\ CountIn(log', k, i, n + 1) = 1
      BY <1>1, <1>2, <1>5, <1>6, <2>1
    <3> QED
      BY <1>1, <1>2, <1>3, <1>4, <2>1, <3>1
  <2>2. CASE i # n + 1 /\ k = m
    <3>1. i \in 1 .. n /\ log'[i] = log[i] /\ log[i].at \in Nat
      BY <1>1, <1>2, <2>2
    <3>2. /\ log[i].at <= bucket[k].last /\ bucket[k].last <= t
          /\ CountIn(log, k, i, n) * Refill[k] + bucket[k].ticks
               <= Full(k) + (bucket[k].last - log[i].at)
      BY <1>1, <1>6, <2>2, <3>1 DEF BucketsAt, n
    <3>3. bucket[k].last # -1
      BY <1>3, <3>1, <3>2
    <3> DEFINE C == CountIn(log, k, i, n)
    <3>4. C \in Nat /\ CountIn(log', k, i, n + 1) = C + 1
      BY <1>5, <2>2
    <3>5. (C + 1) * Refill[k] = C * Refill[k] + Refill[k] /\ C * Refill[k] \in Nat
      BY <1>3, <3>4
    <3> HIDE DEF C
    <3>6. C * Refill[k] + bucket[k].ticks <= Full(k) + (bucket[k].last - log[i].at)
      BY <3>2 DEF C
    <3> QED
      BY <1>3, <1>4, <2>2, <3>1, <3>2, <3>3, <3>4, <3>5, <3>6
  <2>3. CASE i # n + 1 /\ k # m
    <3>1. i \in DOMAIN log /\ log'[i] = log[i] /\ bucket'[k] = bucket[k]
          /\ CountIn(log', k, i, n + 1) = CountIn(log, k, i, n)
      BY <1>1, <1>2, <1>4, <1>5, <2>3
    <3>2. /\ log[i].at <= bucket[k].last
          /\ CountIn(log, k, i, Len(log)) * Refill[k] + bucket[k].ticks
               <= Full(k) + (bucket[k].last - log[i].at)
      BY <1>6, <3>1 DEF BucketsAt
    <3> QED
      BY <3>1, <3>2 DEF n
  <2> QED
    BY <2>1, <2>2, <2>3
<1>7. \A k \in Modes : (Full(k))' = Full(k)
  BY DEF Full
<1>8. BucketsAt(t)'
  <2>1. \A k \in Modes : bucket'[k].last <= t
    BY <1>4 DEF BucketsAt
  <2> QED
    BY <1>2, <1>6, <1>7, <2>1 DEF BucketsAt
<1>9. RateInv'
  <2> SUFFICES ASSUME NEW i \in 1 .. n + 1, NEW j \in 1 .. n + 1, i <= j,
                      log'[j].mode = log'[i].mode
               PROVE  CountIn(log', log'[i].mode, i, j) * Refill[log'[i].mode]
                        <= Full(log'[i].mode) + (log'[j].at - log'[i].at)
    BY <1>2, <1>7 DEF RateInv, Full
  <2>1. CASE j = n + 1
    <3> DEFINE C == CountIn(log', m, i, n + 1) * Refill[m]
    <3>1. log'[i].mode = m /\ log'[j].at = t /\ log'[i].at \in Nat
      BY <1>1, <1>2, <2>1
    <3>2. C + bucket'[m].ticks <= Full(m) + (t - log'[i].at) /\ bucket'[m].ticks \in Nat
      BY <1>3, <1>4, <1>6, <3>1
    <3>3. C \in Nat
      <4>1. i \in Int /\ n + 1 \in Int
        BY <1>1
      <4>2. CountIn(log', m, i, n + 1) \in Nat /\ Refill[m] \in Nat
        BY <1>3, <4>1, CountType
      <4> QED
        BY <4>2
    <3> HIDE DEF C
    <3>4. C <= Full(m) + (t - log'[i].at)
      BY <1>3, <3>1, <3>2, <3>3
    <3> QED
      BY <2>1, <3>1, <3>4 DEF C
  <2>2. CASE j # n + 1
    <3>1. i \in 1 .. n /\ j \in 1 .. n /\ log'[i] = log[i] /\ log'[j] = log[j]
          /\ log[i].mode \in Modes
      BY <1>1, <1>2, <2>2
    <3> DEFINE k == log[i].mode
    <3>2. CountIn(log, k, i, j) * Refill[k] <= Full(k) + (log[j].at - log[i].at)
      BY <1>1, <3>1 DEF RateInv
    <3>3. CountIn(log', k, i, j) = CountIn(log, k, i, j)
      BY <1>5, <3>1
    <3> QED
      BY <3>1, <3>2, <3>3
  <2> QED
    BY <2>1, <2>2
<1> QED
  BY <1>8, <1>9

LEMMA DenyKeepsRate ==
  ASSUME GovernorTypeOK, NEW m \in Modes, NEW t \in Nat, BucketsAt(t), RateInv, Deny(m, t)
  PROVE  BucketsAt(t)' /\ RateInv'
<1> DEFINE b == Refilled(bucket[m], m, t)
<1>1. log' = log /\ (bucket' = bucket \/ bucket' = [bucket EXCEPT ![m] = b])
      /\ \A k \in Modes : (Full(k))' = Full(k)
  BY DEF Deny, Full
<1>2. RateInv'
  BY <1>1 DEF RateInv, Full
<1>3. /\ \A k \in Modes : /\ Refill[k] \in Nat /\ Full(k) \in Nat
                          /\ bucket[k].ticks \in Nat /\ bucket[k].last \in Nat \cup {-1}
      /\ \A i \in DOMAIN log : log[i].at \in Nat
      /\ b.ticks \in Nat /\ b.last = t
  BY GovernorAssumption, FullType, LogType, RefilledType DEF GovernorTypeOK, Refilled
<1>4. bucket[m].last # -1 => b.ticks <= bucket[m].ticks + (t - bucket[m].last)
  BY <1>3 DEF Refilled, Least, Most, BucketsAt
<1>5. \A k \in Modes, i \in DOMAIN log : CountIn(log, k, i, Len(log)) * Refill[k] \in Nat
  <2>1. \A i \in DOMAIN log : i \in Int /\ Len(log) \in Int
    BY LogType DEF GovernorTypeOK
  <2>2. \A k \in Modes, i \in DOMAIN log : CountIn(log, k, i, Len(log)) \in Nat
    BY <2>1, CountType
  <2>3. \A a, c \in Nat : a * c \in Nat
    OBVIOUS
  <2> QED
    BY <1>3, <2>2, <2>3
<1> HIDE DEF b
<1>6. CASE bucket' = bucket
  <2>1. log' = log /\ bucket' = bucket
    BY <1>1, <1>6
  <2> QED
    BY <2>1, BucketsDepend, <1>2
<1>7. CASE bucket' = [bucket EXCEPT ![m] = b]
  <2>1. bucket'[m] = b /\ \A k \in Modes : k # m => bucket'[k] = bucket[k]
    BY <1>7 DEF GovernorTypeOK
  <2>2. ASSUME NEW i \in DOMAIN log, log[i].mode = m
        PROVE  /\ log[i].at <= t
               /\ CountIn(log, m, i, Len(log)) * Refill[m] + b.ticks <= Full(m) + (t - log[i].at)
    <3> DEFINE C == CountIn(log, m, i, Len(log)) * Refill[m]
    <3>1. /\ log[i].at <= bucket[m].last /\ bucket[m].last <= t
          /\ C + bucket[m].ticks <= Full(m) + (bucket[m].last - log[i].at)
          /\ C \in Nat
      BY <1>5, <2>2 DEF BucketsAt
    <3> HIDE DEF C
    <3>2. C + b.ticks <= Full(m) + (t - log[i].at) /\ log[i].at <= t
      BY <1>3, <1>4, <3>1
    <3> QED
      BY <3>2 DEF C
  <2>3. \A k \in Modes : bucket'[k].last <= t
    BY <1>3, <2>1 DEF BucketsAt
  <2>4. ASSUME NEW k \in Modes, NEW i \in DOMAIN log', log'[i].mode = k
        PROVE  /\ log'[i].at <= bucket'[k].last
               /\ CountIn(log', k, i, Len(log')) * Refill[k] + bucket'[k].ticks
                     <= Full(k) + (bucket'[k].last - log'[i].at)
    <3>1. log' = log /\ i \in DOMAIN log /\ log[i].mode = k
      BY <1>1, <2>4
    <3>2. CASE k = m
      <4>1. /\ log[i].at <= t
            /\ CountIn(log, m, i, Len(log)) * Refill[m] + b.ticks <= Full(m) + (t - log[i].at)
        BY <2>2, <3>1, <3>2
      <4>2. bucket'[k].last = t /\ bucket'[k].ticks = b.ticks
        BY <1>3, <2>1, <3>2
      <4>3. CountIn(log', k, i, Len(log')) = CountIn(log, m, i, Len(log))
        BY <3>1, <3>2
      <4> QED
        BY <3>1, <3>2, <4>1, <4>2, <4>3
    <3>3. CASE k # m
      <4>1. bucket'[k] = bucket[k] /\ CountIn(log', k, i, Len(log')) = CountIn(log, k, i, Len(log))
        BY <2>1, <3>1, <3>3
      <4>2. /\ log[i].at <= bucket[k].last
            /\ CountIn(log, k, i, Len(log)) * Refill[k] + bucket[k].ticks
                 <= Full(k) + (bucket[k].last - log[i].at)
        BY <3>1 DEF BucketsAt
      <4> QED
        BY <3>1, <4>1, <4>2
    <3> QED
      BY <3>2, <3>3
  <2>5. BucketsAt(t)'
    BY <1>1, <2>3, <2>4 DEF BucketsAt
  <2> QED
    BY <1>2, <2>5
<1> QED
  BY <1>1, <1>2, <1>6, <1>7

-----------------------------------------------------------------------------
(* The critic                                                              *)

LEMMA ConstantsType ==
  /\ Mode \in Modes
  /\ {SignalWindow, DigestWindow, Day, MaxTime, MaxTroubles} \subseteq Nat
  /\ Citations \subseteq Evidence
  /\ "absent" \notin Statuses
BY CriticAssumption DEF Evidence, Statuses

LEMMA NothingType == Nothing \in Evidence
BY DEF Nothing, Evidence

LEMMA ValidType ==
  ASSUME TypeOK, NEW e \in Citations
  PROVE  /\ Valid(e) \in Evidence
         /\ Cited(Valid(e)) \subseteq loop.digest
         /\ Valid(e) # Nothing => Cited(Valid(e)) # {}
<1>1. e \in [Observations \cup Fabricated -> Nat]
  BY ConstantsType DEF Evidence
<1>2. DOMAIN Valid(e) = Observations \cup Fabricated
  BY <1>1 DEF Valid
<1>3. \A i \in Observations \cup Fabricated :
        Valid(e)[i] = IF i \in loop.digest THEN e[i] ELSE 0
  BY <1>1 DEF Valid
<1>4. Valid(e) \in Evidence
  BY <1>1 DEF Valid, Evidence
<1>5. Cited(Valid(e)) \subseteq loop.digest
  BY <1>2, <1>3 DEF Cited
<1>6. ASSUME Cited(Valid(e)) = {} PROVE Valid(e) = Nothing
  <2>1. \A i \in Observations \cup Fabricated : Valid(e)[i] = 0
    BY <1>1, <1>2, <1>3, <1>6 DEF Cited
  <2> QED
    BY <1>2, <1>4, <2>1 DEF Nothing, Evidence
<1> QED
  BY <1>4, <1>5, <1>6

LEMMA InitInv == Init => Inv
<1> SUFFICES ASSUME Init PROVE Inv
  OBVIOUS
<1>1. GovernorTypeOK
  BY FullType DEF Init, GovernorInit, GovernorTypeOK
<1>2. AbsentRow \in Row
  BY NothingType DEF AbsentRow, Row
<1>3. Rows = {}
  BY DEF Init, Rows, AbsentRow
<1>4. TypeOK
  BY <1>1, <1>2, NothingType, ConstantsType DEF Init, TypeOK, Asleep
<1>5. WindowIsComplete /\ HourlyCap
  BY DEF Init, GovernorInit, WindowIsComplete, HourlyCap
<1>6. LoopInv
  BY <1>3 DEF LoopInv, Init, Asleep, At
<1>7. EvidenceIsDisclosed /\ PopupsAreNotRepeated
  <2>1. sent = {} /\ Popups = {}
    BY <1>3 DEF Init, Popups
  <2> QED
    BY <1>3, <2>1 DEF EvidenceIsDisclosed, PopupsAreNotRepeated
<1> QED
  BY <1>4, <1>5, <1>6, <1>7 DEF Inv

LEMMA Facts ==
  ASSUME Inv
  PROVE  /\ now \in Nat /\ loop.since \in Nat /\ NextAdmission \in Nat
         /\ loop.since <= NextAdmission /\ NextAdmission <= now
         /\ loop.digest \subseteq Observations /\ loop.evidence \in Evidence
         /\ \A p \in Pushbacks : pushback[p] \in Row /\ pushback[p].at \in Nat
         /\ pushback \in [Pushbacks -> Row]
<1>1. now \in Nat /\ loop.since \in Nat
  BY ConstantsType DEF Inv, TypeOK
<1>2. \A p \in Pushbacks : pushback[p] \in Row /\ pushback[p].at \in Nat
  BY DEF Inv, TypeOK, Row
<1> QED
  BY <1>1, <1>2 DEF Inv, TypeOK, LoopInv, NextAdmission

(* A step that leaves the governor alone, and does not put the next        *)
(* admission earlier, keeps what the proofs say of it.                     *)
LEMMA QuietGovernor ==
  ASSUME Inv, UNCHANGED governorVars, NextAdmission' \in Nat, NextAdmission <= NextAdmission'
  PROVE  GovernorTypeOK' /\ WindowIsComplete' /\ HourlyCap'
<1>1. GovernorTypeOK'
  BY DEF Inv, TypeOK, GovernorTypeOK, governorVars, Full
<1>2. HourlyCap'
  BY DEF Inv, HourlyCap, governorVars
<1>3. WindowIsComplete'
  <2>1. log' = log /\ window' = window
    BY DEF governorVars
  <2>2. \A i \in DOMAIN log : log[i].at \in Nat
    BY LogType DEF Inv, TypeOK, GovernorTypeOK
  <2> QED
    BY <2>1, <2>2, Facts, GovernorAssumption DEF Inv, WindowIsComplete
<1> QED
  BY <1>1, <1>2, <1>3

(* A step that adds no row keeps what the proofs say of the rows.          *)
LEMMA SameRows ==
  ASSUME Inv, UNCHANGED pushback, disclosed \subseteq disclosed', lost \subseteq lost',
         (sent \subseteq disclosed \cup lost \cup InFlight)'
  PROVE  Rows' = Rows /\ EvidenceIsDisclosed' /\ PopupsAreNotRepeated'
<1>1. Rows' = Rows /\ Popups' = Popups
  BY DEF Rows, Popups
<1>2. EvidenceIsDisclosed'
  BY <1>1 DEF Inv, EvidenceIsDisclosed
<1>3. PopupsAreNotRepeated'
  BY <1>1 DEF Inv, PopupsAreNotRepeated
<1> QED
  BY <1>1, <1>2, <1>3

LEMMA SameFlight ==
  ASSUME UNCHANGED loop PROVE InFlight' = InFlight
BY DEF InFlight, At

LEMMA ObserveInv ==
  ASSUME Inv, NEW o \in Observations, Observe(o)
  PROVE  Inv'
<1>1. UNCHANGED <<now, pushback, disclosed, loop, sent, lost, crashes, faults, governorVars>>
  BY DEF Observe, failureVars
<1>2. NextAdmission' = NextAdmission
  BY <1>1 DEF NextAdmission, At
<1>3. GovernorTypeOK' /\ WindowIsComplete' /\ HourlyCap'
  BY <1>1, <1>2, QuietGovernor, Facts
<1>4. Rows' = Rows /\ EvidenceIsDisclosed' /\ PopupsAreNotRepeated'
  BY <1>1, SameRows, SameFlight DEF Inv, EvidenceIsDisclosed
<1>5. TypeOK'
  BY <1>1, <1>3, Facts DEF Inv, TypeOK, Observe
<1>6. LoopInv'
  BY <1>1, <1>4 DEF Inv, LoopInv, At
<1> QED
  BY <1>3, <1>4, <1>5, <1>6 DEF Inv

LEMMA TickInv ==
  ASSUME Inv, Tick
  PROVE  Inv'
<1>1. /\ UNCHANGED <<seen, pushback, disclosed, loop, sent, lost, crashes, faults, governorVars>>
      /\ now' = now + 1 /\ now < MaxTime
  BY DEF Tick, failureVars
<1>2. now' \in 0 .. MaxTime /\ now <= now' /\ now' \in Nat
  BY <1>1, Facts, ConstantsType
<1>3. NextAdmission <= NextAdmission' /\ NextAdmission' \in Nat
  BY <1>1, <1>2, Facts DEF NextAdmission, At
<1>4. GovernorTypeOK' /\ WindowIsComplete' /\ HourlyCap'
  BY <1>1, <1>3, QuietGovernor
<1>5. Rows' = Rows /\ EvidenceIsDisclosed' /\ PopupsAreNotRepeated'
  BY <1>1, SameRows, SameFlight DEF Inv, EvidenceIsDisclosed
<1>6. TypeOK'
  BY <1>1, <1>2, <1>4 DEF Inv, TypeOK
<1>7. LoopInv'
  <2>1. \A p \in Rows : pushback[p].at \in Nat
    BY Facts DEF Rows
  <2> QED
    BY <1>1, <1>2, <1>5, <2>1, Facts DEF Inv, LoopInv, At
<1> QED
  BY <1>4, <1>5, <1>6, <1>7 DEF Inv

(* A step that only moves the loop on, or puts it back to sleep.           *)
LEMMA LoopStepInv ==
  ASSUME Inv, UNCHANGED <<now, seen, pushback, crashes, governorVars>>,
         disclosed \subseteq disclosed', disclosed' \subseteq Observations,
         lost \subseteq lost', lost' \subseteq Observations,
         sent' \subseteq Observations, faults' \in 0 .. MaxTroubles,
         (sent \subseteq disclosed \cup lost \cup InFlight)',
         loop' \in [pc : {"asleep", "woken", "asked", "answered", "show", "blind"}, since : Nat,
                   digest : SUBSET Observations, evidence : Evidence],
         loop'.since <= now,
         loop'.pc = "asked" => loop'.since = now,
         loop'.pc = "answered" => /\ loop.pc = "asked" /\ loop'.since = loop.since
                                  /\ loop'.digest \subseteq disclosed' \cup lost',
         loop'.pc \in {"show", "blind"} =>
            loop.pc = "admitted" /\ loop'.since = loop.since /\ loop'.evidence = loop.evidence,
         loop'.pc = "show" => ~ IsDupe
  PROVE  Inv'
<1>1. NextAdmission <= NextAdmission' /\ NextAdmission' \in Nat
  BY Facts DEF NextAdmission
<1>2. GovernorTypeOK' /\ WindowIsComplete' /\ HourlyCap'
  BY <1>1, QuietGovernor
<1>3. Rows' = Rows /\ EvidenceIsDisclosed' /\ PopupsAreNotRepeated'
  BY SameRows
<1>4. TypeOK'
  BY <1>2 DEF Inv, TypeOK
<1>5. LoopInv'
  <2>1. ~ IsDupe => \A p \in Rows : pushback[p].evidence = loop.evidence =>
                                     pushback[p].at + Day < loop.since
    BY Facts, ConstantsType DEF IsDupe, Rows
  <2>2. (loop.since <= now /\ \A p \in Rows : pushback[p].at <= now)'
    BY <1>3 DEF Inv, LoopInv
  <2>3. (At("answered") => loop.digest \subseteq disclosed \cup lost)'
    BY DEF At
  <2>4. (loop.pc \in {"admitted", "show", "blind", "queue"} =>
           Cited(loop.evidence) # {} /\ Cited(loop.evidence) \subseteq disclosed \cup lost)'
    <3>1. CASE loop'.pc \in {"show", "blind"}
      BY <3>1 DEF Inv, LoopInv
    <3>2. CASE loop'.pc \in {"asleep", "woken", "asked", "answered"}
      BY <3>2
    <3> QED
      BY <3>1, <3>2
  <2>5. (At("show") => \A p \in Rows : pushback[p].evidence = loop.evidence =>
                                         pushback[p].at + Day < loop.since)'
    BY <1>3, <2>1 DEF At
  <2> QED
    BY <2>2, <2>3, <2>4, <2>5 DEF LoopInv
<1> QED
  BY <1>2, <1>3, <1>4, <1>5 DEF Inv

LEMMA LoopType ==
  ASSUME Inv
  PROVE  /\ loop \in [pc : {"asleep", "woken", "asked", "answered", "admitted", "show", "blind", "queue"},
                      since : Nat, digest : SUBSET Observations, evidence : Evidence]
         /\ disclosed \subseteq Observations /\ sent \subseteq Observations
         /\ lost \subseteq Observations /\ faults \in 0 .. MaxTroubles /\ crashes \in Nat
         /\ sent \subseteq disclosed \cup lost \cup InFlight
         /\ loop.since <= now /\ MaxTroubles \in Nat
BY ConstantsType DEF Inv, TypeOK, EvidenceIsDisclosed, LoopInv

(* The record of loop \in [...], with the loop asleep.                     *)
LEMMA AsleepType ==
  /\ Asleep \in [pc : {"asleep"}, since : Nat, digest : SUBSET Observations, evidence : Evidence]
  /\ Asleep.since = 0
BY NothingType DEF Asleep

LEMMA FastTickInv ==
  ASSUME Inv, FastTick
  PROVE  Inv'
<1>1. /\ UNCHANGED <<now, seen, pushback, disclosed, sent, lost, crashes, faults, governorVars>>
      /\ loop' = [loop EXCEPT !.pc = "woken"] /\ loop.pc = "asleep"
  BY DEF FastTick, failureVars, At
<1>2. /\ loop' \in [pc : {"woken"}, since : Nat, digest : SUBSET Observations, evidence : Evidence]
      /\ loop'.since = loop.since /\ loop'.pc = "woken"
  BY <1>1, LoopType
<1>3. InFlight' = InFlight
  BY <1>1, <1>2 DEF InFlight, At
<1> QED
  BY <1>1, <1>2, <1>3, LoopType, LoopStepInv

LEMMA AskInv ==
  ASSUME Inv, Ask
  PROVE  Inv'
<1>1. /\ UNCHANGED <<now, seen, pushback, disclosed, lost, crashes, faults, governorVars>>
      /\ loop' = [loop EXCEPT !.pc = "asked", !.since = now, !.digest = Recent(DigestWindow)]
      /\ sent' = sent \cup Recent(DigestWindow) /\ loop.pc = "woken"
  BY DEF Ask, At
<1>2. Recent(DigestWindow) \in SUBSET Observations
  BY DEF Recent
<1>3. loop' = [pc |-> "asked", since |-> now, digest |-> Recent(DigestWindow),
               evidence |-> loop.evidence]
  BY <1>1, LoopType
<1>4. /\ loop' \in [pc : {"asked"}, since : Nat, digest : SUBSET Observations, evidence : Evidence]
      /\ loop'.since = now /\ loop'.pc = "asked" /\ loop'.digest = Recent(DigestWindow)
  BY <1>2, <1>3, LoopType, Facts
<1>5. InFlight' = Recent(DigestWindow) /\ InFlight = {}
  BY <1>1, <1>4 DEF InFlight, At
<1>6. (sent \subseteq disclosed \cup lost \cup InFlight)'
  BY <1>1, <1>5, LoopType
<1> QED
  BY <1>1, <1>2, <1>4, <1>6, LoopType, LoopStepInv, Facts

LEMMA DiscloseInv ==
  ASSUME Inv, Disclose \/ DiscloseFails
  PROVE  Inv'
<1>1. /\ UNCHANGED <<now, seen, pushback, sent, crashes, governorVars>> /\ loop.pc = "asked"
      /\ loop' = [loop EXCEPT !.pc = "answered"]
      /\ disclosed \subseteq disclosed' /\ disclosed' \subseteq Observations
      /\ lost \subseteq lost' /\ lost' \subseteq Observations
      /\ disclosed' \cup lost' = disclosed \cup lost \cup loop.digest
      /\ faults' \in 0 .. MaxTroubles
  <2>1. loop.digest \subseteq Observations
    BY Facts
  <2>2. CASE Disclose
    BY <2>1, <2>2, LoopType DEF Disclose, failureVars, At
  <2>3. CASE DiscloseFails
    BY <2>1, <2>3, LoopType DEF DiscloseFails, StoreFails, At
  <2> QED
    BY <2>2, <2>3
<1>2. /\ loop' \in [pc : {"answered"}, since : Nat, digest : SUBSET Observations, evidence : Evidence]
      /\ loop'.since = loop.since /\ loop'.pc = "answered" /\ loop'.digest = loop.digest
  BY <1>1, LoopType
<1>3. InFlight = loop.digest /\ InFlight' = {}
  BY <1>1, <1>2 DEF InFlight, At
<1>4. (sent \subseteq disclosed \cup lost \cup InFlight)'
  BY <1>1, <1>3, LoopType
<1> QED
  BY <1>1, <1>2, <1>4, LoopType, LoopStepInv

LEMMA GiveUpInv ==
  ASSUME Inv, GiveUp
  PROVE  Inv'
<1>1. /\ UNCHANGED <<now, seen, pushback, disclosed, sent, lost, crashes, governorVars>>
      /\ loop' = Asleep /\ loop.pc # "asked" /\ faults' \in 0 .. MaxTroubles
  BY LoopType DEF GiveUp, StoreFails
<1>2. loop'.pc = "asleep"
  BY <1>1 DEF Asleep
<1>3. InFlight' = InFlight
  BY <1>1, <1>2 DEF InFlight, At
<1> QED
  BY <1>1, <1>2, <1>3, AsleepType, LoopType, LoopStepInv, Facts

(* A step that ends a question: with the governor as AskGovernor leaves it *)
(* or alone, and the loop asleep, or holding evidence that is disclosed.   *)
LEMMA AnswerInv ==
  ASSUME Inv, Answered, NEW e \in Citations,
         GovernorTypeOK', WindowIsComplete', HourlyCap',
         \/ loop' = Asleep
         \/ /\ Valid(e) # Nothing
            /\ \E step \in {"queue", "admitted"} :
                 loop' = [loop EXCEPT !.pc = step, !.evidence = Valid(e)]
  PROVE  Inv'
<1>1. /\ UNCHANGED <<now, seen, pushback, disclosed, sent, lost, crashes, faults>>
      /\ loop.pc = "answered" /\ loop.digest \subseteq disclosed \cup lost
  BY DEF Answered, failureVars, At, Inv, LoopInv
<1>2. Rows' = Rows /\ EvidenceIsDisclosed' /\ PopupsAreNotRepeated'
  <2>1. loop'.pc # "asked"
    BY LoopType, AsleepType
  <2>2. InFlight' = InFlight
    BY <1>1, <2>1 DEF InFlight, At
  <2> QED
    BY <1>1, <2>2, SameRows, LoopType
<1>3. CASE loop' = Asleep
  <2>1. loop' \in [pc : {"asleep"}, since : Nat, digest : SUBSET Observations,
                   evidence : Evidence]
        /\ loop'.since <= now
    BY <1>3, NothingType, Facts DEF Asleep
  <2>2. TypeOK'
    BY <1>1, <2>1, Facts DEF Inv, TypeOK
  <2>3. LoopInv'
    BY <1>1, <1>2, <2>1 DEF Inv, LoopInv, At
  <2> QED
    BY <1>2, <2>2, <2>3 DEF Inv
<1>4. ASSUME Valid(e) # Nothing, NEW step \in {"queue", "admitted"},
             loop' = [loop EXCEPT !.pc = step, !.evidence = Valid(e)]
      PROVE  Inv'
  <2>1. /\ Valid(e) \in Evidence /\ Cited(Valid(e)) # {}
        /\ Cited(Valid(e)) \subseteq disclosed' \cup lost'
    BY <1>1, <1>4, ValidType DEF Inv
  <2>2. loop' \in [pc : {"queue", "admitted"}, since : Nat, digest : SUBSET Observations,
                   evidence : Evidence]
        /\ loop'.since = loop.since /\ loop'.evidence = Valid(e)
    BY <1>4, <2>1, Facts DEF Inv, TypeOK
  <2>3. TypeOK'
    BY <1>1, <2>2, Facts DEF Inv, TypeOK
  <2>4. LoopInv'
    BY <1>1, <1>2, <2>1, <2>2 DEF Inv, LoopInv, At
  <2> QED
    BY <1>2, <2>3, <2>4 DEF Inv
<1> QED
  BY <1>3, <1>4

(* The governor is asked with loop.since, which no admission is later than *)
(* and after which nothing was forgotten.                                  *)
LEMMA AskGovernorInv ==
  ASSUME Inv, NEW e \in Citations, AskGovernor(e)
  PROVE  Inv'
<1>1. PICK t \in Nat : t = loop.since
  BY Facts
<1>2. /\ Answered /\ Valid(e) # Nothing /\ NextAdmission = t /\ now' = now
      /\ At("answered")
  BY <1>1 DEF AskGovernor, Answered, NextAdmission, At
<1>3. CompleteAt(t)
  BY <1>2 DEF Inv, WindowIsComplete, CompleteAt
<1>4. \/ /\ Admit(Mode, t)
         /\ loop' = [loop EXCEPT !.pc = "admitted", !.evidence = Valid(e)]
      \/ /\ Deny(Mode, t)
         /\ loop' = [loop EXCEPT !.pc = "queue", !.evidence = Valid(e)]
  BY <1>1 DEF AskGovernor
<1>5. GovernorTypeOK' /\ HourlyCap' /\ CompleteAt(t)'
  BY <1>3, <1>4, AdmitType, DenyType, AdmitKeepsCap, DenyKeepsCap, ConstantsType
     DEF Inv, TypeOK
<1>6. NextAdmission' = now
  <2>1. loop'.pc \notin {"asked", "answered"}
    BY <1>4 DEF Inv, TypeOK
  <2> QED
    BY <1>2, <2>1 DEF NextAdmission, At
<1>7. WindowIsComplete'
  <2>1. \A i \in DOMAIN log' : log'[i].at \in Nat
    BY <1>5, LogType DEF GovernorTypeOK
  <2> QED
    BY <1>1, <1>5, <1>6, <2>1, Facts, GovernorAssumption DEF WindowIsComplete, CompleteAt
<1> QED
  BY <1>2, <1>4, <1>5, <1>7, AnswerInv

LEMMA DropDoubtInv ==
  ASSUME Inv, NEW e \in Citations, Drop(e) \/ Doubt(e)
  PROVE  Inv'
<1>1. /\ Answered /\ UNCHANGED governorVars /\ now' = now
      /\ \/ loop' = Asleep
         \/ /\ Valid(e) # Nothing
            /\ loop' = [loop EXCEPT !.pc = "queue", !.evidence = Valid(e)]
  BY DEF Drop, Doubt, Answered
<1>2. loop'.pc \notin {"asked", "answered"}
  <2>1. CASE loop' = Asleep
    BY <2>1 DEF Asleep
  <2>2. CASE loop' = [loop EXCEPT !.pc = "queue", !.evidence = Valid(e)]
    BY <2>2 DEF Inv, TypeOK
  <2> QED
    BY <1>1, <2>1, <2>2
<1>3. NextAdmission <= NextAdmission' /\ NextAdmission' \in Nat
  BY <1>1, <1>2, Facts DEF NextAdmission, At
<1>4. GovernorTypeOK' /\ WindowIsComplete' /\ HourlyCap'
  BY <1>1, <1>3, QuietGovernor
<1> QED
  BY <1>1, <1>4, AnswerInv

LEMMA DedupeInv ==
  ASSUME Inv, Dedupe \/ DedupeUnread
  PROVE  Inv'
<1>1. /\ UNCHANGED <<now, seen, pushback, disclosed, sent, lost, crashes, governorVars>>
      /\ faults' \in 0 .. MaxTroubles /\ loop.pc = "admitted"
      /\ \/ loop' = Asleep
         \/ \E step \in {"show", "blind"} :
              loop' = [loop EXCEPT !.pc = step] /\ (step = "show" => ~ IsDupe)
  <2>1. CASE Dedupe
    BY <2>1, LoopType DEF Dedupe, failureVars, At
  <2>2. CASE DedupeUnread
    BY <2>2, LoopType DEF DedupeUnread, StoreFails, At
  <2> QED
    BY <2>1, <2>2
<1>2. CASE loop' = Asleep
  <2>1. loop'.pc = "asleep"
    BY <1>2 DEF Asleep
  <2>2. InFlight' = InFlight
    BY <1>1, <2>1 DEF InFlight, At
  <2> QED
    BY <1>1, <1>2, <2>1, <2>2, AsleepType, LoopType, LoopStepInv, Facts
<1>3. ASSUME NEW step \in {"show", "blind"}, loop' = [loop EXCEPT !.pc = step],
             step = "show" => ~ IsDupe
      PROVE  Inv'
  <2>1. /\ loop' \in [pc : {"show", "blind"}, since : Nat, digest : SUBSET Observations,
                      evidence : Evidence]
        /\ loop'.since = loop.since /\ loop'.pc = step /\ loop'.evidence = loop.evidence
    BY <1>3, LoopType
  <2>2. InFlight' = InFlight
    BY <1>1, <2>1 DEF InFlight, At
  <2> QED
    BY <1>1, <1>3, <2>1, <2>2, LoopType, LoopStepInv
<1> QED
  BY <1>1, <1>2, <1>3

LEMMA InsertType ==
  ASSUME Inv, NEW p \in Pushbacks, NEW status \in {"shown", "queued"},
         InsertPushback(p, status)
  PROVE  /\ pushback' \in [Pushbacks -> Row]
         /\ Rows' = Rows \cup {p}
         /\ Popups' = IF status = "shown" THEN Popups \cup {p} ELSE Popups
         /\ pushback'[p].evidence = loop.evidence /\ pushback'[p].at = now
         /\ (pushback'[p].blind) = (loop.pc = "blind")
         /\ \A q \in Pushbacks : q # p => pushback'[q] = pushback[q]
<1> DEFINE new == [status |-> status, evidence |-> loop.evidence,
                   at |-> now, popup |-> status = "shown", blind |-> At("blind")]
<1>1. pushback' = [pushback EXCEPT ![p] = new] /\ p \notin Rows
  BY DEF InsertPushback
<1>2. new \in Row
  <2>1. (status = "shown") \in BOOLEAN /\ At("blind") \in BOOLEAN
    BY DEF At
  <2>2. status \in Statuses \cup {"absent"} /\ loop.evidence \in Evidence /\ now \in Nat
    BY Facts DEF Statuses
  <2> QED
    BY <2>1, <2>2 DEF Row
<1>3. /\ pushback' \in [Pushbacks -> Row] /\ pushback'[p] = new
      /\ \A q \in Pushbacks : q # p => pushback'[q] = pushback[q]
  BY <1>1, <1>2, Facts
<1>4. Rows' = Rows \cup {p}
  BY <1>1, <1>3 DEF Rows
<1>5. Popups' = IF status = "shown" THEN Popups \cup {p} ELSE Popups
  BY <1>1, <1>3, <1>4 DEF Popups, Rows
<1>6. (pushback'[p].blind) = (loop.pc = "blind")
  BY <1>3 DEF At
<1> QED
  BY <1>3, <1>4, <1>5, <1>6

LEMMA InsertInv ==
  ASSUME Inv, NEW p \in Pushbacks, Show(p) \/ Queue(p)
  PROVE  Inv'
<1>1. PICK status \in {"shown", "queued"} :
        /\ InsertPushback(p, status)
        /\ status = "shown" => loop.pc \in {"show", "blind"}
        /\ loop.pc \in {"show", "blind", "queue"}
  BY DEF Show, Queue, At
<1>2. /\ UNCHANGED <<now, seen, disclosed, sent, lost, crashes, faults, governorVars>>
      /\ loop' = Asleep /\ p \notin Rows
  BY <1>1 DEF InsertPushback, failureVars
<1>3. /\ loop' \in [pc : {"asleep"}, since : Nat, digest : SUBSET Observations,
                    evidence : Evidence]
      /\ loop'.since <= now
  BY <1>2, Facts, NothingType DEF Asleep
<1>4. NextAdmission <= NextAdmission' /\ NextAdmission' \in Nat
  BY <1>2, <1>3, Facts DEF NextAdmission, At
<1>5. GovernorTypeOK' /\ WindowIsComplete' /\ HourlyCap'
  BY <1>2, <1>4, QuietGovernor
<1>6. /\ pushback' \in [Pushbacks -> Row]
      /\ Rows' = Rows \cup {p}
      /\ Popups' = IF status = "shown" THEN Popups \cup {p} ELSE Popups
      /\ pushback'[p].evidence = loop.evidence /\ pushback'[p].at = now
      /\ (pushback'[p].blind) = (loop.pc = "blind")
      /\ \A q \in Pushbacks : q # p => pushback'[q] = pushback[q]
  BY <1>1, InsertType
<1>7. TypeOK'
  BY <1>2, <1>3, <1>5, <1>6 DEF Inv, TypeOK
<1>8. LoopInv'
  BY <1>2, <1>3, <1>6, Facts DEF Inv, LoopInv, At, Rows
<1>9. EvidenceIsDisclosed'
  <2>1. loop'.pc # "asked" /\ loop.pc # "asked"
    BY <1>1, <1>3
  <2>2. InFlight' = InFlight
    BY <2>1 DEF InFlight, At
  <2>3. (sent \subseteq disclosed \cup lost \cup InFlight)'
    BY <1>2, <2>2, LoopType
  <2>4. Cited(loop.evidence) # {} /\ Cited(loop.evidence) \subseteq disclosed \cup lost
    BY <1>1 DEF Inv, LoopInv
  <2>5. \A q \in Rows : /\ Cited(pushback[q].evidence) # {}
                         /\ Cited(pushback[q].evidence) \subseteq disclosed \cup lost
    BY DEF Inv, EvidenceIsDisclosed
  <2>6. \A q \in Rows : pushback'[q] = pushback[q]
    BY <1>2, <1>6 DEF Rows
  <2>7. ASSUME NEW q \in Rows'
        PROVE  /\ Cited(pushback'[q].evidence) # {}
               /\ Cited(pushback'[q].evidence) \subseteq disclosed' \cup lost'
    BY <1>2, <1>6, <2>4, <2>5, <2>6
  <2> QED
    BY <2>3, <2>7 DEF EvidenceIsDisclosed, Cited
<1>10. PopupsAreNotRepeated'
  <2>1. CASE status = "queued"
    BY <1>2, <1>6, <2>1 DEF Inv, PopupsAreNotRepeated, Popups, Rows
  <2>2. CASE status = "shown"
    <3>1. loop.pc = "show" =>
            \A q \in Rows : pushback[q].evidence = loop.evidence => pushback[q].at + Day < now
      BY Facts, ConstantsType DEF Inv, LoopInv, Rows, At
    <3>2. \A q \in Popups : q \in Rows /\ q # p /\ pushback'[q] = pushback[q]
      BY <1>2, <1>6 DEF Popups, Rows
    <3>3. ASSUME NEW q \in Popups, pushback'[q].evidence = pushback'[p].evidence
          PROVE  pushback'[p].at > pushback'[q].at + Day \/ pushback'[p].blind
      <4>1. CASE loop.pc = "blind"
        BY <1>6, <4>1
      <4>2. CASE loop.pc = "show"
        <5>1. pushback[q].at + Day < now
          BY <1>6, <3>1, <3>2, <3>3, <4>2
        <5> QED
          BY <1>6, <3>2, <5>1, Facts, ConstantsType DEF Rows
      <4> QED
        BY <1>1, <2>2, <4>1, <4>2
    <3>4. \A q \in Popups : pushback'[q].at \in Nat /\ pushback'[q].at <= pushback'[p].at
      BY <1>6, <3>2, Facts DEF Inv, LoopInv, Rows
    <3>5. pushback'[p].at \in Nat /\ Day \in Nat
      BY <1>6, Facts, ConstantsType
    <3>6. Popups' = Popups \cup {p}
      BY <1>6, <2>2
    <3>7. ASSUME NEW q \in Popups, NEW t \in Popups, q # t,
                 pushback'[q].evidence = pushback'[t].evidence, pushback'[q].at <= pushback'[t].at
          PROVE  \/ pushback'[t].at > pushback'[q].at + Day
                 \/ pushback'[t].blind
                 \/ pushback'[t].at = pushback'[q].at /\ pushback'[q].blind
      BY <3>2, <3>7 DEF Inv, PopupsAreNotRepeated
    <3>8. ASSUME NEW q \in Popups, pushback'[q].evidence = pushback'[p].evidence,
                 pushback'[p].at <= pushback'[q].at
          PROVE  pushback'[q].at = pushback'[p].at /\ pushback'[p].blind
      BY <3>3, <3>4, <3>5, <3>8
    <3>9. ASSUME NEW q \in Popups', NEW t \in Popups', q # t,
                 pushback'[q].evidence = pushback'[t].evidence, pushback'[q].at <= pushback'[t].at
          PROVE  \/ pushback'[t].at > pushback'[q].at + Day
                 \/ pushback'[t].blind
                 \/ pushback'[t].at = pushback'[q].at /\ pushback'[q].blind
      <4>1. CASE q \in Popups /\ t \in Popups
        BY <3>7, <3>9, <4>1
      <4>2. CASE t = p /\ q \in Popups
        BY <3>3, <3>9, <4>2
      <4>3. CASE q = p /\ t \in Popups
        BY <3>8, <3>9, <4>3
      <4> QED
        BY <3>6, <3>9, <4>1, <4>2, <4>3
    <3> QED
      BY <3>9 DEF PopupsAreNotRepeated
  <2> QED
    BY <2>1, <2>2
<1> QED
  BY <1>5, <1>7, <1>8, <1>9, <1>10 DEF Inv

LEMMA FeedbackInv ==
  ASSUME Inv, NEW p \in Pushbacks, NEW v \in Verdicts, Feedback(p, v)
  PROVE  Inv'
<1>1. /\ UNCHANGED <<now, seen, disclosed, loop, sent, lost, crashes, faults, governorVars>>
      /\ pushback' = [pushback EXCEPT ![p].status = v] /\ p \in Rows
  BY DEF Feedback, failureVars
<1>2. NextAdmission' = NextAdmission
  BY <1>1 DEF NextAdmission, At
<1>3. GovernorTypeOK' /\ WindowIsComplete' /\ HourlyCap'
  BY <1>1, <1>2, QuietGovernor, Facts
<1>4. /\ pushback' \in [Pushbacks -> Row]
      /\ \A q \in Pushbacks : /\ pushback'[q].evidence = pushback[q].evidence
                              /\ pushback'[q].at = pushback[q].at
                              /\ pushback'[q].popup = pushback[q].popup
                              /\ pushback'[q].blind = pushback[q].blind
      /\ pushback'[p].status = v
      /\ \A q \in Pushbacks : q # p => pushback'[q] = pushback[q]
  BY <1>1, Facts DEF Row, Statuses
<1>5. Rows' = Rows /\ Popups' = Popups
  BY <1>1, <1>4, ConstantsType DEF Rows, Popups, Statuses
<1>6. TypeOK'
  BY <1>1, <1>3, <1>4 DEF Inv, TypeOK
<1>7. LoopInv'
  BY <1>1, <1>4, <1>5 DEF Inv, LoopInv, At, Rows
<1>8. EvidenceIsDisclosed'
  BY <1>1, <1>4, <1>5, SameFlight DEF Inv, EvidenceIsDisclosed, Rows
<1>9. PopupsAreNotRepeated'
  BY <1>1, <1>4, <1>5 DEF Inv, PopupsAreNotRepeated, Popups, Rows
<1> QED
  BY <1>3, <1>6, <1>7, <1>8, <1>9 DEF Inv

LEMMA CrashInv ==
  ASSUME Inv, Crash
  PROVE  Inv'
<1>1. /\ UNCHANGED <<now, seen, pushback, disclosed, sent, faults>> /\ lost' = lost \cup InFlight
      /\ loop' = Asleep /\ crashes' = crashes + 1 /\ crashes < MaxTroubles
      /\ bucket' = [m \in Modes |-> [ticks |-> Full(m), last |-> Never]]
      /\ window' = {} /\ log' = <<>>
  BY LoopType DEF Crash
<1>2. GovernorTypeOK'
  BY <1>1, FullType DEF GovernorTypeOK, Full
<1>3. WindowIsComplete' /\ HourlyCap'
  BY <1>1 DEF WindowIsComplete, HourlyCap
<1>4. Rows' = Rows /\ EvidenceIsDisclosed' /\ PopupsAreNotRepeated'
  <2>1. (sent \subseteq disclosed \cup lost \cup InFlight)'
    BY <1>1, LoopType
  <2> QED
    BY <1>1, <2>1, SameRows
<1>5. /\ loop' \in [pc : {"asleep"}, since : Nat, digest : SUBSET Observations,
                    evidence : Evidence]
      /\ loop'.since <= now
  BY <1>1, Facts, NothingType DEF Asleep
<1>6. TypeOK'
  <2>1. lost' \subseteq Observations
    BY <1>1, LoopType, Facts DEF InFlight
  <2> QED
    BY <1>1, <1>2, <1>5, <2>1, ConstantsType DEF Inv, TypeOK
<1>7. LoopInv'
  BY <1>1, <1>4, <1>5 DEF Inv, LoopInv, At
<1> QED
  BY <1>2, <1>3, <1>4, <1>6, <1>7 DEF Inv

LEMMA NextInv == Inv /\ [Next]_vars => Inv'
<1> SUFFICES ASSUME Inv, [Next]_vars PROVE Inv'
  OBVIOUS
<1>1. CASE \E o \in Observations : Observe(o)
  BY <1>1, ObserveInv
<1>2. CASE CriticLoop
  <2>1. CASE FastTick \/ Ask \/ Disclose
    BY <2>1, FastTickInv, AskInv, DiscloseInv
  <2>2. CASE \E e \in Citations : Drop(e) \/ Doubt(e) \/ AskGovernor(e)
    BY <2>2, DropDoubtInv, AskGovernorInv
  <2>3. CASE Dedupe
    BY <2>3, DedupeInv
  <2>4. CASE \E p \in Pushbacks : Show(p) \/ Queue(p)
    BY <2>4, InsertInv
  <2> QED
    BY <1>2, <2>1, <2>2, <2>3, <2>4 DEF CriticLoop
<1>3. CASE \E p \in Pushbacks, v \in Verdicts : Feedback(p, v)
  BY <1>3, FeedbackInv
<1>4. CASE Tick
  BY <1>4, TickInv
<1>5. CASE Crash
  BY <1>5, CrashInv
<1>7. CASE Failure
  BY <1>7, DiscloseInv, DedupeInv, GiveUpInv DEF Failure
<1>6. CASE UNCHANGED vars
  <2>1. UNCHANGED <<now, seen, pushback, disclosed, loop, sent, lost, crashes, faults, governorVars>>
    BY <1>6 DEF vars, criticVars, failureVars
  <2>2. NextAdmission' = NextAdmission
    BY <2>1 DEF NextAdmission, At
  <2>3. GovernorTypeOK' /\ WindowIsComplete' /\ HourlyCap'
    BY <2>1, <2>2, QuietGovernor, Facts
  <2>4. Rows' = Rows /\ EvidenceIsDisclosed' /\ PopupsAreNotRepeated'
    BY <2>1, SameRows, SameFlight, LoopType
  <2>5. TypeOK' /\ LoopInv'
    BY <2>1, <2>3, <2>4 DEF Inv, TypeOK, LoopInv, At
  <2> QED
    BY <2>3, <2>4, <2>5 DEF Inv
<1> QED
  BY <1>1, <1>2, <1>3, <1>4, <1>5, <1>6, <1>7 DEF Next

-----------------------------------------------------------------------------
(* The theorems                                                            *)

\* The inductive invariant holds, for every value of the constants.
THEOREM Invariant == Spec => []Inv
<1>1. Init => Inv
  BY InitInv
<1>2. Inv /\ [Next]_vars => Inv'
  BY NextInv
<1> QED
  BY <1>1, <1>2, PTL DEF Spec

\* The state of the critic, its governor and its tables stays well typed: the
\* buckets, in particular, never hold more than their capacity.
THEOREM TypeCorrect == Spec => []TypeOK
<1>1. Inv => TypeOK
  BY DEF Inv
<1> QED
  BY <1>1, Invariant, PTL

\* Governor::admit: Cap + 1 admissions of one run of the daemon take an hour or
\* longer, for any modes and cap, and whatever time the model takes.
THEOREM AdmissionsAreCapped == Spec => []HourlyCap
<1>1. Inv => HourlyCap
  BY DEF Inv
<1> QED
  BY <1>1, Invariant, PTL

\* slow_tick: no pushback cites what was not in a prompt, and what was in a prompt is
\* on record, unless writing the record failed or the daemon crashed before it.
THEOREM NothingIsFabricated == Spec => []EvidenceIsDisclosed
<1>1. Inv => EvidenceIsDisclosed
  BY DEF Inv
<1> QED
  BY <1>1, Invariant, PTL

\* slow_tick: popups with the same evidence are more than a day apart, across
\* crashes and feedback, unless the later one could not be compared.
THEOREM NoPopupTwice == Spec => []PopupsAreNotRepeated
<1>1. Inv => PopupsAreNotRepeated
  BY DEF Inv
<1> QED
  BY <1>1, Invariant, PTL

-----------------------------------------------------------------------------
(* The rates.                                                              *)

LEMMA AtMostQuotient ==
  ASSUME NEW c \in Nat, NEW a \in Nat, NEW d \in Nat, NEW r \in Nat \ {0}, c * r <= a * r + d
  PROVE  c <= a + d \div r
<1> DEFINE q == d \div r
<1>1. q \in Nat /\ d < (q + 1) * r
  OBVIOUS
<1> HIDE DEF q
<1>2. SUFFICES ASSUME c >= a + q + 1 PROVE FALSE
  BY <1>1 DEF q
<1>3. c * r >= (a + q + 1) * r
  BY <1>1, <1>2
<1>4. (a + q + 1) * r = a * r + (q + 1) * r
  BY <1>1
<1> QED
  BY <1>1, <1>3, <1>4

\* The rate of each mode, with the buckets as they are at the next admission.
RatesInv == Inv /\ BucketsAt(NextAdmission) /\ RateInv

LEMMA BucketsLater ==
  ASSUME GovernorTypeOK, NEW t \in Nat, NEW u \in Nat, t <= u, BucketsAt(t) PROVE BucketsAt(u)
<1>1. \A m \in Modes : bucket[m].last \in Nat \cup {-1}
  BY DEF GovernorTypeOK
<1> QED
  BY <1>1 DEF BucketsAt

LEMMA NextRates == RatesInv /\ [Next]_vars => RatesInv'
<1> SUFFICES ASSUME RatesInv, [Next]_vars PROVE RatesInv'
  OBVIOUS
<1>1. Inv /\ Inv' /\ BucketsAt(NextAdmission) /\ RateInv
  BY NextInv DEF RatesInv
<1>2. /\ GovernorTypeOK /\ GovernorTypeOK' /\ NextAdmission \in Nat /\ NextAdmission' \in Nat
      /\ now \in Nat /\ loop.since \in Nat /\ NextAdmission <= now
  <2>1. NextAdmission' \in Nat
    BY <1>1, Facts DEF Inv, TypeOK, NextAdmission
  <2> QED
    BY <1>1, <2>1, Facts DEF Inv, TypeOK
<1>3. ASSUME UNCHANGED governorVars, NextAdmission <= NextAdmission' PROVE RatesInv'
  <2>1. BucketsAt(NextAdmission')
    BY <1>1, <1>2, <1>3, BucketsLater
  <2>2. (BucketsAt(NextAdmission))' /\ RateInv'
    BY <1>1, <1>3, <2>1 DEF BucketsAt, RateInv, governorVars, Full
  <2> QED
    BY <1>1, <2>2 DEF RatesInv
<1>4. ASSUME NEW e \in Citations, AskGovernor(e) PROVE RatesInv'
  <2>1. PICK t \in Nat : t = loop.since
    BY <1>2
  <2>2. NextAdmission = t /\ now' = now /\ (Admit(Mode, t) \/ Deny(Mode, t))
    BY <1>4, <2>1 DEF AskGovernor, Answered, NextAdmission, At
  <2>3. BucketsAt(t)' /\ RateInv'
    BY <1>1, <1>2, <2>2, AdmitKeepsRate, DenyKeepsRate, ConstantsType
  <2>4. t <= NextAdmission'
    <3>1. loop'.pc \notin {"asked", "answered"}
      BY <1>1, <1>4 DEF AskGovernor, Inv, TypeOK
    <3> QED
      BY <1>2, <2>2, <3>1 DEF NextAdmission, At
  <2>5. \A m \in Modes : bucket'[m].last \in Nat \cup {-1}
    BY <1>2 DEF GovernorTypeOK
  <2>6. (BucketsAt(NextAdmission))'
    BY <1>2, <2>3, <2>4, <2>5 DEF BucketsAt
  <2> QED
    BY <1>1, <2>3, <2>6 DEF RatesInv
<1>5. CASE Crash
  BY <1>1, <1>2, <1>5, FullType DEF Crash, RatesInv, BucketsAt, RateInv, Full
<1>6. CASE \/ FastTick \/ Ask \/ Dedupe \/ Tick \/ Disclose \/ Failure
           \/ \E e \in Citations : Drop(e) \/ Doubt(e)
           \/ \E p \in Pushbacks : Show(p) \/ Queue(p)
           \/ \E p \in Pushbacks, v \in Verdicts : Feedback(p, v)
           \/ \E o \in Observations : Observe(o)
           \/ UNCHANGED vars
  <2>1. UNCHANGED governorVars
    BY <1>6 DEF FastTick, Ask, Dedupe, Tick, Drop, Doubt, Show, Queue, InsertPushback, Feedback,
       Observe, vars, Disclose, Failure, DiscloseFails, DedupeUnread, GiveUp, StoreFails
  <2>2. now <= now' /\ now' \in Nat
    <3>1. now' = now \/ now' = now + 1
      BY <1>6 DEF FastTick, Ask, Dedupe, Tick, Drop, Doubt, Show, Queue, InsertPushback,
         Feedback, Observe, vars, criticVars, Answered, Disclose, Failure, DiscloseFails,
         DedupeUnread, GiveUp, StoreFails
    <3> QED
      BY <1>2, <3>1
  <2>3. \/ loop' = loop \/ loop'.pc \notin {"asked", "answered"}
        \/ loop'.pc = "asked" /\ loop'.since = now
        \/ loop.pc = "asked" /\ loop'.pc = "answered" /\ loop'.since = loop.since
    <3>1. loop \in [pc : {"asleep", "woken", "asked", "answered", "admitted", "show", "blind", "queue"},
                    since : Nat, digest : SUBSET Observations, evidence : Evidence]
      BY <1>1 DEF Inv, TypeOK
    <3>2. CASE FastTick
      BY <3>1, <3>2 DEF FastTick
    <3>3. CASE Ask
      BY <3>1, <3>3 DEF Ask
    <3>4. CASE Dedupe
      BY <3>1, <3>4 DEF Dedupe, Asleep
    <3>5. CASE \E e \in Citations : Drop(e) \/ Doubt(e)
      <4>1. PICK e \in Citations : Drop(e) \/ Doubt(e)
        BY <3>5
      <4>2. \/ loop' = Asleep
            \/ loop' = [loop EXCEPT !.pc = "queue", !.evidence = Valid(e)]
        BY <4>1 DEF Drop, Doubt
      <4>3. loop' = Asleep => loop'.pc = "asleep"
        BY DEF Asleep
      <4> QED
        BY <3>1, <4>2, <4>3
    <3>6. CASE \E p \in Pushbacks : Show(p) \/ Queue(p)
      BY <3>6 DEF Show, Queue, InsertPushback, Asleep
    <3>7. CASE Tick \/ (\E p \in Pushbacks, v \in Verdicts : Feedback(p, v))
               \/ (\E o \in Observations : Observe(o)) \/ UNCHANGED vars
      BY <3>7 DEF Tick, Feedback, Observe, vars, criticVars
    <3>8. CASE Disclose
      BY <3>1, <3>8 DEF Disclose, At
    <3>9. CASE DiscloseFails
      BY <3>1, <3>9 DEF DiscloseFails, At
    <3>10. CASE DedupeUnread
      BY <3>1, <3>10 DEF DedupeUnread
    <3>11. CASE GiveUp
      BY <3>11 DEF GiveUp, Asleep
    <3>12. CASE Failure
      BY <3>9, <3>10, <3>11, <3>12 DEF Failure
    <3> QED
      BY <1>6, <3>2, <3>3, <3>4, <3>5, <3>6, <3>7, <3>8, <3>12
  <2>4. NextAdmission <= NextAdmission'
    <3>1. loop.since <= now
      BY <1>1, Facts, <1>2
    <3> QED
      BY <1>2, <2>2, <2>3, <3>1 DEF NextAdmission, At
  <2> QED
    BY <1>3, <2>1, <2>4
<1> QED
  BY <1>4, <1>5, <1>6 DEF Next, CriticLoop

LEMMA InitRates == Init => RatesInv
BY InitInv DEF Init, GovernorInit, RatesInv, BucketsAt, RateInv, NextAdmission, At, Asleep

LEMMA RatesAreOfModes == RatesInv => ModeRate
<1> SUFFICES ASSUME RatesInv, NEW i \in DOMAIN log, NEW j \in DOMAIN log, i <= j,
                    log[j].mode = log[i].mode
             PROVE  Cardinality({k \in i .. j : log[k].mode = log[i].mode})
                      <= Capacity[log[i].mode]
                           + (log[j].at - log[i].at) \div Refill[log[i].mode]
  BY DEF ModeRate
<1> DEFINE m == log[i].mode
           C == CountIn(log, m, i, j)
           d == log[j].at - log[i].at
<1>1. /\ log \in Seq([mode : Modes, at : Nat]) /\ DOMAIN log = 1 .. Len(log) /\ Len(log) \in Nat
      /\ m \in Modes /\ log[i].at \in Nat /\ log[j].at \in Nat
  <2>1. log \in Seq([mode : Modes, at : Nat]) /\ DOMAIN log = 1 .. Len(log) /\ Len(log) \in Nat
    BY LogType DEF RatesInv, Inv, TypeOK, GovernorTypeOK
  <2>2. log[i] \in [mode : Modes, at : Nat] /\ log[j] \in [mode : Modes, at : Nat]
    BY <2>1, ElementType
  <2> QED
    BY <2>1, <2>2
<1>2. C \in Nat /\ d \in Nat
  <2>1. i \in Int /\ j \in Int
    BY <1>1
  <2>2. log[i].at <= log[j].at
    BY DEF RatesInv, Inv, WindowIsComplete
  <2>3. C \in Nat
    BY <2>1, CountType
  <2> QED
    BY <1>1, <2>2, <2>3
<1>3. Refill[m] \in Nat \ {0} /\ Capacity[m] \in Nat
  BY <1>1, GovernorAssumption
<1>4. C * Refill[m] <= Capacity[m] * Refill[m] + d
  BY DEF RatesInv, RateInv, Full
<1> HIDE DEF C, d, m
<1>5. C <= Capacity[m] + d \div Refill[m]
  BY <1>2, <1>3, <1>4, AtMostQuotient
<1> QED
  BY <1>5 DEF C, d, m, CountIn

\* Governor::admit: from one admission of a mode to another there are no more than a full
\* bucket and what has accrued in between, for any capacities and rates.
THEOREM RatesAreKept == Spec => []ModeRate
BY InitRates, NextRates, RatesAreOfModes, PTL DEF Spec

-----------------------------------------------------------------------------
(* The popups.  Each came of an admission of its own, and the next prompt  *)
(* was sent after it: all popups of a time but the first were admitted in  *)
(* that time.                                                              *)

CameOf(p, k) == log[k].mode = Mode /\ log[k].at <= pushback[p].at

InHand == loop.pc \in {"admitted", "show", "blind"}

Origins ==
    {f \in [Popups -> DOMAIN log] :
        /\ \A p, q \in Popups : f[p] = f[q] => p = q
        /\ \A p, q \in Popups : f[p] < f[q] => pushback[p].at <= log[f[q]].at
        /\ \A p \in Popups : CameOf(p, f[p]) /\ (InHand => f[p] # Len(log))}

PopupsAreBefore ==
    loop.pc \notin {"asleep", "woken"} => \A p \in Popups : pushback[p].at <= loop.since

PopupInv ==
    /\ PopupsAreBefore
    /\ InHand => Len(log) > 0 /\ log[Len(log)] = [mode |-> Mode, at |-> loop.since]
    /\ crashes = 0 => Origins # {}

LEMMA PopupFrame ==
  ASSUME PopupInv, UNCHANGED <<log, crashes>>, Popups' = Popups,
         \A p \in Popups : pushback'[p].at = pushback[p].at,
         PopupsAreBefore',
         InHand' => InHand /\ loop'.since = loop.since
  PROVE  PopupInv'
<1>1. ASSUME NEW f \in Origins PROVE f \in Origins'
  <2>1. /\ f \in [Popups' -> DOMAIN log']
        /\ \A p, q \in Popups' : f[p] = f[q] => p = q
    BY DEF Origins
  <2>2. ASSUME NEW p \in Popups' PROVE CameOf(p, f[p])' /\ (InHand' => f[p] # Len(log'))
    <3>1. p \in Popups /\ CameOf(p, f[p]) /\ (InHand => f[p] # Len(log))
      BY DEF Origins
    <3> QED
      BY <3>1 DEF CameOf
  <2>3. \A p, q \in Popups' : f[p] < f[q] => pushback'[p].at <= log'[f[q]].at
    BY DEF Origins
  <2> QED
    BY <2>1, <2>2, <2>3 DEF Origins
<1> QED
  BY <1>1 DEF PopupInv

(* PopupsAreBefore after a step that adds no popup and leaves since alone. *)
LEMMA StillBefore ==
  ASSUME Popups' = Popups, \A p \in Popups : pushback'[p].at = pushback[p].at,
         \/ loop'.pc \in {"asleep", "woken"}
         \/ PopupsAreBefore /\ loop'.since = loop.since /\ loop.pc \notin {"asleep", "woken"}
  PROVE  PopupsAreBefore'
BY DEF PopupsAreBefore

LEMMA LogIs ==
  ASSUME Inv
  PROVE  /\ log \in Seq([mode : Modes, at : Nat]) /\ DOMAIN log = 1 .. Len(log) /\ Len(log) \in Nat
         /\ \A i \in DOMAIN log : log[i].mode \in Modes /\ log[i].at \in Nat
<1>1. log \in Seq([mode : Modes, at : Nat]) /\ DOMAIN log = 1 .. Len(log) /\ Len(log) \in Nat
  BY LogType DEF Inv, TypeOK, GovernorTypeOK
<1>2. \A i \in 1 .. Len(log) : log[i] \in [mode : Modes, at : Nat]
  BY <1>1, ElementType
<1> QED
  BY <1>1, <1>2

LEMMA LoopIs ==
  ASSUME Inv
  PROVE  /\ loop \in [pc : {"asleep", "woken", "asked", "answered", "admitted", "show", "blind", "queue"},
                      since : Nat, digest : SUBSET Observations, evidence : Evidence]
         /\ crashes \in Nat /\ loop.since <= now /\ now \in Nat
         /\ \A p \in Popups : pushback[p].at \in Nat /\ pushback[p].at <= now
BY Facts, ConstantsType DEF Inv, TypeOK, LoopInv, Popups, Rows

LEMMA AdmitPopups ==
  ASSUME Inv, PopupInv, NEW e \in Citations, AskGovernor(e) PROVE PopupInv'
<1>1. /\ loop.pc = "answered" /\ UNCHANGED <<now, pushback, crashes>> /\ Popups' = Popups
  BY DEF AskGovernor, Answered, At, Popups, Rows, failureVars
<1>2. CASE /\ Deny(Mode, loop.since)
           /\ loop' = [loop EXCEPT !.pc = "queue", !.evidence = Valid(e)]
  <2>1. loop'.pc = "queue" /\ loop'.since = loop.since /\ log' = log
    BY <1>2, LoopIs DEF Deny
  <2>2. PopupsAreBefore'
    BY <1>1, <2>1, StillBefore DEF PopupInv
  <2> QED
    BY <1>1, <2>1, <2>2, PopupFrame DEF InHand
<1>3. CASE /\ Admit(Mode, loop.since)
           /\ loop' = [loop EXCEPT !.pc = "admitted", !.evidence = Valid(e)]
  <2> DEFINE n == Len(log)
             a == [mode |-> Mode, at |-> loop.since]
  <2>1. loop'.pc = "admitted" /\ loop'.since = loop.since /\ log' = Append(log, a)
    BY <1>3, LoopIs DEF Admit
  <2>2. a \in [mode : Modes, at : Nat]
    BY ConstantsType, LoopIs, CriticAssumption DEF CriticAssumption
  <2> HIDE DEF a
  <2>3. /\ n \in Nat /\ Len(log') = n + 1 /\ DOMAIN log' = 1 .. n + 1 /\ DOMAIN log = 1 .. n
        /\ log'[n + 1] = a
        /\ \A i \in 1 .. n : log'[i] = log[i]
    BY <2>1, <2>2, LogIs
  <2> HIDE DEF n
  <2>4. ASSUME NEW f \in Origins PROVE f \in Origins'
    <3>1. \A p \in Popups : f[p] \in 1 .. n /\ CameOf(p, f[p])
      BY <2>3 DEF Origins
    <3>2. f \in [Popups' -> DOMAIN log'] /\ \A p, q \in Popups' : f[p] = f[q] => p = q
      BY <1>1, <2>3 DEF Origins
    <3>3. ASSUME NEW p \in Popups' PROVE CameOf(p, f[p])' /\ f[p] # Len(log')
      <4>1. f[p] \in 1 .. n /\ CameOf(p, f[p]) /\ log'[f[p]] = log[f[p]]
        BY <1>1, <2>3, <3>1
      <4> QED
        BY <1>1, <2>3, <4>1 DEF CameOf
    <3>4. \A p, q \in Popups' : f[p] < f[q] => pushback'[p].at <= log'[f[q]].at
      <4>1. \A q \in Popups : log'[f[q]] = log[f[q]]
        BY <2>3, <3>1
      <4>2. \A p, q \in Popups : f[p] < f[q] => pushback[p].at <= log[f[q]].at
        BY DEF Origins
      <4> QED
        BY <1>1, <4>1, <4>2
    <3> QED
      BY <3>2, <3>3, <3>4 DEF Origins
  <2>5. (InHand => Len(log) > 0 /\ log[Len(log)] = [mode |-> Mode, at |-> loop.since])'
    BY <2>1, <2>3 DEF a
  <2>6. PopupsAreBefore'
    BY <1>1, <2>1, StillBefore DEF PopupInv
  <2> QED
    BY <1>1, <2>4, <2>5, <2>6 DEF PopupInv
<1> QED
  BY <1>2, <1>3 DEF AskGovernor

LEMMA ShowPopups ==
  ASSUME Inv, PopupInv, NEW p \in Pushbacks, Show(p) PROVE PopupInv'
<1> DEFINE n == Len(log)
<1>1. /\ UNCHANGED <<now, crashes, log>> /\ loop' = Asleep /\ p \notin Popups
      /\ loop.pc \in {"show", "blind"} /\ InsertPushback(p, "shown")
  BY DEF Show, InsertPushback, governorVars, failureVars, At, Popups
<1>2. /\ Popups' = Popups \cup {p} /\ pushback'[p].at = now
      /\ \A q \in Popups : pushback'[q] = pushback[q]
  BY <1>1, InsertType DEF Popups, Rows
<1>3. /\ loop.since <= now /\ \A q \in Popups : pushback[q].at <= loop.since
      /\ n > 0 /\ log[n] = [mode |-> Mode, at |-> loop.since] /\ n \in DOMAIN log
  <2>1. /\ \A q \in Popups : pushback[q].at <= loop.since
        /\ n > 0 /\ log[n] = [mode |-> Mode, at |-> loop.since]
    BY <1>1 DEF PopupInv, InHand, PopupsAreBefore
  <2> QED
    BY <2>1, LoopIs, LogIs
<1>4. loop'.pc = "asleep"
  BY <1>1 DEF Asleep
<1>0. n \in Nat /\ DOMAIN log = 1 .. n
  BY LogIs
<1> HIDE DEF n
<1>5. ASSUME NEW f \in Origins PROVE Origins' # {}
  <2>0. PICK g : g = [q \in Popups' |-> IF q = p THEN n ELSE f[q]]
    OBVIOUS
  <2>1. \A q \in Popups : f[q] \in DOMAIN log /\ CameOf(q, f[q]) /\ f[q] # n
    BY <1>1 DEF Origins, InHand, n
  <2>2. g[p] = n /\ \A q \in Popups : g[q] = f[q]
    BY <1>1, <1>2, <2>0
  <2>3. g \in [Popups' -> DOMAIN log']
    BY <1>1, <1>2, <1>3, <2>0, <2>1
  <2>4. ASSUME NEW q \in Popups', NEW r \in Popups', g[q] = g[r] PROVE q = r
    BY <1>2, <2>1, <2>2, <2>4 DEF Origins
  <2>5. ASSUME NEW q \in Popups' PROVE CameOf(q, g[q])'
    <3>1. CASE q = p
      BY <1>1, <1>2, <1>3, <2>2, <3>1 DEF CameOf
    <3>2. CASE q \in Popups
      BY <1>1, <1>2, <2>1, <2>2, <3>2 DEF CameOf
    <3> QED
      BY <1>2, <3>1, <3>2
  <2>6. ASSUME NEW q \in Popups', NEW r \in Popups', g[q] < g[r]
        PROVE  pushback'[q].at <= log'[g[r]].at
    <3>1. q # p
      <4>1. SUFFICES ASSUME q = p PROVE FALSE
        OBVIOUS
      <4>2. g[r] \in 1 .. n /\ g[q] = n
        BY <1>0, <1>1, <2>2, <2>3, <4>1
      <4> QED
        BY <1>0, <2>6, <4>2
    <3>2. q \in Popups /\ g[q] = f[q] /\ pushback'[q].at = pushback[q].at
      BY <1>2, <2>2, <3>1
    <3>3. CASE r = p
      BY <1>1, <1>3, <2>2, <3>2, <3>3
    <3>4. CASE r \in Popups
      <4>1. g[r] = f[r]
        BY <2>2, <3>4
      <4>2. pushback[q].at <= log[f[r]].at
        BY <2>6, <3>2, <3>4, <4>1 DEF Origins
      <4> QED
        BY <1>1, <3>2, <4>1, <4>2
    <3> QED
      BY <1>2, <3>3, <3>4
  <2> QED
    BY <1>4, <2>3, <2>4, <2>5, <2>6 DEF Origins, InHand
<1> QED
  BY <1>1, <1>4, <1>5 DEF PopupInv, InHand, PopupsAreBefore

(* The steps that move only the loop.                                      *)
LEMMA LoopPopups ==
  ASSUME Inv, PopupInv, UNCHANGED <<pushback, log, crashes>>,
         \/ loop'.pc \in {"asleep", "woken"}
         \/ loop'.pc = "asked" /\ loop'.since = now
         \/ /\ loop'.since = loop.since /\ loop.pc \notin {"asleep", "woken"}
            /\ loop'.pc \in {"admitted", "show", "blind"} => loop.pc \in {"admitted", "show", "blind"}
         \/ UNCHANGED loop
  PROVE  PopupInv'
<1>1. Popups' = Popups
  BY DEF Popups, Rows
<1>2. PopupsAreBefore'
  BY <1>1, LoopIs DEF PopupsAreBefore, PopupInv
<1>3. InHand' => InHand /\ loop'.since = loop.since
  BY DEF InHand
<1> QED
  BY <1>1, <1>2, <1>3, PopupFrame

LEMMA NextPopups == Inv /\ PopupInv /\ [Next]_vars => PopupInv'
<1> SUFFICES ASSUME Inv, PopupInv, [Next]_vars PROVE PopupInv'
  OBVIOUS
<1>1. Popups \subseteq Pushbacks
  BY DEF Popups, Rows
<1>2. Asleep.pc = "asleep"
  BY DEF Asleep
<1>3. CASE (\E o \in Observations : Observe(o)) \/ UNCHANGED vars
  <2>1. UNCHANGED <<pushback, log, crashes, loop>>
    BY <1>3 DEF Observe, vars, criticVars, governorVars, failureVars
  <2> QED
    BY <2>1, LoopPopups
<1>4. CASE FastTick
  <2>1. UNCHANGED <<pushback, log, crashes>> /\ loop'.pc = "woken"
    BY <1>4, LoopIs DEF FastTick, governorVars, failureVars
  <2> QED
    BY <2>1, LoopPopups
<1>5. CASE Ask
  <2>1. UNCHANGED <<pushback, log, crashes>> /\ loop'.pc = "asked" /\ loop'.since = now
    BY <1>5, LoopIs DEF Ask, governorVars
  <2> QED
    BY <2>1, LoopPopups
<1>6. CASE Disclose \/ Failure
  <2>1. UNCHANGED <<pushback, log, crashes>>
    BY <1>6 DEF Disclose, Failure, DiscloseFails, DedupeUnread, GiveUp, StoreFails, governorVars,
                failureVars
  <2>2. \/ loop' = Asleep
        \/ loop.pc = "asked" /\ loop' = [loop EXCEPT !.pc = "answered"]
        \/ loop.pc = "admitted" /\ loop' = [loop EXCEPT !.pc = "blind"]
    BY <1>6 DEF Disclose, Failure, DiscloseFails, DedupeUnread, GiveUp, At
  <2>3. CASE loop' = Asleep
    BY <1>2, <2>1, <2>3, LoopPopups
  <2>4. CASE loop.pc = "asked" /\ loop' = [loop EXCEPT !.pc = "answered"]
    <3>1. loop'.pc = "answered" /\ loop'.since = loop.since
      BY <2>4, LoopIs
    <3> QED
      BY <2>1, <2>4, <3>1, LoopPopups
  <2>5. CASE loop.pc = "admitted" /\ loop' = [loop EXCEPT !.pc = "blind"]
    <3>1. loop'.pc = "blind" /\ loop'.since = loop.since
      BY <2>5, LoopIs
    <3> QED
      BY <2>1, <2>5, <3>1, LoopPopups
  <2> QED
    BY <2>2, <2>3, <2>4, <2>5
<1>7. CASE \E e \in Citations : Drop(e) \/ Doubt(e)
  <2>1. PICK e \in Citations : Drop(e) \/ Doubt(e)
    BY <1>7
  <2>2. /\ UNCHANGED <<pushback, log, crashes>> /\ loop.pc = "answered"
        /\ loop' = Asleep \/ loop' = [loop EXCEPT !.pc = "queue", !.evidence = Valid(e)]
    BY <2>1 DEF Drop, Doubt, Answered, At, governorVars, failureVars
  <2>3. CASE loop' = Asleep
    BY <1>2, <2>2, <2>3, LoopPopups
  <2>4. CASE loop' = [loop EXCEPT !.pc = "queue", !.evidence = Valid(e)]
    <3>1. loop'.pc = "queue" /\ loop'.since = loop.since
      BY <2>4, LoopIs
    <3> QED
      BY <2>2, <3>1, LoopPopups
  <2> QED
    BY <2>2, <2>3, <2>4
<1>8. CASE \E e \in Citations : AskGovernor(e)
  BY <1>8, AdmitPopups
<1>9. CASE Dedupe
  <2>1. /\ UNCHANGED <<pushback, log, crashes>> /\ loop.pc = "admitted"
        /\ loop' = Asleep \/ loop' = [loop EXCEPT !.pc = "show"]
    BY <1>9 DEF Dedupe, At, governorVars, failureVars
  <2>2. CASE loop' = Asleep
    BY <1>2, <2>1, <2>2, LoopPopups
  <2>3. CASE loop' = [loop EXCEPT !.pc = "show"]
    <3>1. loop'.pc = "show" /\ loop'.since = loop.since
      BY <2>3, LoopIs
    <3> QED
      BY <2>1, <3>1, LoopPopups
  <2> QED
    BY <2>1, <2>2, <2>3
<1>10. CASE \E p \in Pushbacks : Show(p)
  BY <1>10, ShowPopups
<1>11. CASE \E p \in Pushbacks : Queue(p)
  <2>1. PICK p \in Pushbacks : Queue(p)
    BY <1>11
  <2>2. /\ UNCHANGED <<crashes, log>> /\ loop' = Asleep /\ p \notin Rows
        /\ InsertPushback(p, "queued")
    BY <2>1 DEF Queue, InsertPushback, governorVars, failureVars
  <2>3. /\ Popups' = Popups
        /\ \A q \in Pushbacks : q # p => pushback'[q] = pushback[q]
    BY <2>2, InsertType
  <2>4. \A q \in Popups : pushback'[q].at = pushback[q].at
    BY <1>1, <2>2, <2>3 DEF Popups
  <2>5. PopupsAreBefore'
    BY <1>2, <2>2, <2>3, <2>4, StillBefore
  <2> QED
    BY <1>2, <2>2, <2>3, <2>4, <2>5, PopupFrame DEF InHand
<1>12. CASE \E p \in Pushbacks, v \in Verdicts : Feedback(p, v)
  <2>1. PICK p \in Pushbacks, v \in Verdicts : Feedback(p, v)
    BY <1>12
  <2>2. /\ UNCHANGED <<loop, crashes, log>>
        /\ pushback' = [pushback EXCEPT ![p].status = v] /\ p \in Rows
    BY <2>1 DEF Feedback, governorVars, failureVars
  <2>3. /\ \A q \in Pushbacks : /\ pushback'[q].at = pushback[q].at
                                /\ pushback'[q].popup = pushback[q].popup
        /\ pushback'[p].status = v
        /\ \A q \in Pushbacks : q # p => pushback'[q] = pushback[q]
    BY <2>2, Facts DEF Row, Statuses
  <2>4. Rows' = Rows
    BY <2>2, <2>3, CriticAssumption DEF CriticAssumption, Rows
  <2>5. Popups' = Popups
    BY <2>3, <2>4 DEF Popups, Rows
  <2>6. \A q \in Popups : pushback'[q].at = pushback[q].at
    BY <1>1, <2>3
  <2>7. PopupsAreBefore'
    BY <2>2, <2>5, <2>6 DEF PopupInv, PopupsAreBefore
  <2> QED
    BY <2>2, <2>5, <2>6, <2>7, PopupFrame DEF InHand
<1>13. CASE Tick
  <2>1. UNCHANGED <<pushback, loop, crashes, log>>
    BY <1>13 DEF Tick, governorVars, failureVars
  <2> QED
    BY <2>1, LoopPopups
<1>14. CASE Crash
  <2>1. loop'.pc = "asleep" /\ crashes' # 0
    BY <1>2, <1>14, LoopIs DEF Crash
  <2> QED
    BY <2>1 DEF PopupInv, InHand, PopupsAreBefore
<1> QED
  BY <1>3, <1>4, <1>5, <1>6, <1>7, <1>8, <1>9, <1>10, <1>11, <1>12, <1>13, <1>14 DEF Next, CriticLoop

LEMMA QuotientGrows ==
  ASSUME NEW e \in Nat, NEW d \in Nat, NEW r \in Nat \ {0}, e <= d
  PROVE  e \div r <= d \div r /\ e \div r \in Nat
<1> DEFINE u == e \div r
           v == d \div r
<1>1. u \in Nat /\ v \in Nat /\ u * r <= e /\ d < (v + 1) * r
  OBVIOUS
<1> HIDE DEF u, v
<1>2. SUFFICES ASSUME u >= v + 1 PROVE FALSE
  BY <1>1 DEF u, v
<1>3. u * r >= (v + 1) * r
  BY <1>1, <1>2
<1>4. u * r \in Nat /\ (v + 1) * r \in Nat
  BY <1>1
<1> QED
  BY <1>1, <1>3, <1>4

LEMMA SmallestOf == ASSUME NEW T \in SUBSET Nat, T # {} PROVE \E n \in T : \A m \in T : n <= m
<1> DEFINE R == OpToRel(<, Nat)
<1>1. IsWellFoundedOn(R, Nat)
  BY NatLessThanWellFounded
<1>2. R = {ss \in Nat \X Nat : ss[1] < ss[2]}
  BY DEF OpToRel
<1> HIDE DEF R
<1>3. PICK n \in T : \A m \in T : ~ (<<m, n>> \in R)
  BY <1>1, WFMin
<1>4. \A m \in T : ~ (m < n)
  BY <1>2, <1>3
<1> QED
  BY <1>4

LEMMA GreatestOf ==
  ASSUME NEW b \in Nat, NEW T \in SUBSET (1 .. b), T # {} PROVE \E n \in T : \A m \in T : m <= n
<1> DEFINE U == {b - m : m \in T}
<1>1. U \in SUBSET Nat /\ U # {}
  <2>1. \A m \in T : b - m \in Nat
    OBVIOUS
  <2> QED
    BY <2>1
<1>2. PICK u \in U : \A v \in U : u <= v
  BY <1>1, SmallestOf
<1>3. PICK n \in T : u = b - n
  BY <1>2
<1>4. ASSUME NEW m \in T PROVE m <= n
  <2>1. b - n <= b - m
    BY <1>2, <1>3
  <2> QED
    BY <2>1
<1> QED
  BY <1>4

\* The admissions of a time are no more than the rate of the mode and the cap allow.
LEMMA AdmissionsOf ==
  ASSUME Inv, ModeRate, NEW a \in Int, NEW d \in Nat,
         NEW T \in SUBSET {k \in DOMAIN log : /\ log[k].mode = Mode /\ a <= log[k].at
                                              /\ log[k].at <= a + d}
  PROVE  /\ IsFiniteSet(T) /\ Cardinality(T) <= Capacity[Mode] + d \div Refill[Mode]
         /\ d < Hour => Cardinality(T) <= Cap
<1>1. /\ Capacity[Mode] \in Nat /\ Refill[Mode] \in Nat \ {0} /\ Cap \in Nat /\ Hour \in Nat
      /\ Mode \in Modes
  BY GovernorAssumption, CriticAssumption DEF CriticAssumption
<1>2. d \div Refill[Mode] \in Nat
  BY <1>1
<1>3. CASE T = {}
  <2>1. IsFiniteSet(T) /\ Cardinality(T) = 0
    BY <1>3, FS_EmptySet
  <2> QED
    BY <1>1, <1>2, <2>1
<1>4. CASE T # {}
  <2>1. T \in SUBSET (1 .. Len(log)) /\ T \in SUBSET Nat /\ Len(log) \in Nat
    BY LogIs
  <2>2. PICK i \in T : \A k \in T : i <= k
    BY <1>4, <2>1, SmallestOf
  <2>3. PICK j \in T : \A k \in T : k <= j
    BY <1>4, <2>1, GreatestOf
  <2>4. /\ i \in DOMAIN log /\ j \in DOMAIN log /\ i \in Nat /\ j \in Nat /\ i <= j
        /\ log[i].mode = Mode /\ log[j].mode = Mode
        /\ log[i].at \in Nat /\ log[j].at \in Nat
        /\ log[j].at - log[i].at <= d
    <3>1. i \in DOMAIN log /\ j \in DOMAIN log /\ i <= j /\ log[i].mode = Mode /\ log[j].mode = Mode
      BY <2>2, <2>3
    <3>2. a <= log[i].at /\ log[j].at <= a + d
      BY <2>2, <2>3
    <3>3. log[i].at \in Nat /\ log[j].at \in Nat /\ i \in Nat /\ j \in Nat
      BY <2>1, <3>1, LogIs
    <3> QED
      BY <3>1, <3>2, <3>3
  <2>5. log[i].at <= log[j].at
    BY <2>4 DEF Inv, WindowIsComplete
  <2> DEFINE K == {k \in i .. j : log[k].mode = Mode}
  <2>6. T \subseteq K
    BY <2>1, <2>2, <2>3
  <2>7. IsFiniteSet(i .. j) /\ Cardinality(i .. j) = j - i + 1
    BY <2>4, FS_Interval
  <2>8. K \subseteq i .. j
    OBVIOUS
  <2>9. IsFiniteSet(K) /\ Cardinality(K) <= j - i + 1
    BY <2>7, <2>8, FS_Subset
  <2> DEFINE e == log[j].at - log[i].at
  <2>10. Cardinality(K) <= Capacity[Mode] + e \div Refill[Mode]
    BY <2>4 DEF ModeRate
  <2>11. IsFiniteSet(T) /\ Cardinality(T) <= Cardinality(K)
    BY <2>6, <2>9, FS_Subset
  <2>12. Cardinality(T) \in Nat /\ Cardinality(K) \in Nat
    BY <2>9, <2>11, FS_CardinalityType
  <2> HIDE DEF K
  <2>13. e \in Nat /\ e <= d
    BY <2>4, <2>5
  <2>14. e \div Refill[Mode] <= d \div Refill[Mode] /\ e \div Refill[Mode] \in Nat
    <3> HIDE DEF e
    <3> QED
      BY <1>1, <2>13, QuotientGrows
  <2>15. Cardinality(T) <= Capacity[Mode] + d \div Refill[Mode]
    <3> HIDE DEF e
    <3> QED
      BY <1>1, <1>2, <2>10, <2>11, <2>12, <2>14
  <2>16. ASSUME d < Hour PROVE Cardinality(T) <= Cap
    <3>1. SUFFICES ASSUME j >= i + Cap PROVE FALSE
      BY <1>1, <2>4, <2>9, <2>11, <2>12
    <3>2. i + Cap \in DOMAIN log
      BY <1>1, <2>1, <2>4, <3>1, LogIs
    <3>3. log[i + Cap].at - log[i].at >= Hour /\ log[i + Cap].at <= log[j].at
      BY <2>4, <3>1, <3>2 DEF Inv, HourlyCap, WindowIsComplete
    <3>4. log[i + Cap].at \in Nat
      BY <3>2, LogIs
    <3> QED
      BY <1>1, <2>4, <2>16, <3>3, <3>4
  <2> QED
    BY <2>11, <2>15, <2>16
<1> QED
  BY <1>3, <1>4

(* All popups of a time but the first come of the admissions of that time. *)
LEMMA PopupsOf == ASSUME Inv, ModeRate, PopupInv PROVE PopupsAreRationed
<1> SUFFICES ASSUME crashes = 0, NEW p \in Popups, NEW q \in Popups,
                    pushback[p].at <= pushback[q].at
             PROVE  LET between == {r \in Popups : /\ pushback[p].at <= pushback[r].at
                                                   /\ pushback[r].at <= pushback[q].at}
                        time    == pushback[q].at - pushback[p].at
                    IN  /\ Cardinality(between) <= 1 + Capacity[Mode] + time \div Refill[Mode]
                        /\ time < Hour => Cardinality(between) <= 1 + Cap
  BY DEF PopupsAreRationed
<1> DEFINE between == {r \in Popups : /\ pushback[p].at <= pushback[r].at
                                      /\ pushback[r].at <= pushback[q].at}
           time    == pushback[q].at - pushback[p].at
           a       == pushback[p].at
           T       == {k \in DOMAIN log : /\ log[k].mode = Mode /\ a <= log[k].at
                                          /\ log[k].at <= a + time}
<1>1. PICK f \in Origins : TRUE
  BY DEF PopupInv
<1>2. \A r \in Popups : pushback[r].at \in Nat
  BY Facts DEF Popups, Rows
<1>3. a \in Int /\ time \in Nat /\ a + time = pushback[q].at
  BY <1>2
<1>4. \A r \in Popups : /\ f[r] \in DOMAIN log /\ CameOf(r, f[r]) /\ f[r] \in Nat
                        /\ log[f[r]].at \in Nat
  <2>1. \A r \in Popups : f[r] \in DOMAIN log /\ CameOf(r, f[r])
    BY DEF Origins
  <2> QED
    BY <2>1, LogIs
<1> DEFINE F == {f[r] : r \in between}
<1>5. PICK first \in between : \A r \in between : f[first] <= f[r]
  <2>1. F \in SUBSET Nat /\ F # {}
    BY <1>2, <1>4
  <2>2. PICK n \in F : \A k \in F : n <= k
    BY <2>1, SmallestOf
  <2> QED
    BY <2>2
<1> DEFINE rest == between \ {first}
<1>6. ASSUME NEW r \in rest PROVE f[r] \in T
  <2>1. r \in Popups /\ first \in Popups /\ f[first] <= f[r] /\ f[first] # f[r]
    BY <1>5 DEF Origins
  <2>2. pushback[first].at <= log[f[r]].at
    BY <1>4, <2>1 DEF Origins
  <2>3. a <= log[f[r]].at
    BY <1>2, <1>4, <2>1, <2>2
  <2>4. log[f[r]].mode = Mode /\ log[f[r]].at <= pushback[r].at
    BY <1>4, <2>1 DEF CameOf
  <2>5. log[f[r]].at <= pushback[q].at
    BY <1>2, <1>4, <2>1, <2>4
  <2> QED
    BY <1>3, <1>4, <2>1, <2>3, <2>4, <2>5
<1>7. [r \in rest |-> f[r]] \in Injection(rest, T)
  <2> DEFINE g == [r \in rest |-> f[r]]
  <2>1. g \in [rest -> T]
    BY <1>6
  <2>2. \A r, t \in rest : g[r] = g[t] => r = t
    BY DEF Origins
  <2> QED
    BY <2>1, <2>2 DEF Injection, IsInjective
<1>8. /\ IsFiniteSet(T) /\ Cardinality(T) <= Capacity[Mode] + time \div Refill[Mode]
      /\ time < Hour => Cardinality(T) <= Cap
  <2> HIDE DEF a, time
  <2> QED
    BY <1>3, AdmissionsOf
<1>9. between = rest \cup {first} /\ first \notin rest
  BY <1>5
<1> HIDE DEF T, between, rest
<1>10. IsFiniteSet(rest) /\ Cardinality(rest) <= Cardinality(T)
  BY <1>7, <1>8, FS_Injection
<1>11. /\ Cardinality(rest) \in Nat /\ Cardinality(T) \in Nat
       /\ Cardinality(between) = Cardinality(rest) + 1
  <2>1. Cardinality(rest) \in Nat /\ Cardinality(T) \in Nat
    BY <1>8, <1>10, FS_CardinalityType
  <2>2. Cardinality(rest \cup {first}) = Cardinality(rest) + 1
    BY <1>9, <1>10, FS_AddElement
  <2> QED
    BY <1>9, <2>1, <2>2
<1>12. Capacity[Mode] \in Nat /\ time \div Refill[Mode] \in Nat /\ Cap \in Nat
  <2>1. Capacity[Mode] \in Nat /\ Refill[Mode] \in Nat \ {0} /\ Cap \in Nat
    BY GovernorAssumption, CriticAssumption DEF CriticAssumption
  <2>2. time \div Refill[Mode] \in Nat
    <3> HIDE DEF time
    <3>1. time \in Nat /\ time <= time
      BY <1>3
    <3> QED
      BY <2>1, <3>1, QuotientGrows
  <2> QED
    BY <2>1, <2>2
<1>13. /\ Cardinality(between) <= 1 + Capacity[Mode] + time \div Refill[Mode]
       /\ time < Hour => Cardinality(between) <= 1 + Cap
  <2> DEFINE div == time \div Refill[Mode]
  <2> HIDE DEF div
  <2>1. /\ Cardinality(T) <= Capacity[Mode] + div /\ div \in Nat
        /\ time < Hour => Cardinality(T) <= Cap
    BY <1>8, <1>12 DEF div
  <2>2. /\ Cardinality(between) <= 1 + Capacity[Mode] + div
        /\ time < Hour => Cardinality(between) <= 1 + Cap
    <3> HIDE DEF time
    <3> QED
      BY <1>10, <1>11, <1>12, <2>1
  <2> QED
    BY <2>2 DEF div
<1> QED
  BY <1>13 DEF between

\* slow_tick: the popups of any time are, but for one, no more than the rate of the mode
\* and the hourly cap allow for that time, for any rates and caps, and however long the
\* model takes to answer.
THEOREM PopupsAreFew == Spec => []PopupsAreRationed
<1>1. Init => PopupInv
  <2> SUFFICES ASSUME Init PROVE PopupInv
    OBVIOUS
  <2>1. Popups = {} /\ loop.pc = "asleep"
    BY DEF Init, Popups, Rows, AbsentRow, Asleep
  <2>2. [p \in {} |-> 0] \in Origins
    BY <2>1 DEF Origins
  <2> QED
    BY <2>1, <2>2 DEF PopupInv, InHand, PopupsAreBefore
<1> QED
  BY <1>1, Invariant, RatesAreKept, NextPopups, PopupsOf, PTL DEF Spec
=============================================================================
