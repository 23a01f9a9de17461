----------------------------- MODULE Memory_proofs -----------------------------
(***************************************************************************)
(* Proofs about Memory, for any observations, sessions, ages and limits.   *)
(*                                                                         *)
(* Only the nightly job changes a memory, and nothing takes one away or    *)
(* changes what it cites or was made of: so what the job has read stays    *)
(* true of the memories it has read, and every other one is newer.  The    *)
(* windows of two nights are apart because the second night begins a day   *)
(* after the first has ended, or later.                                    *)
(***************************************************************************)
EXTENDS Memory, FiniteSetTheorems, TLAPS

Days == {i \in Memories : mems[i].type = "day_summary"}

\* The sessions the hourly job has in hand are closed, and there is one.
QueueInv ==
    /\ hourly.pc \in {"read", "blank", "ask", "summary", "memory"} => hourly.queue # <<>>
    /\ \A i \in DOMAIN hourly.queue : session[hourly.queue[i]] # Nothing

NotFaded == \A i \in Memories : mems[i].faded < ArchiveAfter

\* What the job means to let fade is active, and old enough.
FadingInv ==
    nightly.pc = "fade" => \A i \in nightly.episodes :
        i \in Memories /\ ~mems[i].archived /\ mems[i].updated < nightly.began - DecayAge

ListedInv ==
    nightly.pc = "prune" =>
        /\ nightly.listed <= Len(mems)
        /\ \A i \in 1 .. nightly.listed : mems[i].cites \subseteq nightly.cited

\* The episodes of all day summaries of this run of the daemon are older than this.
Covered ==
    CASE nightly.pc = "wait" -> nightly.due - 2 * Day
      [] nightly.pc \in {"episodes", "ask", "day"} -> nightly.began - 2 * Day
      [] OTHER -> nightly.began - Day

DaysInv ==
    /\ \A i \in Memories : mems[i].epoch <= crashes
    /\ nightly.pc # "dead" =>
          \A i \in Days : mems[i].epoch = crashes =>
              \A e \in mems[i].episodes : e \in Memories /\ mems[e].created < Covered
    /\ nightly.pc \in {"ask", "day"} =>
          \A e \in nightly.episodes : e \in Memories /\ Yesterday(mems[e].created)

NightInv ==
    /\ nightly.began <= now
    /\ NotFaded /\ FadingInv /\ ListedInv /\ DaysInv /\ DaysAreApart

Inv == TypeOK /\ QueueInv /\ NightInv

-------------------------------------------------------------------------------
LEMMA ConstantsType ==
    /\ ProjectOf \in [Observations \cup Sessions -> Projects]
    /\ Nothing \notin Sessions /\ Nothing \notin Int
    /\ EmbedLimit \in Nat /\ Batch \in Nat /\ ShownLimit \in Nat /\ PruneBatch \in Nat
    /\ Day \in Nat /\ Day > 0 /\ ArchiveAfter \in Nat /\ ArchiveAfter > 0
    /\ Span \in Nat /\ DecayAge \in Nat /\ PruneAge \in Nat /\ MaxNow \in Nat
    /\ MaxMemories \in Nat /\ MaxTroubles \in Nat
    /\ IsFiniteSet(Observations) /\ IsFiniteSet(Sessions)
BY MemoryAssumption DEF MemoryAssumption

LEMMA LiveType == Live \subseteq Observations
BY DEF Live

LEMMA BatchType == ASSUME NEW batch \in UnembeddedObservations PROVE batch \subseteq Observations
BY LiveType DEF UnembeddedObservations, Oldest

LEMMA ShownType ==
    ASSUME NEW project, NEW from, NEW to, NEW shown \in ObservationsBetween(project, from, to)
    PROVE  shown \subseteq Observations
BY LiveType DEF ObservationsBetween, Oldest

LEMMA SeqOfFunction ==
    ASSUME NEW S, NEW n \in Nat, NEW f \in [1 .. n -> S] PROVE f \in Seq(S)
OBVIOUS

LEMMA ClosedType ==
    ASSUME NEW q \in ClosedSessionsWithoutSummary
    PROVE  /\ q \in Seq(Sessions)
           /\ \A i \in DOMAIN q : session[q[i]] # Nothing /\ session[q[i]].summary = Nothing
<1>1. PICK T \in SUBSET Unsummarised : q \in [1 .. Cardinality(T) -> T]
  BY DEF ClosedSessionsWithoutSummary, Oldest
<1>2. Unsummarised \subseteq Sessions
  BY DEF Unsummarised
<1>3. IsFiniteSet(T)
  BY <1>1, <1>2, ConstantsType, FS_Subset
<1>4. Cardinality(T) \in Nat
  BY <1>3, FS_CardinalityType
<1>5. q \in Seq(Sessions)
  BY <1>1, <1>2, <1>4, SeqOfFunction
<1> QED
  BY <1>1, <1>5 DEF Unsummarised

LEMMA WindowOfSession ==
    ASSUME TypeOK, NEW s \in Sessions, session[s] # Nothing
    PROVE  session[s] \in Session
BY DEF TypeOK

LEMMA AsleepType ==
    /\ Asleep \in Hourly /\ Asleep.pc = "sleep" /\ Asleep.queue = <<>>
    /\ Asleep.batch = {} /\ Asleep.cites = {}
<1>1. <<>> \in Seq(Sessions)
  OBVIOUS
<1> QED
  BY <1>1 DEF Asleep, Hourly

LEMMA WaitingType ==
    ASSUME NEW due \in Nat
    PROVE  /\ Waiting(due) \in Nightly /\ Waiting(due).pc = "wait" /\ Waiting(due).due = due
           /\ Waiting(due).began = 0 /\ Waiting(due).episodes = {}
BY ConstantsType DEF Waiting, Nightly

LEMMA NextNightType == ASSUME now \in Nat PROVE NextNight \in Nat
<1>1. now \div Day \in Nat
  BY ConstantsType
<1> DEFINE n == now \div Day
<1>2. \A k \in Nat : Day * k \in Nat
  BY ConstantsType
<1>3. Day * n \in Nat
  BY <1>1, <1>2
<1> QED
  BY <1>3, ConstantsType DEF NextNight

LEMMA FaultType == ASSUME TypeOK, Fault PROVE faults' \in Nat /\ faults' + crashes <= MaxTroubles
BY ConstantsType DEF TypeOK, Fault

\* What of a memory never changes.
Same(m, n) ==
    /\ m.type = n.type /\ m.of = n.of /\ m.episodes = n.episodes /\ m.cites = n.cites
    /\ m.created = n.created /\ m.epoch = n.epoch

\* The memories grow, and keep what they are.
Grow ==
    /\ Len(mems') >= Len(mems) /\ Len(mems') \in Nat
    /\ \A i \in Memories : Same(mems'[i], mems[i])

LEMMA MemsAre ==
    ASSUME TypeOK
    PROVE  /\ Len(mems) \in 0 .. MaxMemories /\ Memories = DOMAIN mems
           /\ \A i \in Memories : mems[i] \in Memory /\ i \in 1 .. MaxMemories
<1>1. Len(mems) \in Nat /\ DOMAIN mems = 1 .. Len(mems)
  BY DEF TypeOK
<1>2. \A i \in Memories : mems[i] \in Memory
  BY <1>1 DEF TypeOK, Memories
<1> QED
  BY <1>1, <1>2, ConstantsType DEF TypeOK, Memories

LEMMA AddMemoryIs ==
    ASSUME TypeOK, NEW type \in {"episode_summary", "day_summary"},
           NEW of \in Sessions \cup {Nothing}, NEW episodes \in SUBSET (1 .. MaxMemories),
           NEW cites \in SUBSET Observations, AddMemory(type, of, episodes, cites)
    PROVE  /\ mems' \in Seq(Memory) /\ Len(mems') = Len(mems) + 1 /\ Len(mems') <= MaxMemories
           /\ \A i \in Memories : mems'[i] = mems[i]
           /\ mems'[Len(mems) + 1] =
                  [type |-> type, of |-> of, episodes |-> episodes, cites |-> cites,
                   faded |-> 0, created |-> now, updated |-> now,
                   archived |-> FALSE, epoch |-> crashes]
<1> DEFINE new == [type |-> type, of |-> of, episodes |-> episodes, cites |-> cites,
                   faded |-> 0, created |-> now, updated |-> now,
                   archived |-> FALSE, epoch |-> crashes]
<1>1. new \in Memory
  BY ConstantsType DEF Memory, TypeOK
<1>2. mems' = Append(mems, new) /\ Len(mems) < MaxMemories /\ mems \in Seq(Memory)
  BY DEF AddMemory, TypeOK
<1>3. Len(mems) \in Nat /\ Memories = 1 .. Len(mems)
  BY <1>2 DEF Memories
<1> HIDE DEF new
<1>4. /\ mems' \in Seq(Memory) /\ Len(mems') = Len(mems) + 1 /\ mems'[Len(mems) + 1] = new
      /\ \A i \in Memories : mems'[i] = mems[i]
  BY <1>1, <1>2, <1>3
<1> QED
  BY <1>2, <1>3, <1>4, ConstantsType DEF new

\* A memory that fades once more, or is archived.
LEMMA FadeIs ==
    ASSUME TypeOK, NotFaded, NEW i \in Memories, ~mems[i].archived,
           IF mems[i].faded + 1 = ArchiveAfter THEN ArchiveMemory(i)
           ELSE UpdateMemoryConfidence(i, mems[i].faded + 1)
    PROVE  /\ mems' \in Seq(Memory) /\ Len(mems') = Len(mems)
           /\ \A j \in Memories : j # i => mems'[j] = mems[j]
           /\ Same(mems'[i], mems[i]) /\ mems'[i].faded >= mems[i].faded
           /\ mems'[i].faded < ArchiveAfter
<1>1. mems[i] \in Memory /\ mems \in Seq(Memory) /\ i \in DOMAIN mems
  BY MemsAre DEF TypeOK
<1>2. CASE mems[i].faded + 1 = ArchiveAfter
  <2> DEFINE new == [mems[i] EXCEPT !.archived = TRUE, !.updated = now]
  <2>1. mems' = [mems EXCEPT ![i] = new]
    BY <1>1, <1>2 DEF ArchiveMemory
  <2>2. /\ new \in Memory /\ new.faded = mems[i].faded /\ Same(new, mems[i])
    BY <1>1 DEF Memory, TypeOK, Same
  <2> HIDE DEF new
  <2>3. mems' \in Seq(Memory) /\ Len(mems') = Len(mems) /\ mems'[i] = new
    BY <1>1, <2>1, <2>2
  <2> QED
    BY <1>1, <2>1, <2>2, <2>3, MemsAre, SMTT(30) DEF NotFaded, Memory
<1>3. CASE mems[i].faded + 1 # ArchiveAfter
  <2> DEFINE new == [mems[i] EXCEPT !.faded = mems[i].faded + 1, !.updated = now]
  <2>1. mems' = [mems EXCEPT ![i] = new]
    BY <1>1, <1>3 DEF UpdateMemoryConfidence
  <2>2. mems[i].faded \in Nat /\ mems[i].faded < ArchiveAfter
    BY <1>1, ConstantsType DEF NotFaded, Memory
  <2>3. /\ new \in Memory /\ new.faded = mems[i].faded + 1 /\ Same(new, mems[i])
    <3>1. mems[i].faded + 1 \in 0 .. ArchiveAfter /\ now \in 0 .. MaxNow
      BY <2>2, ConstantsType DEF TypeOK
    <3>2. new \in Memory
      BY <1>1, <3>1 DEF Memory
    <3> QED
      BY <1>1, <3>2 DEF Memory, Same
  <2> HIDE DEF new
  <2>4. mems' \in Seq(Memory) /\ Len(mems') = Len(mems) /\ mems'[i] = new
    BY <1>1, <2>1, <2>3
  <2>5. new.faded < ArchiveAfter /\ new.faded >= mems[i].faded
    BY <1>3, <2>2, <2>3, ConstantsType
  <2>6. \A j \in Memories : j # i => mems'[j] = mems[j]
    BY <1>1, <2>1, MemsAre
  <2> QED
    BY <2>3, <2>4, <2>5, <2>6
<1> QED
  BY <1>2, <1>3

-------------------------------------------------------------------------------
(* The hourly job.                                                          *)

LEMMA HourlyIs ==
    ASSUME TypeOK
    PROVE  /\ hourly.queue \in Seq(Sessions) /\ hourly.batch \subseteq Observations
           /\ hourly.cites \subseteq Observations
           /\ hourly = [pc |-> hourly.pc, batch |-> hourly.batch, queue |-> hourly.queue,
                        cites |-> hourly.cites]
BY DEF TypeOK, Hourly

LEMMA HeadIs ==
    ASSUME TypeOK, QueueInv, hourly.pc \in {"read", "blank", "ask", "summary", "memory"}
    PROVE  /\ hourly.queue # <<>> /\ Head(hourly.queue) \in Sessions
           /\ session[Head(hourly.queue)] # Nothing
BY HourlyIs DEF QueueInv

LEMMA SummaryIs ==
    ASSUME TypeOK, NEW s \in Sessions, session[s] # Nothing, NEW summary \in {"empty", "text"},
           SetSessionSummary(s, summary)
    PROVE  /\ session' \in [Sessions -> Session \cup {Nothing}]
           /\ \A t \in Sessions : session[t] # Nothing => session'[t] # Nothing
<1>1. session[s] \in Session
  BY WindowOfSession
<1>2. [session[s] EXCEPT !.summary = summary] \in Session
  BY <1>1 DEF Session
<1>3. session' = [session EXCEPT ![s] = [session[s] EXCEPT !.summary = summary]]
  BY DEF SetSessionSummary
<1> QED
  BY <1>2, <1>3, NothingAssumption DEF NothingAssumption, TypeOK

LEMMA EmptyIs == ASSUME NEW S, NEW q \in Seq(S) PROVE Len(q) \in Nat /\ (q = <<>> <=> Len(q) = 0)
OBVIOUS

LEMMA TailIs ==
    ASSUME NEW S, NEW q \in Seq(S), Len(q) > 1
    PROVE  /\ Tail(q) \in Seq(S) /\ Tail(q) # <<>>
           /\ \A i \in DOMAIN Tail(q) : i + 1 \in DOMAIN q /\ Tail(q)[i] = q[i + 1]
<1>1. Tail(q) \in Seq(S) /\ Len(Tail(q)) = Len(q) - 1 /\ Len(q) \in Nat
  OBVIOUS
<1>2. \A i \in 1 .. Len(q) - 1 : Tail(q)[i] = q[i + 1]
  OBVIOUS
<1>3. Len(Tail(q)) # 0
  BY <1>1
<1>4. Tail(q) # <<>>
  BY <1>1, <1>3, EmptyIs
<1>5. DOMAIN Tail(q) = 1 .. Len(q) - 1 /\ DOMAIN q = 1 .. Len(q)
  BY <1>1
<1> QED
  BY <1>1, <1>2, <1>4, <1>5

\* The next session of the batch, or sleep.
LEMMA NextSessionIs ==
    ASSUME TypeOK, QueueInv, hourly.queue # <<>>, NextSession
    PROVE  /\ hourly' \in Hourly
           /\ \A i \in DOMAIN hourly'.queue : i + 1 \in DOMAIN hourly.queue
                                             /\ hourly'.queue[i] = hourly.queue[i + 1]
           /\ hourly'.pc = "sleep" \/ (hourly'.pc = "read" /\ hourly'.queue # <<>>)
<1>1. CASE Len(hourly.queue) = 1
  <2>1. hourly' = Asleep
    BY <1>1 DEF NextSession
  <2> QED
    BY <2>1, AsleepType
<1>2. CASE Len(hourly.queue) # 1
  <2>1. hourly' = [hourly EXCEPT !.pc = "read", !.queue = Tail(hourly.queue), !.batch = {}, !.cites = {}]
    BY <1>2 DEF NextSession
  <2>2. /\ Tail(hourly.queue) \in Seq(Sessions) /\ Len(hourly.queue) > 1
        /\ Tail(hourly.queue) # <<>>
        /\ \A i \in DOMAIN Tail(hourly.queue) :
              i + 1 \in DOMAIN hourly.queue /\ Tail(hourly.queue)[i] = hourly.queue[i + 1]
    <3>1. Len(hourly.queue) > 1
      <4>1. Len(hourly.queue) \in Nat /\ Len(hourly.queue) # 0
        BY HourlyIs, EmptyIs
      <4>2. \A n \in Nat : n # 0 /\ n # 1 => n > 1
        OBVIOUS
      <4> QED
        BY <1>2, <4>1, <4>2
    <3> QED
      BY <3>1, HourlyIs, TailIs
  <2>3. /\ hourly' = [pc |-> "read", batch |-> {}, queue |-> Tail(hourly.queue), cites |-> {}]
    BY <2>1, HourlyIs
  <2>4. hourly' \in Hourly
    BY <2>2, <2>3 DEF Hourly
  <2> QED
    BY <2>2, <2>3, <2>4
<1> QED
  BY <1>1, <1>2

LEMMA NextSessionInv ==
    ASSUME TypeOK, QueueInv, hourly.queue # <<>>, NextSession,
           \A s \in Sessions : session[s] # Nothing => session'[s] # Nothing
    PROVE  hourly' \in Hourly /\ QueueInv'
<1>1. \A i \in DOMAIN hourly.queue : hourly.queue[i] \in Sessions
  BY HourlyIs
<1> QED
  BY <1>1, NextSessionIs DEF QueueInv

\* A step of the job that leaves the sessions, the memories and the vectors alone.
LEMMA HourlyTyped ==
    ASSUME TypeOK, hourly' \in Hourly, UNCHANGED <<now, tables, nightly, crashes>>,
           Fault \/ faults' = faults
    PROVE  TypeOK'
BY FaultType DEF TypeOK, tables

LEMMA HourlyReads ==
    ASSUME TypeOK, QueueInv,
           \/ HourlyBegin \/ EmbedAnswer \/ ReadSessions \/ ReadSession \/ SummaryAnswer
           \/ SummaryFails
    PROVE  /\ TypeOK' /\ QueueInv'
           /\ UNCHANGED <<now, mems, nightly, crashes>>
<1>1. UNCHANGED <<now, tables, nightly, crashes>> /\ (Fault \/ faults' = faults)
  BY DEF HourlyBegin, EmbedAnswer, ReadSessions, ReadSession, SummaryAnswer, SummaryFails
<1>2. hourly' = Asleep => hourly' \in Hourly /\ QueueInv'
  BY AsleepType DEF QueueInv
<1>3. ListSessions => hourly' \in Hourly /\ QueueInv'
  <2> SUFFICES ASSUME ListSessions PROVE hourly' \in Hourly /\ QueueInv'
    OBVIOUS
  <2>1. hourly' \in Hourly /\ hourly'.queue = <<>> /\ hourly'.pc = "list"
    BY AsleepType DEF ListSessions, Hourly
  <2> QED
    BY <2>1 DEF QueueInv
<1>4. hourly' \in Hourly /\ QueueInv'
  <2>1. ASSUME NEW batch \in UnembeddedObservations,
               hourly' = [Asleep EXCEPT !.pc = "embed", !.batch = batch]
        PROVE  hourly' \in Hourly /\ QueueInv'
    <3>1. hourly' \in Hourly /\ hourly'.queue = <<>> /\ hourly'.pc = "embed"
      BY <2>1, BatchType, AsleepType DEF Hourly
    <3> QED
      BY <3>1 DEF QueueInv
  <2>2. CASE HourlyBegin
    BY <1>3, <2>1, <2>2 DEF HourlyBegin
  <2>3. CASE EmbedAnswer
    <3>1. ASSUME hourly' = [hourly EXCEPT !.pc = "vectors"] PROVE hourly' \in Hourly /\ QueueInv'
      <4>1. hourly' \in Hourly /\ hourly'.queue = hourly.queue /\ hourly'.pc = "vectors"
        BY <3>1 DEF TypeOK, Hourly
      <4> QED
        BY <1>1, <4>1 DEF QueueInv, tables
    <3> QED
      BY <1>3, <2>3, <3>1 DEF EmbedAnswer
  <2>4. CASE ReadSessions
    <3>1. ASSUME NEW q \in ClosedSessionsWithoutSummary, q # <<>>,
                 hourly' = [hourly EXCEPT !.pc = "read", !.queue = q]
          PROVE  hourly' \in Hourly /\ QueueInv'
      <4>1. q \in Seq(Sessions) /\ \A i \in DOMAIN q : session[q[i]] # Nothing
        BY ClosedType
      <4>2. hourly' \in Hourly /\ hourly'.queue = q
        BY <3>1, <4>1 DEF TypeOK, Hourly
      <4> QED
        BY <1>1, <3>1, <4>1, <4>2 DEF QueueInv, tables
    <3> QED
      BY <1>2, <2>4, <3>1 DEF ReadSessions
  <2>5. CASE ReadSession
    <3> DEFINE s == Head(hourly.queue)
    <3>1. hourly.pc = "read" /\ hourly.queue # <<>>
      BY <2>5, HeadIs DEF ReadSession
    <3>2. ASSUME NEW shown \in ObservationsBetween(ProjectOf[s], session[s].started, session[s].ended),
                 hourly' = CASE shown = {} -> [hourly EXCEPT !.pc = "blank"]
                              [] shown \cap Wide # {} -> [Asleep EXCEPT !.pc = "dead"]
                              [] OTHER -> [hourly EXCEPT !.pc = "ask", !.batch = shown]
          PROVE  hourly' \in Hourly /\ QueueInv'
      <4>1. shown \subseteq Observations
        BY ShownType
      <4>2. CASE hourly' = [hourly EXCEPT !.pc = "blank"]
        <5>1. hourly' \in Hourly /\ hourly'.queue = hourly.queue
          BY <4>2 DEF TypeOK, Hourly
        <5> QED
          BY <1>1, <3>1, <5>1 DEF QueueInv, tables
      <4>3. CASE hourly' = [Asleep EXCEPT !.pc = "dead"]
        <5>1. hourly' \in Hourly /\ hourly'.queue = <<>> /\ hourly'.pc = "dead"
          BY <4>3, AsleepType DEF Hourly
        <5> QED
          BY <5>1 DEF QueueInv
      <4>4. CASE hourly' = [hourly EXCEPT !.pc = "ask", !.batch = shown]
        <5>1. hourly' \in Hourly /\ hourly'.queue = hourly.queue
          BY <4>1, <4>4 DEF TypeOK, Hourly
        <5> QED
          BY <1>1, <3>1, <5>1 DEF QueueInv, tables
      <4> QED
        BY <3>2, <4>2, <4>3, <4>4
    <3> QED
      BY <1>2, <2>5, <3>2 DEF ReadSession
  <2>6. CASE SummaryAnswer
    <3>1. PICK cites \in SUBSET Observations :
            hourly' = [hourly EXCEPT !.pc = "summary", !.batch = {}, !.cites = cites]
      BY <2>6 DEF SummaryAnswer
    <3>2. hourly' \in Hourly /\ hourly'.queue = hourly.queue
      BY <3>1, HourlyIs DEF TypeOK, Hourly
    <3> QED
      BY <1>1, <2>6, <3>2, HeadIs DEF QueueInv, SummaryAnswer, tables
  <2>7. CASE SummaryFails
    BY <1>1, <2>7, HeadIs, NextSessionInv DEF SummaryFails, tables
  <2> QED
    BY <2>2, <2>3, <2>4, <2>5, <2>6, <2>7
<1> QED
  BY <1>1, <1>4, HourlyTyped DEF tables

LEMMA HourlyWrites ==
    ASSUME TypeOK, QueueInv, StoreVector \/ WriteBlank \/ WriteSummary
    PROVE  /\ TypeOK' /\ QueueInv'
           /\ UNCHANGED <<now, mems, nightly, crashes>>
<1>1. CASE StoreVector
  <2>1. PICK o \in hourly.batch :
          /\ \/ SetObservationEmbedding(o) /\ UNCHANGED faults
             \/ Fault /\ UNCHANGED vecs
          /\ hourly' = IF hourly.batch = {o} THEN [Asleep EXCEPT !.pc = "list"]
                       ELSE [hourly EXCEPT !.batch = @ \ {o}]
    BY <1>1 DEF StoreVector
  <2>2. /\ UNCHANGED <<now, obs, session, mems, retention, nightly, crashes>>
        /\ vecs' \subseteq Observations /\ (Fault \/ faults' = faults)
    BY <1>1, <2>1, HourlyIs DEF StoreVector, SetObservationEmbedding, TypeOK
  <2>3. hourly' \in Hourly /\ QueueInv'
    <3>1. CASE hourly' = [Asleep EXCEPT !.pc = "list"]
      <4>1. hourly' \in Hourly /\ hourly'.queue = <<>> /\ hourly'.pc = "list"
        BY <3>1, AsleepType DEF Hourly
      <4> QED
        BY <4>1 DEF QueueInv
    <3>2. CASE hourly' = [hourly EXCEPT !.batch = @ \ {o}]
      <4>1. hourly' \in Hourly /\ hourly'.queue = hourly.queue /\ hourly'.pc = hourly.pc
        BY <3>2 DEF TypeOK, Hourly
      <4> QED
        BY <2>2, <4>1 DEF QueueInv
    <3> QED
      BY <2>1, <3>1, <3>2
  <2> QED
    BY <2>2, <2>3, FaultType DEF TypeOK
<1>2. CASE WriteBlank
  <2> DEFINE s == Head(hourly.queue)
  <2>1. hourly.queue # <<>> /\ s \in Sessions /\ session[s] # Nothing
    BY <1>2, HeadIs DEF WriteBlank
  <2>2. /\ NextSession /\ (Fault \/ faults' = faults)
        /\ UNCHANGED <<now, obs, vecs, mems, retention, nightly, crashes>>
        /\ SetSessionSummary(s, "empty") \/ session' = session
    BY <1>2 DEF WriteBlank
  <2> HIDE DEF s
  <2>3. /\ session' \in [Sessions -> Session \cup {Nothing}]
        /\ \A t \in Sessions : session[t] # Nothing => session'[t] # Nothing
    BY <2>1, <2>2, SummaryIs DEF TypeOK
  <2>4. hourly' \in Hourly /\ QueueInv'
    BY <2>1, <2>2, <2>3, NextSessionInv
  <2> QED
    BY <2>2, <2>3, <2>4, FaultType DEF TypeOK
<1>3. CASE WriteSummary
  <2> DEFINE s == Head(hourly.queue)
  <2>1. hourly.queue # <<>> /\ s \in Sessions /\ session[s] # Nothing
    BY <1>3, HeadIs DEF WriteSummary
  <2>2. /\ hourly' = [hourly EXCEPT !.pc = "memory"] /\ (Fault \/ faults' = faults)
        /\ UNCHANGED <<now, obs, vecs, mems, retention, nightly, crashes>>
        /\ SetSessionSummary(s, "text") \/ session' = session
    BY <1>3 DEF WriteSummary
  <2> HIDE DEF s
  <2>3. /\ session' \in [Sessions -> Session \cup {Nothing}]
        /\ \A t \in Sessions : session[t] # Nothing => session'[t] # Nothing
    BY <2>1, <2>2, SummaryIs DEF TypeOK
  <2>4. hourly' \in Hourly /\ hourly'.queue = hourly.queue
    BY <2>2 DEF TypeOK, Hourly
  <2>5. QueueInv'
    <3>1. \A i \in DOMAIN hourly.queue : hourly.queue[i] \in Sessions
      BY HourlyIs
    <3> QED
      BY <2>1, <2>3, <2>4, <3>1 DEF QueueInv
  <2> QED
    BY <2>2, <2>3, <2>4, <2>5, FaultType DEF TypeOK
<1> QED
  BY <1>1, <1>2, <1>3

-------------------------------------------------------------------------------
(* The memories and the nightly job.                                        *)

LEMMA NightlyIs ==
    ASSUME TypeOK
    PROVE  /\ nightly.due \in Nat /\ nightly.began \in 0 .. MaxNow /\ nightly.began \in Int
           /\ nightly.episodes \subseteq 1 .. MaxMemories /\ nightly.listed \in 0 .. MaxMemories
           /\ nightly.cited \subseteq Observations /\ nightly.deleted \in Nat
           /\ now \in 0 .. MaxNow /\ now \in Int /\ crashes \in Nat
BY ConstantsType DEF TypeOK, Nightly

LEMMA CoveredType == ASSUME TypeOK PROVE Covered \in Int
BY NightlyIs, ConstantsType DEF Covered

LEMMA CreatedType == ASSUME TypeOK, NEW i \in Memories PROVE mems[i].created \in Int
<1>1. mems[i] \in Memory
  BY MemsAre
<1> QED
  BY <1>1, ConstantsType DEF Memory

LEMMA NightFrame ==
    ASSUME TypeOK, NightInv, UNCHANGED <<mems, nightly, crashes>>, now' \in Int, now' >= now
    PROVE  NightInv'
<1>1. nightly'.began <= now'
  BY NightlyIs DEF NightInv
<1>2. NotFaded' /\ FadingInv' /\ ListedInv' /\ DaysAreApart'
  BY DEF NightInv, NotFaded, FadingInv, ListedInv, DaysAreApart, Memories
<1>3. DaysInv'
  BY DEF NightInv, DaysInv, Days, Memories, Covered, Yesterday
<1> QED
  BY <1>1, <1>2, <1>3 DEF NightInv

\* A step of the nightly job that leaves the memories alone.
LEMMA NightMoves ==
    ASSUME TypeOK, NightInv, UNCHANGED <<now, mems, crashes>>,
           nightly' \in Nightly, nightly'.began <= now, FadingInv', ListedInv',
           nightly.pc # "dead", nightly'.pc # "dead" => Covered' \in Int /\ Covered' >= Covered,
           nightly'.pc \in {"ask", "day"} =>
              \A e \in nightly'.episodes : e \in Memories /\ Yesterday(mems[e].created)'
    PROVE  NightInv'
<1>1. NotFaded' /\ DaysAreApart'
  BY DEF NightInv, NotFaded, DaysAreApart, Memories
<1>2. Memories' = Memories /\ Days' = Days
  BY DEF Memories, Days
<1>3. ASSUME nightly'.pc # "dead", NEW i \in Days', (mems[i].epoch = crashes)', NEW e \in (mems[i].episodes)'
      PROVE  e \in Memories' /\ (mems[e].created)' < Covered'
  <2>1. e \in Memories /\ mems[e].created < Covered
    BY <1>2, <1>3 DEF NightInv, DaysInv
  <2>2. Covered \in Int /\ mems[e].created \in Int
    BY <2>1, CoveredType, CreatedType
  <2> QED
    BY <1>2, <1>3, <2>1, <2>2
<1>4. DaysInv'
  BY <1>2, <1>3 DEF NightInv, DaysInv
<1> QED
  BY <1>1, <1>4 DEF NightInv

\* The job sleeps until a day from now, and that is after the windows it has covered.
LEMMA SleepInv ==
    ASSUME TypeOK, NightInv, Sleep, UNCHANGED <<now, mems, crashes>>, nightly.pc # "dead",
           nightly.pc = "wait" => now >= nightly.due
    PROVE  nightly' \in Nightly /\ NightInv'
<1>1. now + Day \in Nat
  BY NightlyIs, ConstantsType
<1>2. /\ nightly' \in Nightly /\ nightly'.pc = "wait" /\ nightly'.due = now + Day
      /\ nightly'.began = 0
  BY <1>1, WaitingType DEF Sleep
<1>3. Covered' = nightly'.due - 2 * Day
  BY <1>2 DEF Covered
<1>4. Covered' \in Int /\ Covered' >= Covered
  <2>1. Covered' = now - Day /\ now - Day \in Int
    BY <1>2, <1>3, NightlyIs, ConstantsType
  <2>2. CASE nightly.pc = "wait"
    <3>1. Covered = nightly.due - 2 * Day
      BY <2>2 DEF Covered
    <3> QED
      BY <2>1, <2>2, <3>1, NightlyIs, ConstantsType
  <2>3. CASE nightly.pc # "wait"
    <3>1. Covered = nightly.began - Day \/ Covered = nightly.began - 2 * Day
      BY <2>3 DEF Covered
    <3>2. nightly.began <= now
      BY DEF NightInv
    <3> QED
      BY <2>1, <3>1, <3>2, NightlyIs, ConstantsType
  <2> QED
    BY <2>2, <2>3
<1>5. FadingInv' /\ ListedInv'
  BY <1>2 DEF FadingInv, ListedInv
<1>6. 0 <= now
  BY NightlyIs
<1> QED
  BY <1>2, <1>4, <1>5, <1>6, NightMoves

LEMMA AddEpisodeInv ==
    ASSUME TypeOK, NightInv, NEW of \in Sessions \cup {Nothing}, NEW cites \in SUBSET Observations,
           AddMemory("episode_summary", of, {}, cites), UNCHANGED <<now, nightly, crashes>>
    PROVE  NightInv'
<1>1. /\ mems' \in Seq(Memory) /\ Len(mems') = Len(mems) + 1
      /\ \A i \in Memories : mems'[i] = mems[i]
      /\ mems'[Len(mems) + 1].type = "episode_summary"
      /\ mems'[Len(mems) + 1].faded = 0 /\ mems'[Len(mems) + 1].epoch = crashes
  <2>1. {} \in SUBSET (1 .. MaxMemories) /\ "episode_summary" \in {"episode_summary", "day_summary"}
    OBVIOUS
  <2>2. /\ mems' \in Seq(Memory) /\ Len(mems') = Len(mems) + 1
        /\ \A i \in Memories : mems'[i] = mems[i]
        /\ mems'[Len(mems) + 1] =
               [type |-> "episode_summary", of |-> of, episodes |-> {}, cites |-> cites,
                faded |-> 0, created |-> now, updated |-> now,
                archived |-> FALSE, epoch |-> crashes]
    BY <2>1, AddMemoryIs
  <2> QED
    BY <2>2
<1>2. Len(mems) \in Nat /\ Memories' = Memories \cup {Len(mems) + 1} /\ Len(mems) + 1 \notin Memories
  BY <1>1, MemsAre DEF Memories
<1>3. Days' = Days
  BY <1>1, <1>2 DEF Days
<1>4. NotFaded' /\ FadingInv' /\ ListedInv'
  <2>1. \A i \in 1 .. nightly.listed : nightly.listed <= Len(mems) => i \in Memories
    BY <1>2, NightlyIs DEF Memories
  <2>2. NotFaded'
    <3>1. ASSUME NEW i \in Memories' PROVE (mems[i].faded < ArchiveAfter)'
      <4>1. CASE i \in Memories
        BY <1>1, <4>1 DEF NightInv, NotFaded
      <4>2. CASE i = Len(mems) + 1
        BY <1>1, <4>2, ConstantsType
      <4> QED
        BY <1>2, <4>1, <4>2
    <3> QED
      BY <3>1 DEF NotFaded
  <2>3. FadingInv'
    BY <1>1, <1>2 DEF NightInv, FadingInv
  <2>4. ListedInv'
    BY <1>1, <1>2, <2>1, NightlyIs DEF NightInv, ListedInv
  <2> QED
    BY <2>2, <2>3, <2>4
<1>5. DaysInv'
  <2>1. Covered' = Covered
    BY DEF Covered
  <2>2. (\A i \in Memories : mems[i].epoch <= crashes)'
    <3>1. ASSUME NEW i \in Memories' PROVE (mems[i].epoch <= crashes)'
      <4>1. CASE i \in Memories
        BY <1>1, <4>1 DEF NightInv, DaysInv
      <4>2. CASE i = Len(mems) + 1
        BY <1>1, <4>2, NightlyIs
      <4> QED
        BY <1>2, <4>1, <4>2
    <3> QED
      BY <3>1
  <2>3. ASSUME nightly'.pc # "dead", NEW i \in Days', (mems[i].epoch = crashes)', NEW e \in (mems[i].episodes)'
        PROVE  e \in Memories' /\ (mems[e].created)' < Covered'
    <3>1. i \in Days /\ mems'[i] = mems[i]
      BY <1>1, <1>3, <2>3 DEF Days
    <3>2. e \in Memories /\ mems[e].created < Covered
      BY <2>3, <3>1 DEF NightInv, DaysInv
    <3> QED
      BY <1>1, <1>2, <2>1, <3>2
  <2>4. ASSUME nightly'.pc \in {"ask", "day"}, NEW e \in nightly'.episodes
        PROVE  e \in Memories' /\ Yesterday(mems[e].created)'
    <3>1. e \in Memories /\ Yesterday(mems[e].created)
      BY <2>4 DEF NightInv, DaysInv
    <3> QED
      BY <1>1, <1>2, <3>1 DEF Yesterday
  <2> QED
    BY <2>2, <2>3, <2>4 DEF DaysInv
<1>6. DaysAreApart'
  <2>1. ASSUME NEW i \in Days, NEW j \in Days, i # j, mems[i].epoch = mems[j].epoch
        PROVE  mems[i].episodes \cap mems[j].episodes = {}
    BY <2>1 DEF NightInv, DaysAreApart, Days
  <2>2. ASSUME NEW i \in Days', NEW j \in Days', i # j, (mems[i].epoch = mems[j].epoch)'
        PROVE  (mems[i].episodes \cap mems[j].episodes = {})'
    BY <1>1, <1>3, <2>1, <2>2 DEF Days
  <2> QED
    BY <2>2 DEF DaysAreApart, Days
<1> QED
  BY <1>1, <1>2, <1>4, <1>5, <1>6 DEF NightInv

LEMMA WriteEpisodeInv == ASSUME Inv, WriteEpisode PROVE Inv'
<1> USE DEF Inv
<1>1. hourly.queue # <<>> /\ Head(hourly.queue) \in Sessions
  BY HeadIs DEF WriteEpisode
<1>2. /\ NextSession /\ (Fault \/ faults' = faults)
      /\ UNCHANGED <<now, obs, vecs, session, retention, nightly, crashes>>
      /\ AddMemory("episode_summary", Head(hourly.queue), {}, hourly.cites) \/ mems' = mems
  BY DEF WriteEpisode
<1>3. hourly' \in Hourly /\ QueueInv'
  BY <1>1, <1>2, NextSessionInv
<1>4. CASE mems' = mems
  <2>1. NightInv'
    BY <1>2, <1>4, NightFrame, NightlyIs
  <2> QED
    BY <1>2, <1>3, <1>4, <2>1, FaultType DEF TypeOK
<1>5. CASE AddMemory("episode_summary", Head(hourly.queue), {}, hourly.cites)
  <2>1. hourly.cites \in SUBSET Observations
    BY HourlyIs
  <2>2. NightInv'
    BY <1>1, <1>2, <1>5, <2>1, AddEpisodeInv
  <2>3. mems' \in Seq(Memory) /\ Len(mems') <= MaxMemories
    BY <1>1, <1>5, <2>1, AddMemoryIs
  <2> QED
    BY <1>2, <1>3, <2>2, <2>3, FaultType DEF TypeOK
<1> QED
  BY <1>2, <1>4, <1>5

LEMMA NightlyBeginInv == ASSUME Inv, NightlyBegin PROVE nightly' \in Nightly /\ NightInv'
<1> USE DEF Inv
<1>1. nightly.pc = "wait" /\ now >= nightly.due /\ UNCHANGED <<now, mems, crashes>>
  BY DEF NightlyBegin, tables
<1>2. ASSUME nightly' = [nightly EXCEPT !.pc = "episodes", !.began = now]
             \/ nightly' = [nightly EXCEPT !.pc = "decay", !.began = now]
      PROVE  nightly' \in Nightly /\ NightInv'
  <2>1. /\ nightly' \in Nightly /\ nightly'.pc \in {"episodes", "decay"} /\ nightly'.began = now
    BY <1>2, NightlyIs DEF TypeOK, Nightly
  <2>2. Covered = nightly.due - 2 * Day /\ Covered' \in {now - 2 * Day, now - Day}
    BY <1>1, <2>1 DEF Covered
  <2>3. Covered' \in Int /\ Covered' >= Covered
    BY <1>1, <2>2, NightlyIs, ConstantsType
  <2>4. FadingInv' /\ ListedInv'
    BY <2>1 DEF FadingInv, ListedInv
  <2> QED
    BY <1>1, <2>1, <2>3, <2>4, NightMoves, NightlyIs
<1> QED
  BY <1>1, <1>2, SleepInv DEF NightlyBegin

LEMMA ReadEpisodesInv == ASSUME Inv, ReadEpisodes PROVE nightly' \in Nightly /\ NightInv'
<1> USE DEF Inv
<1> DEFINE yesterday == {i \in ListMemories(FALSE) : /\ mems[i].type = "episode_summary"
                                                     /\ Yesterday(mems[i].created)}
<1>1. nightly.pc = "episodes" /\ UNCHANGED <<now, mems, crashes>>
  BY DEF ReadEpisodes, tables
<1>2. yesterday \subseteq Memories /\ \A e \in yesterday : Yesterday(mems[e].created)
  BY DEF ListMemories
<1>3. yesterday \subseteq 1 .. MaxMemories
  BY <1>2, MemsAre
<1> HIDE DEF yesterday
<1>4. Covered = nightly.began - 2 * Day
  BY <1>1 DEF Covered
<1>5. CASE nightly' = [nightly EXCEPT !.pc = "decay"]
  <2>1. nightly' \in Nightly /\ nightly'.pc = "decay" /\ nightly'.began = nightly.began
    BY <1>5 DEF TypeOK, Nightly
  <2>2. Covered' = nightly.began - Day
    BY <2>1 DEF Covered
  <2>3. Covered' \in Int /\ Covered' >= Covered
    BY <1>4, <2>2, NightlyIs, ConstantsType
  <2>4. FadingInv' /\ ListedInv'
    BY <2>1 DEF FadingInv, ListedInv
  <2> QED
    BY <1>1, <2>1, <2>3, <2>4, NightMoves DEF NightInv
<1>6. CASE nightly' = [Waiting(nightly.due) EXCEPT !.pc = "dead"]
  <2>1. nightly' \in Nightly /\ nightly'.pc = "dead" /\ nightly'.began = 0
    BY <1>6, NightlyIs, WaitingType DEF Nightly
  <2>2. FadingInv' /\ ListedInv'
    BY <2>1 DEF FadingInv, ListedInv
  <2> QED
    BY <1>1, <2>1, <2>2, NightMoves, NightlyIs
<1>7. CASE nightly' = [nightly EXCEPT !.pc = "ask", !.episodes = yesterday]
  <2>1. /\ nightly' \in Nightly /\ nightly'.pc = "ask" /\ nightly'.began = nightly.began
        /\ nightly'.episodes = yesterday
    BY <1>3, <1>7 DEF TypeOK, Nightly
  <2>2. Covered' = nightly.began - 2 * Day
    BY <2>1 DEF Covered
  <2>3. Covered' \in Int /\ Covered' >= Covered
    BY <1>4, <2>2, NightlyIs, ConstantsType
  <2>4. FadingInv' /\ ListedInv'
    BY <2>1 DEF FadingInv, ListedInv
  <2>5. \A e \in nightly'.episodes : e \in Memories /\ Yesterday(mems[e].created)'
    BY <1>1, <1>2, <2>1 DEF Yesterday
  <2> QED
    BY <1>1, <2>1, <2>3, <2>4, <2>5, NightMoves DEF NightInv
<1>8. CASE Sleep
  BY <1>1, <1>8, SleepInv
<1> QED
  BY <1>5, <1>6, <1>7, <1>8 DEF ReadEpisodes, yesterday

LEMMA DayAnswerInv == ASSUME Inv, DayAnswer PROVE nightly' \in Nightly /\ NightInv'
<1> USE DEF Inv
<1>1. nightly.pc = "ask" /\ UNCHANGED <<now, mems, crashes>>
  BY DEF DayAnswer, tables
<1>2. Covered = nightly.began - 2 * Day
  BY <1>1 DEF Covered
<1>3. CASE nightly' = [nightly EXCEPT !.pc = "day"]
  <2>1. /\ nightly' \in Nightly /\ nightly'.pc = "day" /\ nightly'.began = nightly.began
        /\ nightly'.episodes = nightly.episodes
    BY <1>3 DEF TypeOK, Nightly
  <2>2. Covered' = Covered
    BY <1>2, <2>1 DEF Covered
  <2>3. FadingInv' /\ ListedInv'
    BY <2>1 DEF FadingInv, ListedInv
  <2>4. \A e \in nightly'.episodes : e \in Memories /\ Yesterday(mems[e].created)'
    BY <1>1, <2>1 DEF NightInv, DaysInv, Yesterday
  <2> QED
    BY <1>1, <2>1, <2>2, <2>3, <2>4, CoveredType, NightMoves DEF NightInv
<1>4. CASE nightly' = [nightly EXCEPT !.pc = "decay", !.episodes = {}]
  <2>1. nightly' \in Nightly /\ nightly'.pc = "decay" /\ nightly'.began = nightly.began
    BY <1>4 DEF TypeOK, Nightly
  <2>2. Covered' = nightly.began - Day
    BY <2>1 DEF Covered
  <2>3. Covered' \in Int /\ Covered' >= Covered
    BY <1>2, <2>2, NightlyIs, ConstantsType
  <2>4. FadingInv' /\ ListedInv'
    BY <2>1 DEF FadingInv, ListedInv
  <2> QED
    BY <1>1, <2>1, <2>3, <2>4, NightMoves DEF NightInv
<1> QED
  BY <1>3, <1>4 DEF DayAnswer

\* The other memories are not of this day, and the new one is of the episodes of yesterday.
LEMMA AddDayInv ==
    ASSUME TypeOK, NightInv, nightly.pc = "day",
           AddMemory("day_summary", Nothing, nightly.episodes, {}),
           nightly' = [nightly EXCEPT !.pc = "decay", !.episodes = {}], UNCHANGED <<now, crashes>>
    PROVE  NightInv'
<1> DEFINE n == Len(mems) + 1
<1>1. /\ mems' \in Seq(Memory) /\ Len(mems') = n
      /\ \A i \in Memories : mems'[i] = mems[i]
      /\ mems'[n].type = "day_summary" /\ mems'[n].faded = 0 /\ mems'[n].epoch = crashes
      /\ mems'[n].episodes = nightly.episodes
  <2>1. /\ {} \in SUBSET Observations /\ "day_summary" \in {"episode_summary", "day_summary"}
        /\ nightly.episodes \in SUBSET (1 .. MaxMemories) /\ Nothing \in Sessions \cup {Nothing}
    BY NightlyIs
  <2>2. /\ mems' \in Seq(Memory) /\ Len(mems') = Len(mems) + 1
        /\ \A i \in Memories : mems'[i] = mems[i]
        /\ mems'[Len(mems) + 1] =
               [type |-> "day_summary", of |-> Nothing, episodes |-> nightly.episodes, cites |-> {},
                faded |-> 0, created |-> now, updated |-> now,
                archived |-> FALSE, epoch |-> crashes]
    BY <2>1, AddMemoryIs
  <2> QED
    BY <2>2
<1>2. n \in Nat /\ Memories' = Memories \cup {n} /\ n \notin Memories
  BY <1>1, MemsAre DEF Memories
<1> HIDE DEF n
<1>3. Days' = Days \cup {n}
  BY <1>1, <1>2 DEF Days
<1>4. nightly'.pc = "decay" /\ nightly'.began = nightly.began
  BY DEF TypeOK, Nightly
<1>5. Covered = nightly.began - 2 * Day /\ Covered' = nightly.began - Day
  BY <1>4 DEF Covered
<1>6. NotFaded'
  <2>1. ASSUME NEW i \in Memories' PROVE (mems[i].faded < ArchiveAfter)'
    BY <1>1, <1>2, ConstantsType DEF NightInv, NotFaded
  <2> QED
    BY <2>1 DEF NotFaded
<1>7. \A e \in nightly.episodes :
         e \in Memories /\ mems[e].created >= nightly.began - 2 * Day
                        /\ mems[e].created < nightly.began - Day
  BY DEF NightInv, DaysInv, Yesterday
<1>8. ASSUME NEW i \in Days, mems[i].epoch = crashes, NEW e \in mems[i].episodes
      PROVE  e \in Memories /\ mems[e].created < nightly.began - 2 * Day
  BY <1>5, <1>8 DEF NightInv, DaysInv
<1>9. DaysInv'
  <2>1. (\A i \in Memories : mems[i].epoch <= crashes)'
    <3>1. ASSUME NEW i \in Memories' PROVE (mems[i].epoch <= crashes)'
      BY <1>1, <1>2, NightlyIs DEF NightInv, DaysInv
    <3> QED
      BY <3>1
  <2>2. ASSUME NEW i \in Days', (mems[i].epoch = crashes)', NEW e \in (mems[i].episodes)'
        PROVE  e \in Memories' /\ (mems[e].created)' < Covered'
    <3>1. e \in Memories /\ mems[e].created < nightly.began - Day
      <4>1. CASE i = n
        BY <1>1, <1>7, <2>2, <4>1
      <4>2. CASE i \in Days
        <5>1. mems'[i] = mems[i]
          BY <1>1, <4>2 DEF Days
        <5>2. e \in Memories /\ mems[e].created < nightly.began - 2 * Day
          BY <1>8, <2>2, <4>2, <5>1
        <5> QED
          BY <5>2, CreatedType, NightlyIs, ConstantsType
      <4> QED
        BY <1>3, <4>1, <4>2
    <3> QED
      BY <1>1, <1>2, <1>5, <3>1
  <2> QED
    BY <1>4, <2>1, <2>2 DEF DaysInv
<1>10. DaysAreApart'
  <2>1. ASSUME NEW i \in Days, mems[i].epoch = crashes
        PROVE  mems[i].episodes \cap nightly.episodes = {}
    <3>1. ASSUME NEW e \in mems[i].episodes, e \in nightly.episodes PROVE FALSE
      <4>1. /\ e \in Memories /\ mems[e].created < nightly.began - 2 * Day
            /\ mems[e].created >= nightly.began - 2 * Day
        BY <1>7, <1>8, <2>1, <3>1
      <4> QED
        BY <4>1, CreatedType, NightlyIs, ConstantsType
    <3> QED
      BY <3>1
  <2>2. ASSUME NEW i \in Days, NEW j \in Days, i # j, mems[i].epoch = mems[j].epoch
        PROVE  mems[i].episodes \cap mems[j].episodes = {}
    BY <2>2 DEF NightInv, DaysAreApart, Days
  <2>3. \A i \in Days : mems'[i] = mems[i]
    BY <1>1 DEF Days
  <2>4. ASSUME NEW i \in Days', NEW j \in Days', i # j, (mems[i].epoch = mems[j].epoch)'
        PROVE  (mems[i].episodes \cap mems[j].episodes = {})'
    <3>1. CASE i = n /\ j \in Days
      BY <1>1, <2>1, <2>3, <2>4, <3>1
    <3>2. CASE j = n /\ i \in Days
      BY <1>1, <2>1, <2>3, <2>4, <3>2
    <3>3. CASE i \in Days /\ j \in Days
      BY <2>2, <2>3, <2>4, <3>3
    <3> QED
      BY <1>3, <2>4, <3>1, <3>2, <3>3
  <2> QED
    BY <2>4 DEF DaysAreApart, Days
<1>11. FadingInv' /\ ListedInv' /\ nightly'.began <= now'
  BY <1>4 DEF FadingInv, ListedInv, NightInv
<1> QED
  BY <1>6, <1>9, <1>10, <1>11 DEF NightInv

LEMMA WriteDayInv ==
    ASSUME Inv, WriteDay
    PROVE  nightly' \in Nightly /\ NightInv' /\ mems' \in Seq(Memory) /\ Len(mems') <= MaxMemories
<1> USE DEF Inv
<1>1. /\ nightly.pc = "day" /\ UNCHANGED <<now, crashes>>
      /\ nightly' = [nightly EXCEPT !.pc = "decay", !.episodes = {}]
      /\ AddMemory("day_summary", Nothing, nightly.episodes, {}) \/ mems' = mems
  BY DEF WriteDay
<1>2. nightly' \in Nightly /\ nightly'.pc = "decay" /\ nightly'.began = nightly.began
  BY <1>1 DEF TypeOK, Nightly
<1>3. CASE mems' = mems
  <2>1. Covered = nightly.began - 2 * Day /\ Covered' = nightly.began - Day
    BY <1>1, <1>2 DEF Covered
  <2>2. Covered' \in Int /\ Covered' >= Covered
    BY <2>1, NightlyIs, ConstantsType
  <2>3. FadingInv' /\ ListedInv'
    BY <1>2 DEF FadingInv, ListedInv
  <2>4. NightInv'
    BY <1>1, <1>2, <1>3, <2>2, <2>3, NightMoves DEF NightInv
  <2> QED
    BY <1>2, <1>3, <2>4 DEF TypeOK
<1>4. CASE AddMemory("day_summary", Nothing, nightly.episodes, {})
  <2>1. NightInv'
    BY <1>1, <1>4, AddDayInv
  <2>2. /\ {} \in SUBSET Observations /\ "day_summary" \in {"episode_summary", "day_summary"}
        /\ nightly.episodes \in SUBSET (1 .. MaxMemories) /\ Nothing \in Sessions \cup {Nothing}
    BY NightlyIs
  <2> QED
    BY <1>2, <1>4, <2>1, <2>2, AddMemoryIs
<1> QED
  BY <1>1, <1>3, <1>4

LEMMA ReadFadingInv == ASSUME Inv, ReadFading PROVE nightly' \in Nightly /\ NightInv'
<1> USE DEF Inv
<1>1. nightly.pc = "decay" /\ UNCHANGED <<now, mems, crashes>>
  BY DEF ReadFading, tables
<1>2. CASE nightly' = [nightly EXCEPT !.pc = IF Fading = {} THEN "cited" ELSE "fade",
                                      !.episodes = Fading]
  <2>1. /\ Fading \subseteq Memories /\ Fading \subseteq 1 .. MaxMemories
        /\ \A i \in Fading : ~mems[i].archived /\ mems[i].updated < nightly.began - DecayAge
    BY MemsAre DEF Fading, ListMemories
  <2>2. /\ nightly' \in Nightly /\ nightly'.pc \in {"cited", "fade"}
        /\ nightly'.began = nightly.began /\ nightly'.episodes = Fading
    <3>1. CASE Fading = {}
      BY <1>2, <2>1, <3>1 DEF TypeOK, Nightly
    <3>2. CASE Fading # {}
      BY <1>2, <2>1, <3>2 DEF TypeOK, Nightly
    <3> QED
      BY <3>1, <3>2
  <2>3. Covered = nightly.began - Day /\ Covered' = nightly.began - Day
    BY <1>1, <2>2 DEF Covered
  <2>4. FadingInv' /\ ListedInv'
    <3>1. \A i \in Fading : i \in Memories' /\ (~mems[i].archived)'
                              /\ (mems[i].updated < nightly.began - DecayAge)'
      BY <1>1, <2>1, <2>2 DEF Memories
    <3> QED
      BY <2>2, <3>1 DEF FadingInv, ListedInv
  <2> QED
    BY <1>1, <2>2, <2>3, <2>4, CoveredType, NightMoves DEF NightInv
<1>3. CASE Sleep
  BY <1>1, <1>3, SleepInv
<1> QED
  BY <1>2, <1>3 DEF ReadFading

\* A memory that fades leaves what the days are made of as it is.
LEMMA FadeInv ==
    ASSUME TypeOK, NightInv, NEW i \in Memories, Len(mems') = Len(mems),
           \A j \in Memories : j # i => mems'[j] = mems[j],
           Same(mems'[i], mems[i]), mems'[i].faded < ArchiveAfter,
           nightly.pc = "fade", nightly' \in Nightly, nightly'.pc \in {"fade", "cited"},
           nightly'.began = nightly.began, nightly'.episodes = nightly.episodes \ {i},
           UNCHANGED <<now, crashes>>
    PROVE  NightInv'
<1>1. Memories' = Memories /\ \A j \in Memories : Same(mems'[j], mems[j])
  BY DEF Memories, Same
<1>2. Days' = Days
  BY <1>1 DEF Days, Same
<1>3. Covered' = Covered
  BY DEF Covered
<1>4. NotFaded'
  <2>1. ASSUME NEW j \in Memories' PROVE (mems[j].faded < ArchiveAfter)'
    BY <1>1 DEF NightInv, NotFaded
  <2> QED
    BY <2>1 DEF NotFaded
<1>5. FadingInv' /\ ListedInv' /\ nightly'.began <= now'
  <2>1. ASSUME NEW j \in nightly'.episodes
        PROVE  (j \in Memories /\ ~mems[j].archived /\ mems[j].updated < nightly.began - DecayAge)'
    BY <1>1 DEF NightInv, FadingInv
  <2> QED
    BY <2>1 DEF FadingInv, ListedInv, NightInv
<1>6. DaysInv'
  <2>1. ASSUME NEW j \in Memories' PROVE (mems[j].epoch <= crashes)'
    BY <1>1 DEF Same, NightInv, DaysInv
  <2>2. ASSUME NEW j \in Days', (mems[j].epoch = crashes)', NEW e \in (mems[j].episodes)'
        PROVE  e \in Memories' /\ (mems[e].created)' < Covered'
    <3>1. j \in Days /\ mems[j].epoch = crashes /\ e \in mems[j].episodes
      BY <1>1, <1>2, <2>2 DEF Same, Days
    <3>2. e \in Memories /\ mems[e].created < Covered
      BY <3>1 DEF NightInv, DaysInv
    <3> QED
      BY <1>1, <1>3, <3>2 DEF Same
  <2> QED
    BY <2>1, <2>2 DEF DaysInv
<1>7. DaysAreApart'
  <2>1. ASSUME NEW j \in Days', NEW k \in Days', j # k, (mems[j].epoch = mems[k].epoch)'
        PROVE  (mems[j].episodes \cap mems[k].episodes = {})'
    <3>1. /\ j \in Days /\ k \in Days /\ mems[j].epoch = mems[k].epoch
          /\ mems'[j].episodes = mems[j].episodes /\ mems'[k].episodes = mems[k].episodes
      BY <1>1, <1>2, <2>1 DEF Same, Days
    <3> QED
      BY <2>1, <3>1 DEF NightInv, DaysAreApart, Days
  <2> QED
    BY <2>1 DEF DaysAreApart, Days
<1> QED
  BY <1>4, <1>5, <1>6, <1>7 DEF NightInv

LEMMA FadeOneInv ==
    ASSUME Inv, FadeOne
    PROVE  nightly' \in Nightly /\ NightInv' /\ mems' \in Seq(Memory) /\ Len(mems') <= MaxMemories
<1> USE DEF Inv
<1>1. nightly.pc = "fade" /\ UNCHANGED <<now, crashes>>
  BY DEF FadeOne
<1>2. PICK i \in nightly.episodes :
         /\ \/ IF mems[i].faded + 1 = ArchiveAfter THEN ArchiveMemory(i)
               ELSE UpdateMemoryConfidence(i, mems[i].faded + 1)
            \/ mems' = mems
         /\ nightly' = [nightly EXCEPT !.episodes = @ \ {i},
                                       !.pc = IF nightly.episodes = {i} THEN "cited" ELSE @]
  BY DEF FadeOne
<1>3. i \in Memories /\ ~mems[i].archived
  BY <1>1 DEF NightInv, FadingInv
<1>4. /\ nightly' \in Nightly /\ nightly'.pc \in {"fade", "cited"}
      /\ nightly'.began = nightly.began /\ nightly'.episodes = nightly.episodes \ {i}
  <2>1. nightly.episodes \ {i} \subseteq 1 .. MaxMemories
    BY NightlyIs
  <2>2. CASE nightly.episodes = {i}
    BY <1>2, <2>1, <2>2 DEF TypeOK, Nightly
  <2>3. CASE nightly.episodes # {i}
    BY <1>1, <1>2, <2>1, <2>3 DEF TypeOK, Nightly
  <2> QED
    BY <2>2, <2>3
<1>5. /\ mems' \in Seq(Memory) /\ Len(mems') = Len(mems)
      /\ \A j \in Memories : j # i => mems'[j] = mems[j]
      /\ Same(mems'[i], mems[i]) /\ mems'[i].faded < ArchiveAfter
  <2>1. CASE mems' = mems
    BY <1>3, <2>1 DEF Same, TypeOK, NightInv, NotFaded
  <2>2. CASE IF mems[i].faded + 1 = ArchiveAfter THEN ArchiveMemory(i)
             ELSE UpdateMemoryConfidence(i, mems[i].faded + 1)
    BY <1>3, <2>2, FadeIs DEF NightInv
  <2> QED
    BY <1>2, <2>1, <2>2
<1>6. NightInv'
  BY <1>1, <1>3, <1>4, <1>5, FadeInv
<1> QED
  BY <1>4, <1>5, <1>6 DEF TypeOK

LEMMA ReadCitedInv == ASSUME Inv, ReadCited PROVE nightly' \in Nightly /\ NightInv'
<1> USE DEF Inv
<1>1. nightly.pc = "cited" /\ UNCHANGED <<now, mems, crashes>>
  BY DEF ReadCited, tables
<1>2. CASE nightly' = [nightly EXCEPT !.pc = "prune", !.cited = Cited, !.listed = Len(mems)]
  <2>1. \A i \in Memories : mems[i].cites \subseteq Observations
    BY MemsAre DEF Memory
  <2>2. Cited \subseteq Observations /\ \A i \in Memories : mems[i].cites \subseteq Cited
    BY <2>1 DEF Cited, ListMemories
  <2>3. /\ nightly' \in Nightly /\ nightly'.pc = "prune" /\ nightly'.began = nightly.began
        /\ nightly'.cited = Cited /\ nightly'.listed = Len(mems)
    BY <1>2, <2>2, MemsAre DEF TypeOK, Nightly
  <2>4. Covered = nightly.began - Day /\ Covered' = nightly.began - Day
    BY <1>1, <2>3 DEF Covered
  <2>5. ListedInv'
    <3>1. (nightly.listed <= Len(mems))'
      BY <1>1, <2>3, MemsAre
    <3>2. ASSUME NEW i \in 1 .. nightly'.listed PROVE (mems[i].cites \subseteq nightly.cited)'
      BY <1>1, <2>2, <2>3 DEF Memories
    <3> QED
      BY <3>1, <3>2 DEF ListedInv
  <2>6. FadingInv'
    BY <2>3 DEF FadingInv
  <2> QED
    BY <1>1, <2>3, <2>4, <2>5, <2>6, CoveredType, NightMoves DEF NightInv
<1>3. CASE Sleep
  BY <1>1, <1>3, SleepInv
<1> QED
  BY <1>2, <1>3 DEF ReadCited

\* A batch of old observations nobody was seen to cite.
LEMMA PruneIs ==
    ASSUME TypeOK, NEW cutoff, NEW cited, DeleteObservationsOlderThan(cutoff, cited)
    PROVE  /\ obs' \in [Observations -> 0 .. MaxNow \cup {Unseen, Pruned}]
           /\ vecs' \subseteq Observations
           /\ \A o \in Observations : obs[o] >= 0 /\ obs'[o] = Pruned => obs[o] < cutoff /\ o \notin cited
           /\ nightly' \in Nightly /\ nightly'.pc \in {"prune", "report"}
           /\ nightly'.began = nightly.began /\ nightly'.cited = nightly.cited
           /\ nightly'.listed = nightly.listed
<1> DEFINE old == {o \in Live : obs[o] < cutoff /\ o \notin cited}
<1>1. PICK gone \in SUBSET old :
         /\ obs' = [o \in Observations |-> IF o \in gone THEN Pruned ELSE obs[o]]
         /\ vecs' = vecs \ gone
         /\ nightly' = [nightly EXCEPT
                !.deleted = @ + Cardinality(gone),
                !.pc = IF Cardinality(gone) < PruneBatch THEN "report" ELSE "prune"]
  BY DEF DeleteObservationsOlderThan
<1>2. gone \subseteq Observations
  BY <1>1, LiveType
<1>3. Cardinality(gone) \in Nat
  BY <1>2, ConstantsType, FS_Subset, FS_CardinalityType
<1>4. nightly.deleted + Cardinality(gone) \in Nat
  BY <1>3, NightlyIs
<1>5. obs' \in [Observations -> 0 .. MaxNow \cup {Unseen, Pruned}] /\ vecs' \subseteq Observations
  BY <1>1 DEF TypeOK
<1>6. \A o \in Observations : obs[o] >= 0 /\ obs'[o] = Pruned => obs[o] < cutoff /\ o \notin cited
  <2>1. ASSUME NEW o \in Observations, obs[o] >= 0, obs'[o] = Pruned PROVE o \in gone
    <3>1. obs'[o] = IF o \in gone THEN Pruned ELSE obs[o]
      BY <1>1
    <3>2. obs[o] # Pruned
      BY <2>1 DEF Pruned
    <3> QED
      BY <2>1, <3>1, <3>2
  <2> QED
    BY <1>1, <2>1
<1>7. /\ nightly' \in Nightly /\ nightly'.pc \in {"prune", "report"}
      /\ nightly'.began = nightly.began /\ nightly'.cited = nightly.cited
      /\ nightly'.listed = nightly.listed
  <2> DEFINE k == nightly.deleted + Cardinality(gone)
  <2>1. PICK pc \in {"prune", "report"} : nightly' = [nightly EXCEPT !.deleted = k, !.pc = pc]
    BY <1>1
  <2>2. k \in Nat
    BY <1>4
  <2> HIDE DEF k
  <2> QED
    BY <2>1, <2>2 DEF TypeOK, Nightly
<1> QED
  BY <1>5, <1>6, <1>7

LEMMA PruneInv ==
    ASSUME Inv, PruneBatchOfOld
    PROVE  /\ nightly' \in Nightly /\ NightInv'
           /\ obs' \in [Observations -> 0 .. MaxNow \cup {Unseen, Pruned}]
           /\ vecs' \subseteq Observations
<1> USE DEF Inv
<1>1. nightly.pc = "prune" /\ UNCHANGED <<now, mems, crashes>>
  BY DEF PruneBatchOfOld
<1>2. CASE DeleteObservationsOlderThan(nightly.began - PruneAge, nightly.cited)
  <2>1. /\ nightly' \in Nightly /\ nightly'.pc \in {"prune", "report"}
        /\ nightly'.began = nightly.began /\ nightly'.cited = nightly.cited
        /\ nightly'.listed = nightly.listed
    BY <1>2, PruneIs
  <2>2. Covered = nightly.began - Day /\ Covered' = nightly.began - Day
    BY <1>1, <2>1 DEF Covered
  <2>3. FadingInv' /\ ListedInv'
    BY <1>1, <2>1 DEF FadingInv, ListedInv, NightInv
  <2>4. NightInv'
    BY <1>1, <2>1, <2>2, <2>3, CoveredType, NightMoves DEF NightInv
  <2> QED
    BY <1>2, <2>1, <2>4, PruneIs
<1>3. CASE Sleep /\ UNCHANGED <<obs, vecs>>
  BY <1>1, <1>3, SleepInv DEF TypeOK
<1> QED
  BY <1>2, <1>3 DEF PruneBatchOfOld

LEMMA SeenType ==
    ASSUME TypeOK, NEW o \in Observations, AddObservation(o)
    PROVE  /\ obs' \in [Observations -> 0 .. MaxNow \cup {Unseen, Pruned}]
           /\ \A p \in Observations : obs[p] >= 0 => obs'[p] = obs[p]
<1>1. obs[o] = -1 /\ obs' = [obs EXCEPT ![o] = now]
  BY DEF AddObservation, Unseen
<1> QED
  BY <1>1 DEF TypeOK

LEMMA ReportInv ==
    ASSUME Inv, Report
    PROVE  /\ nightly' \in Nightly /\ NightInv'
           /\ obs' \in [Observations -> 0 .. MaxNow \cup {Unseen, Pruned}]
           /\ \A p \in Observations : obs[p] >= 0 => obs'[p] = obs[p]
           /\ retention' \in [at : 0 .. MaxNow \cup {Nothing}, deleted : Nat]
<1> USE DEF Inv
<1>1. nightly.pc = "report" /\ UNCHANGED <<now, mems, crashes>> /\ Sleep
  BY DEF Report
<1>2. (\E o \in Observations : AddObservation(o)) \/ obs' = obs
  BY DEF Report
<1>3. retention' = [at |-> nightly.began, deleted |-> nightly.deleted] \/ retention' = retention
  BY DEF Report
<1>4. retention' \in [at : 0 .. MaxNow \cup {Nothing}, deleted : Nat]
  BY <1>3, NightlyIs DEF TypeOK
<1>5. /\ obs' \in [Observations -> 0 .. MaxNow \cup {Unseen, Pruned}]
      /\ \A p \in Observations : obs[p] >= 0 => obs'[p] = obs[p]
  BY <1>2, SeenType DEF TypeOK
<1> QED
  BY <1>1, <1>4, <1>5, SleepInv

-------------------------------------------------------------------------------
(* The whole of it.                                                         *)

LEMMA InitInv == Init => Inv
<1> SUFFICES ASSUME Init PROVE Inv
  OBVIOUS
<1>1. NextNight \in Nat
  BY NextNightType DEF Init
<1>2. /\ nightly \in Nightly /\ nightly.pc = "wait" /\ nightly.began = 0
      /\ nightly.episodes = {}
  BY <1>1, WaitingType DEF Init
<1>3. mems = <<>> /\ mems \in Seq(Memory) /\ Len(mems) = 0 /\ Memories = {}
  BY DEF Init, Memories
<1>4. hourly \in Hourly /\ hourly.pc = "sleep" /\ hourly.queue = <<>>
  BY AsleepType DEF Init
<1>5. TypeOK
  BY <1>2, <1>3, <1>4, ConstantsType DEF Init, TypeOK
<1>6. QueueInv
  BY <1>4 DEF QueueInv
<1>7. NightInv
  <2>1. NotFaded /\ FadingInv /\ ListedInv /\ DaysAreApart /\ Days = {}
    BY <1>2, <1>3 DEF NotFaded, FadingInv, ListedInv, DaysAreApart, Days
  <2>2. DaysInv
    BY <1>2, <1>3, <2>1 DEF DaysInv
  <2> QED
    BY <1>2, <2>1, <2>2 DEF NightInv, Init
<1> QED
  BY <1>5, <1>6, <1>7 DEF Inv

\* The steps of the nightly job, and which of the tables each may write.
LEMMA NightlyJobInv ==
    ASSUME Inv, NightlyJob
    PROVE  /\ nightly' \in Nightly /\ NightInv' /\ UNCHANGED <<now, session, hourly, crashes>>
           /\ mems' \in Seq(Memory) /\ Len(mems') <= MaxMemories
           /\ obs' \in [Observations -> 0 .. MaxNow \cup {Unseen, Pruned}]
           /\ vecs' \subseteq Observations
           /\ retention' \in [at : 0 .. MaxNow \cup {Nothing}, deleted : Nat]
           /\ Fault \/ faults' = faults
<1>1. UNCHANGED <<now, session, hourly, crashes>> /\ (Fault \/ faults' = faults)
  BY DEF NightlyJob, NightlyBegin, ReadEpisodes, DayAnswer, WriteDay, ReadFading, FadeOne,
         ReadCited, PruneBatchOfOld, Report, tables
<1>2. CASE NightlyBegin \/ ReadEpisodes \/ DayAnswer \/ ReadFading \/ ReadCited
  <2>1. UNCHANGED tables
    BY <1>2 DEF NightlyBegin, ReadEpisodes, DayAnswer, ReadFading, ReadCited
  <2>2. nightly' \in Nightly /\ NightInv'
    BY <1>2, NightlyBeginInv, ReadEpisodesInv, DayAnswerInv, ReadFadingInv, ReadCitedInv
  <2> QED
    BY <1>1, <2>1, <2>2 DEF Inv, TypeOK, tables
<1>3. CASE WriteDay
  <2>1. UNCHANGED <<obs, vecs, retention>>
    BY <1>3 DEF WriteDay
  <2> QED
    BY <1>1, <1>3, <2>1, WriteDayInv DEF Inv, TypeOK
<1>4. CASE FadeOne
  <2>1. UNCHANGED <<obs, vecs, retention>>
    BY <1>4 DEF FadeOne
  <2> QED
    BY <1>1, <1>4, <2>1, FadeOneInv DEF Inv, TypeOK
<1>5. CASE PruneBatchOfOld
  <2>1. UNCHANGED <<mems, retention>>
    BY <1>5 DEF PruneBatchOfOld
  <2> QED
    BY <1>1, <1>5, <2>1, PruneInv DEF Inv, TypeOK
<1>6. CASE Report
  <2>1. UNCHANGED <<mems, vecs>>
    BY <1>6 DEF Report
  <2> QED
    BY <1>1, <1>6, <2>1, ReportInv DEF Inv, TypeOK
<1> QED
  BY <1>2, <1>3, <1>4, <1>5, <1>6 DEF NightlyJob

LEMMA HourlyJobInv == ASSUME Inv, HourlyJob PROVE Inv'
<1>1. CASE \/ HourlyBegin \/ EmbedAnswer \/ ReadSessions \/ ReadSession \/ SummaryAnswer
           \/ SummaryFails
  BY <1>1, HourlyReads, NightFrame, NightlyIs DEF Inv
<1>2. CASE StoreVector \/ WriteBlank \/ WriteSummary
  BY <1>2, HourlyWrites, NightFrame, NightlyIs DEF Inv
<1> QED
  BY <1>1, <1>2, WriteEpisodeInv DEF HourlyJob, HourlyStep, HourlyAnswer

LEMMA SessionEndsInv == ASSUME Inv, SessionEnds PROVE Inv'
<1> USE DEF Inv
<1>1. PICK s \in Sessions :
         session' = [session EXCEPT ![s] =
             [started |-> IF now < Span THEN 0 ELSE now - Span, ended |-> now,
              summary |-> Nothing]]
  BY DEF SessionEnds
<1> DEFINE closed == [started |-> IF now < Span THEN 0 ELSE now - Span, ended |-> now,
                      summary |-> Nothing]
<1>2. closed \in Session
  BY NightlyIs, ConstantsType DEF Session
<1>3. closed # Nothing
  BY <1>2, NothingAssumption DEF NothingAssumption
<1>4. UNCHANGED <<now, obs, vecs, mems, retention, hourly, nightly, faults, crashes>>
  BY DEF SessionEnds
<1>5. session' = [session EXCEPT ![s] = closed]
  BY <1>1
<1> HIDE DEF closed
<1>6. /\ session' \in [Sessions -> Session \cup {Nothing}]
      /\ \A t \in Sessions : session[t] # Nothing => session'[t] # Nothing
  BY <1>2, <1>3, <1>5 DEF TypeOK
<1>7. QueueInv'
  <2>1. \A i \in DOMAIN hourly.queue : hourly.queue[i] \in Sessions
    BY HourlyIs
  <2> QED
    BY <1>4, <1>6, <2>1 DEF QueueInv
<1>8. NightInv'
  BY <1>4, NightFrame, NightlyIs
<1> QED
  BY <1>4, <1>6, <1>7, <1>8 DEF TypeOK

LEMMA RestartInv == ASSUME Inv, Restart PROVE Inv'
<1> USE DEF Inv
<1>1. /\ UNCHANGED <<now, tables, faults>> /\ crashes' = crashes + 1
      /\ hourly' = Asleep /\ nightly' = Waiting(NextNight)
      /\ faults + crashes < MaxTroubles
  BY DEF Restart
<1>2. NextNight \in Nat
  BY NextNightType, NightlyIs
<1>3. /\ nightly' \in Nightly /\ nightly'.pc = "wait" /\ nightly'.began = 0
      /\ hourly' \in Hourly /\ hourly'.queue = <<>> /\ hourly'.pc = "sleep"
  BY <1>1, <1>2, WaitingType, AsleepType
<1>4. TypeOK'
  <2>1. crashes' \in Nat /\ faults' \in Nat /\ faults' + crashes' <= MaxTroubles
    BY <1>1, ConstantsType DEF TypeOK
  <2> QED
    BY <1>1, <1>3, <2>1 DEF TypeOK, tables
<1>5. QueueInv'
  BY <1>3 DEF QueueInv
<1>6. NotFaded' /\ FadingInv' /\ ListedInv' /\ DaysAreApart' /\ (nightly.began <= now)'
  <2>1. mems' = mems /\ now' = now
    BY <1>1 DEF tables
  <2> QED
    BY <1>3, <2>1, NightlyIs
       DEF NightInv, NotFaded, FadingInv, ListedInv, DaysAreApart, Memories
<1>7. DaysInv'
  <2>1. \A i \in Memories' : mems'[i].epoch \in Nat /\ mems'[i].epoch <= crashes
    <3>1. mems' = mems /\ Memories' = Memories
      BY <1>1 DEF tables, Memories
    <3> QED
      BY <3>1, MemsAre, ConstantsType DEF NightInv, DaysInv, Memory
  <2>2. \A i \in Memories' : (mems[i].epoch <= crashes)' /\ (mems[i].epoch # crashes)'
    BY <1>1, <2>1, NightlyIs
  <2> QED
    BY <1>3, <2>2 DEF DaysInv, Days
<1> QED
  BY <1>4, <1>5, <1>6, <1>7 DEF NightInv

LEMMA NextInv == Inv /\ [Next]_vars => Inv'
<1> SUFFICES ASSUME Inv, [Next]_vars PROVE Inv'
  OBVIOUS
<1> USE DEF Inv
<1>1. CASE HourlyJob
  BY <1>1, HourlyJobInv
<1>2. CASE NightlyJob
  <2>1. QueueInv'
    BY <1>2, NightlyJobInv DEF QueueInv
  <2>2. faults' \in Nat /\ crashes' \in Nat /\ faults' + crashes' <= MaxTroubles
    BY <1>2, NightlyJobInv, FaultType DEF TypeOK
  <2> QED
    BY <1>2, <2>1, <2>2, NightlyJobInv DEF TypeOK
<1>3. CASE Observe
  <2>1. PICK o \in Observations : AddObservation(o)
    BY <1>3 DEF Observe
  <2>2. UNCHANGED <<now, vecs, session, mems, retention, hourly, nightly, faults, crashes>>
    BY <1>3 DEF Observe
  <2>3. TypeOK' /\ QueueInv'
    BY <2>1, <2>2, SeenType DEF TypeOK, QueueInv
  <2>4. NightInv'
    BY <2>2, NightFrame, NightlyIs
  <2> QED
    BY <2>3, <2>4
<1>4. CASE SessionEnds
  BY <1>4, SessionEndsInv
<1>5. CASE Tick
  <2>1. now' \in 0 .. MaxNow /\ now' \in Int /\ now' >= now
    BY <1>5, NightlyIs, ConstantsType DEF Tick
  <2>2. UNCHANGED <<tables, hourly, nightly, faults, crashes>>
    BY <1>5 DEF Tick
  <2>3. TypeOK' /\ QueueInv'
    BY <2>1, <2>2 DEF TypeOK, QueueInv, tables
  <2>4. NightInv'
    BY <2>1, <2>2, NightFrame DEF tables
  <2> QED
    BY <2>3, <2>4
<1>6. CASE Restart
  BY <1>6, RestartInv
<1>7. CASE UNCHANGED vars
  <2>1. TypeOK' /\ QueueInv'
    BY <1>7 DEF vars, tables, TypeOK, QueueInv
  <2>2. NightInv'
    BY <1>7, NightFrame, NightlyIs DEF vars, tables
  <2> QED
    BY <2>1, <2>2
<1> QED
  BY <1>1, <1>2, <1>3, <1>4, <1>5, <1>6, <1>7 DEF Next

LEMMA CitedStep ==
    ASSUME Inv, [Next]_vars
    PROVE  \A o \in Observations : obs[o] >= 0 /\ obs'[o] = Pruned =>
              /\ obs[o] < now - PruneAge
              /\ \A i \in Memories : o \in mems[i].cites => i > nightly.listed
<1> USE DEF Inv
<1>1. CASE PruneBatchOfOld
  <2> SUFFICES ASSUME NEW o \in Observations, obs[o] >= 0, obs'[o] = Pruned
               PROVE  /\ obs[o] < now - PruneAge
                      /\ \A i \in Memories : o \in mems[i].cites => i > nightly.listed
    OBVIOUS
  <2>1. nightly.pc = "prune"
    BY <1>1 DEF PruneBatchOfOld
  <2>2. obs' # obs
    BY DEF Pruned
  <2>3. DeleteObservationsOlderThan(nightly.began - PruneAge, nightly.cited)
    BY <1>1, <2>2 DEF PruneBatchOfOld
  <2>4. obs[o] < nightly.began - PruneAge /\ o \notin nightly.cited
    BY <2>3, PruneIs
  <2>5. obs[o] \in Int
    BY ConstantsType DEF TypeOK, Unseen, Pruned
  <2>6. obs[o] < now - PruneAge
    BY <2>4, <2>5, NightlyIs, ConstantsType DEF NightInv
  <2>7. ASSUME NEW i \in Memories, o \in mems[i].cites PROVE i > nightly.listed
    <3>1. i \in Nat /\ i >= 1
      BY <2>7, MemsAre DEF Memories
    <3>2. \A j \in 1 .. nightly.listed : mems[j].cites \subseteq nightly.cited
      BY <2>1 DEF NightInv, ListedInv
    <3>3. i \notin 1 .. nightly.listed
      BY <2>4, <2>7, <3>2
    <3> QED
      BY <3>1, <3>3, NightlyIs, ConstantsType
  <2> QED
    BY <2>6, <2>7
<1>2. CASE Report
  <2>1. \A o \in Observations : obs[o] >= 0 => obs'[o] = obs[o]
    BY <1>2, ReportInv
  <2> QED
    BY <2>1 DEF Pruned
<1>3. CASE Observe
  <2>1. \A o \in Observations : obs[o] >= 0 => obs'[o] = obs[o]
    BY <1>3, SeenType DEF Observe
  <2> QED
    BY <2>1 DEF Pruned
<1>4. CASE obs' = obs
  BY <1>4 DEF Pruned
<1>5. HourlyJob => obs' = obs
  BY DEF HourlyJob, HourlyStep, HourlyAnswer, HourlyBegin, EmbedAnswer, StoreVector, ReadSessions,
         ReadSession, WriteBlank, SummaryAnswer, SummaryFails, WriteSummary, WriteEpisode, tables
<1>6. NightlyJob => obs' = obs \/ PruneBatchOfOld \/ Report
  BY DEF NightlyJob, NightlyBegin, ReadEpisodes, DayAnswer, WriteDay, ReadFading, FadeOne,
         ReadCited, tables
<1>7. SessionEnds \/ Tick \/ Restart \/ UNCHANGED vars => obs' = obs
  BY DEF SessionEnds, Tick, Restart, vars, tables
<1> QED
  BY <1>1, <1>2, <1>3, <1>4, <1>5, <1>6, <1>7 DEF Next

LEMMA FadeStep ==
    ASSUME Inv, [Next]_vars
    PROVE  \A i \in Memories : mems'[i] # mems[i] =>
              /\ mems'[i].faded >= mems[i].faded
              /\ ~mems[i].archived
              /\ now - mems[i].updated > DecayAge
              /\ mems'[i].cites = mems[i].cites /\ mems'[i].episodes = mems[i].episodes
<1> USE DEF Inv
<1>1. CASE FadeOne
  <2>1. nightly.pc = "fade"
    BY <1>1 DEF FadeOne
  <2>2. PICK i \in nightly.episodes :
           \/ IF mems[i].faded + 1 = ArchiveAfter THEN ArchiveMemory(i)
              ELSE UpdateMemoryConfidence(i, mems[i].faded + 1)
           \/ mems' = mems
    BY <1>1 DEF FadeOne
  <2>3. i \in Memories /\ ~mems[i].archived /\ mems[i].updated < nightly.began - DecayAge
    BY <2>1 DEF NightInv, FadingInv
  <2>4. CASE mems' = mems
    BY <2>4
  <2>5. CASE IF mems[i].faded + 1 = ArchiveAfter THEN ArchiveMemory(i)
             ELSE UpdateMemoryConfidence(i, mems[i].faded + 1)
    <3>1. /\ \A j \in Memories : j # i => mems'[j] = mems[j]
          /\ Same(mems'[i], mems[i]) /\ mems'[i].faded >= mems[i].faded
      BY <2>3, <2>5, FadeIs DEF NightInv
    <3>2. now - mems[i].updated > DecayAge
      <4>1. mems[i].updated \in Int
        <5>1. mems[i] \in Memory
          BY <2>3, MemsAre
        <5> QED
          BY <5>1, ConstantsType DEF Memory
      <4> QED
        BY <2>3, <4>1, NightlyIs, ConstantsType DEF NightInv
    <3> QED
      BY <2>3, <3>1, <3>2 DEF Same
  <2> QED
    BY <2>2, <2>4, <2>5
<1>2. CASE \A i \in Memories : mems'[i] = mems[i]
  BY <1>2
<1>3. WriteEpisode => \A i \in Memories : mems'[i] = mems[i]
  <2> SUFFICES ASSUME WriteEpisode PROVE \A i \in Memories : mems'[i] = mems[i]
    OBVIOUS
  <2>1. /\ Head(hourly.queue) \in Sessions \cup {Nothing} /\ hourly.cites \in SUBSET Observations
        /\ {} \in SUBSET (1 .. MaxMemories) /\ "episode_summary" \in {"episode_summary", "day_summary"}
    BY HeadIs, HourlyIs DEF WriteEpisode
  <2> QED
    BY <2>1, AddMemoryIs DEF WriteEpisode
<1>4. WriteDay => \A i \in Memories : mems'[i] = mems[i]
  <2> SUFFICES ASSUME WriteDay PROVE \A i \in Memories : mems'[i] = mems[i]
    OBVIOUS
  <2>1. /\ {} \in SUBSET Observations /\ "day_summary" \in {"episode_summary", "day_summary"}
        /\ nightly.episodes \in SUBSET (1 .. MaxMemories) /\ Nothing \in Sessions \cup {Nothing}
    BY NightlyIs
  <2> QED
    BY <2>1, AddMemoryIs DEF WriteDay
<1>5. HourlyJob => mems' = mems \/ WriteEpisode
  BY DEF HourlyJob, HourlyStep, HourlyAnswer, HourlyBegin, EmbedAnswer, StoreVector, ReadSessions,
         ReadSession, WriteBlank, SummaryAnswer, SummaryFails, WriteSummary, tables
<1>6. NightlyJob => mems' = mems \/ WriteDay \/ FadeOne
  BY DEF NightlyJob, NightlyBegin, ReadEpisodes, DayAnswer, ReadFading,
         ReadCited, PruneBatchOfOld, Report, tables
<1>7. Observe \/ SessionEnds \/ Tick \/ Restart \/ UNCHANGED vars => mems' = mems
  BY DEF Observe, SessionEnds, Tick, Restart, vars, tables
<1> QED
  BY <1>1, <1>2, <1>3, <1>4, <1>5, <1>6, <1>7 DEF Next

-------------------------------------------------------------------------------
(* One episode for each session.  The hourly job reads the sessions without *)
(* a summary once, and works on what it has read: what keeps it from        *)
(* telling a session twice is that it has each session in hand once, that   *)
(* only it writes summaries, and that the summary comes before the episode. *)

\* What is there to stop another episode of the session: its summary.
Told(s) == IF session[s] # Nothing /\ session[s].summary # Nothing THEN 1 ELSE 0

\* The episode that the job is about to write.
Owed(s) == IF hourly.pc = "memory" /\ s = Head(hourly.queue) THEN 1 ELSE 0

\* Each episode, written or about to be, is accounted for by the summary or by a
\* statement that was lost.
AccountInv == \A s \in Sessions : Cardinality(Episodes(s)) + Owed(s) <= faults + Told(s)

\* The sessions in hand are different ones, and none of them has a summary, but for
\* the one whose summary was just written.
InHandInv ==
    /\ \A i, j \in DOMAIN hourly.queue : hourly.queue[i] = hourly.queue[j] => i = j
    /\ \A i \in DOMAIN hourly.queue :
          Told(hourly.queue[i]) = 0 \/ (hourly.pc = "memory" /\ i = 1)

EpisodeInv == AccountInv /\ InHandInv

LEMMA EpisodesAre ==
    ASSUME TypeOK, NEW s
    PROVE  /\ Episodes(s) \subseteq 1 .. Len(mems) /\ IsFiniteSet(Episodes(s))
           /\ Cardinality(Episodes(s)) \in Nat
<1>1. Episodes(s) \subseteq 1 .. Len(mems) /\ Len(mems) \in Nat
  BY MemsAre DEF Episodes, Memories
<1>2. IsFiniteSet(1 .. Len(mems))
  BY <1>1, FS_Interval
<1> QED
  BY <1>1, <1>2, FS_Subset, FS_CardinalityType

\* A function from 1 .. n onto a set of n elements takes no value twice.
LEMMA OntoIsOnce ==
    ASSUME NEW T, IsFiniteSet(T), NEW q \in [1 .. Cardinality(T) -> T],
           \A s \in T : \E i \in DOMAIN q : q[i] = s
    PROVE  \A i, j \in DOMAIN q : q[i] = q[j] => i = j
<1> DEFINE S == 1 .. Cardinality(T)
<1>1. Cardinality(T) \in Nat
  BY FS_CardinalityType
<1>2. IsFiniteSet(S) /\ Cardinality(S) = Cardinality(T)
  BY <1>1, FS_Interval
<1>3. q \in Surjection(S, T)
  BY DEF Surjection
<1> HIDE DEF S
<1>4. q \in Injection(S, T)
  BY <1>2, <1>3, FS_SurjSameCardinalityImpliesInj
<1> QED
  BY <1>4 DEF Injection, IsInjective, S

LEMMA ClosedOnce ==
    ASSUME NEW q \in ClosedSessionsWithoutSummary
    PROVE  \A i, j \in DOMAIN q : q[i] = q[j] => i = j
<1>1. PICK T \in SUBSET Unsummarised :
         q \in [1 .. Cardinality(T) -> T] /\ \A s \in T : \E i \in DOMAIN q : q[i] = s
  BY DEF ClosedSessionsWithoutSummary, Oldest
<1>2. Unsummarised \subseteq Sessions
  BY DEF Unsummarised
<1>3. IsFiniteSet(T)
  BY <1>1, <1>2, ConstantsType, FS_Subset
<1> QED
  BY <1>1, <1>3, OntoIsOnce

\* Only the hourly job writes episodes.
LEMMA EpisodesStay ==
    ASSUME Inv, [Next]_vars, ~WriteEpisode, NEW s \in Sessions
    PROVE  Episodes(s)' = Episodes(s)
<1> USE DEF Inv
<1>1. CASE mems' = mems
  BY <1>1 DEF Episodes, Memories
<1>2. CASE FadeOne
  <2>1. nightly.pc = "fade"
    BY <1>2 DEF FadeOne
  <2>2. PICK i \in nightly.episodes :
           \/ IF mems[i].faded + 1 = ArchiveAfter THEN ArchiveMemory(i)
              ELSE UpdateMemoryConfidence(i, mems[i].faded + 1)
           \/ mems' = mems
    BY <1>2 DEF FadeOne
  <2>3. i \in Memories /\ ~mems[i].archived
    BY <2>1 DEF NightInv, FadingInv
  <2>4. CASE IF mems[i].faded + 1 = ArchiveAfter THEN ArchiveMemory(i)
             ELSE UpdateMemoryConfidence(i, mems[i].faded + 1)
    <3>1. /\ Len(mems') = Len(mems) /\ Same(mems'[i], mems[i])
          /\ \A j \in Memories : j # i => mems'[j] = mems[j]
      BY <2>3, <2>4, FadeIs DEF NightInv
    <3>2. \A j \in Memories : mems'[j].type = mems[j].type /\ mems'[j].of = mems[j].of
      BY <3>1 DEF Same
    <3>3. Memories' = Memories
      BY <3>1 DEF Memories
    <3> QED
      BY <3>2, <3>3 DEF Episodes
  <2> QED
    BY <1>1, <2>2, <2>4
<1>3. CASE WriteDay
  <2>1. /\ {} \in SUBSET Observations /\ "day_summary" \in {"episode_summary", "day_summary"}
        /\ nightly.episodes \in SUBSET (1 .. MaxMemories) /\ Nothing \in Sessions \cup {Nothing}
    BY NightlyIs
  <2>2. CASE AddMemory("day_summary", Nothing, nightly.episodes, {})
    <3>1. /\ Len(mems') = Len(mems) + 1 /\ \A i \in Memories : mems'[i] = mems[i]
          /\ mems'[Len(mems) + 1].type = "day_summary"
      <4>1. /\ Len(mems') = Len(mems) + 1
            /\ \A i \in Memories : mems'[i] = mems[i]
            /\ mems'[Len(mems) + 1] =
                  [type |-> "day_summary", of |-> Nothing, episodes |-> nightly.episodes,
                   cites |-> {}, faded |-> 0, created |-> now, updated |-> now,
                   archived |-> FALSE, epoch |-> crashes]
        BY <2>1, <2>2, AddMemoryIs
      <4> QED
        BY <4>1
    <3>2. Memories' = Memories \cup {Len(mems) + 1}
      BY <3>1, MemsAre DEF Memories
    <3> QED
      BY <3>1, <3>2 DEF Episodes
  <2> QED
    BY <1>1, <1>3, <2>2 DEF WriteDay
<1>4. HourlyJob => mems' = mems
  BY DEF HourlyJob, HourlyStep, HourlyAnswer, HourlyBegin, EmbedAnswer, StoreVector, ReadSessions,
         ReadSession, WriteBlank, SummaryAnswer, SummaryFails, WriteSummary, tables
<1>5. NightlyJob => mems' = mems \/ WriteDay \/ FadeOne
  BY DEF NightlyJob, NightlyBegin, ReadEpisodes, DayAnswer, ReadFading,
         ReadCited, PruneBatchOfOld, Report, tables
<1>6. Observe \/ SessionEnds \/ Tick \/ Restart \/ UNCHANGED vars => mems' = mems
  BY DEF Observe, SessionEnds, Tick, Restart, vars, tables
<1> QED
  BY <1>1, <1>2, <1>3, <1>4, <1>5, <1>6 DEF Next

\* Writing an episode adds one of that session.
LEMMA EpisodeAdded ==
    ASSUME Inv, WriteEpisode, mems' # mems
    PROVE  \A s \in Sessions :
              Cardinality(Episodes(s))' = IF s = Head(hourly.queue) THEN Cardinality(Episodes(s)) + 1
                                          ELSE Cardinality(Episodes(s))
<1> USE DEF Inv
<1> DEFINE h == Head(hourly.queue)
           n == Len(mems) + 1
<1>1. /\ h \in Sessions \cup {Nothing} /\ hourly.cites \in SUBSET Observations
      /\ {} \in SUBSET (1 .. MaxMemories) /\ "episode_summary" \in {"episode_summary", "day_summary"}
  BY HeadIs, HourlyIs DEF WriteEpisode
<1>2. AddMemory("episode_summary", h, {}, hourly.cites)
  BY DEF WriteEpisode
<1>3. /\ Len(mems') = n /\ \A i \in Memories : mems'[i] = mems[i]
      /\ mems'[n] = [type |-> "episode_summary", of |-> h, episodes |-> {},
                     cites |-> hourly.cites, faded |-> 0, created |-> now, updated |-> now,
                     archived |-> FALSE, epoch |-> crashes]
  BY <1>1, <1>2, AddMemoryIs
<1>4. mems'[n].type = "episode_summary" /\ mems'[n].of = h
  BY <1>3
<1>5. Memories' = Memories \cup {n} /\ n \notin Memories
  BY <1>3, MemsAre DEF Memories
<1>6. ASSUME NEW s PROVE Episodes(s)' = IF s = h THEN Episodes(s) \cup {n} ELSE Episodes(s)
  BY <1>3, <1>4, <1>5 DEF Episodes
<1>7. n \notin Episodes(h)
  BY <1>5 DEF Episodes
<1>8. Cardinality(Episodes(h) \cup {n}) = Cardinality(Episodes(h)) + 1
  BY <1>7, EpisodesAre, FS_AddElement
<1> QED
  BY <1>6, <1>8

LEMMA CountsAre ==
    ASSUME NEW s
    PROVE  Told(s) \in {0, 1} /\ Owed(s) \in {0, 1} /\ Told(s)' \in {0, 1} /\ Owed(s)' \in {0, 1}
BY DEF Told, Owed

\* A step that writes no episode and takes no summary away.
LEMMA AccountKeeps ==
    ASSUME Inv, AccountInv, Inv', faults' >= faults,
           \A s \in Sessions : Episodes(s)' = Episodes(s) /\ Told(s)' >= Told(s),
           hourly'.pc = "memory" => hourly' = hourly
    PROVE  AccountInv'
<1> SUFFICES ASSUME NEW s \in Sessions
             PROVE  (Cardinality(Episodes(s)) + Owed(s) <= faults + Told(s))'
  BY DEF AccountInv
<1>1. Cardinality(Episodes(s)) + Owed(s) <= faults + Told(s)
  BY DEF AccountInv
<1>2. Cardinality(Episodes(s))' = Cardinality(Episodes(s))
  OBVIOUS
<1>3. Cardinality(Episodes(s)) \in Nat /\ faults \in Nat /\ faults' \in Nat
  BY EpisodesAre DEF Inv, TypeOK
<1>4. Owed(s)' <= Owed(s)
  BY CountsAre DEF Owed
<1>5. Told(s)' >= Told(s)
  OBVIOUS
<1> HIDE DEF Owed, Told
<1>6. Told(s) \in Int /\ Told(s)' \in Int /\ Owed(s) \in Int /\ Owed(s)' \in Int
  BY CountsAre
<1> QED
  BY <1>1, <1>2, <1>3, <1>4, <1>5, <1>6

LEMMA FirstIsHead ==
    ASSUME TypeOK, hourly.queue # <<>>
    PROVE  1 \in DOMAIN hourly.queue /\ Head(hourly.queue) = hourly.queue[1]
<1>1. Len(hourly.queue) \in Nat /\ Len(hourly.queue) # 0
  BY HourlyIs, EmptyIs
<1> QED
  BY <1>1, HourlyIs

\* The rest of the sessions in hand is as it was.
LEMMA InHandNext ==
    ASSUME Inv, InHandInv, NextSession, hourly.queue # <<>>,
           \A s \in Sessions : s # Head(hourly.queue) => Told(s)' = Told(s)
    PROVE  InHandInv'
<1>1. /\ \A i \in DOMAIN hourly'.queue : /\ i + 1 \in DOMAIN hourly.queue
                                         /\ hourly'.queue[i] = hourly.queue[i + 1]
      /\ hourly'.pc # "memory" /\ hourly' \in Hourly
  BY NextSessionIs DEF Inv
<1>2. DOMAIN hourly'.queue \subseteq Nat \ {0}
  BY <1>1 DEF Hourly
<1>3. /\ 1 \in DOMAIN hourly.queue /\ Head(hourly.queue) = hourly.queue[1]
      /\ \A i \in DOMAIN hourly.queue : hourly.queue[i] \in Sessions
  BY FirstIsHead, HourlyIs DEF Inv
<1>4. ASSUME NEW i \in DOMAIN hourly'.queue, NEW j \in DOMAIN hourly'.queue,
             hourly'.queue[i] = hourly'.queue[j]
      PROVE  i = j
  <2>1. i + 1 = j + 1
    BY <1>1, <1>4 DEF InHandInv
  <2> QED
    BY <1>2, <2>1
<1>5. ASSUME NEW i \in DOMAIN hourly'.queue PROVE Told(hourly.queue[i])' = 0
  <2>1. i + 1 # 1
    BY <1>2
  <2>2. PICK s \in Sessions : s = hourly.queue[i + 1]
    BY <1>1, <1>3
  <2>3. s # Head(hourly.queue) /\ Told(s) = 0
    BY <1>1, <1>3, <2>1, <2>2 DEF InHandInv
  <2>4. Told(s)' = 0 /\ hourly'.queue[i] = s
    BY <1>1, <2>2, <2>3
  <2> QED
    BY <2>4 DEF Told
<1> QED
  BY <1>4, <1>5 DEF InHandInv

LEMMA SummaryTold ==
    ASSUME TypeOK, NEW s \in Sessions, session[s] # Nothing, NEW summary \in {"empty", "text"},
           SetSessionSummary(s, summary)
    PROVE  /\ Told(s)' = 1 /\ \A t \in Sessions : t # s => Told(t)' = Told(t)
<1>1. session[s] \in Session
  BY WindowOfSession
<1>2. summary # Nothing
  BY NothingAssumption DEF NothingAssumption
<1>3. session' = [session EXCEPT ![s] = [session[s] EXCEPT !.summary = summary]]
  BY DEF SetSessionSummary
<1>4. session'[s] # Nothing /\ session'[s].summary = summary
  BY <1>1, <1>3, SummaryIs DEF TypeOK, Session
<1> QED
  BY <1>2, <1>3, <1>4 DEF Told, TypeOK

LEMMA EpisodeInit == Init => EpisodeInv
<1> SUFFICES ASSUME Init PROVE EpisodeInv
  OBVIOUS
<1>1. \A s \in Sessions : Episodes(s) = {}
  BY DEF Init, Episodes, Memories
<1>2. hourly.pc = "sleep" /\ hourly.queue = <<>>
  BY AsleepType DEF Init
<1>3. \A s \in Sessions : Owed(s) = 0 /\ Told(s) = 0
  BY <1>2 DEF Owed, Told, Init
<1>4. Cardinality({}) = 0 /\ faults = 0
  BY FS_EmptySet DEF Init
<1>5. AccountInv
  BY <1>1, <1>3, <1>4 DEF AccountInv
<1>6. InHandInv
  BY <1>2 DEF InHandInv
<1> QED
  BY <1>5, <1>6 DEF EpisodeInv

LEMMA WriteEpisodeCount == ASSUME Inv, Inv', EpisodeInv, WriteEpisode PROVE EpisodeInv'
<1> DEFINE h == Head(hourly.queue)
<1>1. hourly.queue # <<>> /\ h \in Sessions /\ hourly.pc = "memory"
  BY HeadIs DEF Inv, WriteEpisode
<1>2. NextSession /\ session' = session /\ \A s : Told(s)' = Told(s)
  BY DEF WriteEpisode, Told
<1>3. InHandInv'
  BY <1>1, <1>2, InHandNext DEF EpisodeInv
<1>4. hourly'.pc # "memory"
  BY <1>1, <1>2, NextSessionIs DEF Inv
<1>5. \A s \in Sessions : Owed(s)' = 0 /\ Owed(s) = IF s = h THEN 1 ELSE 0
  BY <1>1, <1>4 DEF Owed
<1>6. \A s \in Sessions : Cardinality(Episodes(s)) \in Nat /\ Told(s) \in Int /\ faults \in Nat
  BY EpisodesAre, CountsAre DEF Inv, TypeOK
<1>7. ASSUME NEW s \in Sessions
      PROVE  (Cardinality(Episodes(s)) + Owed(s) <= faults + Told(s))'
  <2>1. Cardinality(Episodes(s)) + Owed(s) <= faults + Told(s)
    BY DEF EpisodeInv, AccountInv
  <2>2. CASE mems' # mems
    <3>1. faults' = faults
      BY <2>2 DEF WriteEpisode
    <3>2. Cardinality(Episodes(s))' = IF s = h THEN Cardinality(Episodes(s)) + 1
                                      ELSE Cardinality(Episodes(s))
      BY <2>2, EpisodeAdded
    <3> QED
      BY <1>2, <1>5, <1>6, <2>1, <3>1, <3>2
  <2>3. CASE mems' = mems
    <3>1. Episodes(s)' = Episodes(s)
      BY <2>3 DEF Episodes, Memories
    <3>2. faults' = faults + 1
      <4>1. ~AddMemory("episode_summary", h, {}, hourly.cites)
        <5>1. Len(mems) \in Nat
          BY MemsAre DEF Inv
        <5>2. SUFFICES ASSUME AddMemory("episode_summary", h, {}, hourly.cites) PROVE FALSE
          OBVIOUS
        <5>3. /\ h \in Sessions \cup {Nothing} /\ hourly.cites \in SUBSET Observations
              /\ {} \in SUBSET (1 .. MaxMemories)
              /\ "episode_summary" \in {"episode_summary", "day_summary"}
          BY <1>1, HourlyIs DEF Inv
        <5>4. Len(mems') = Len(mems) + 1
          BY <5>2, <5>3, AddMemoryIs DEF Inv
        <5> QED
          BY <2>3, <5>1, <5>4
      <4> QED
        BY <4>1 DEF WriteEpisode, Fault
    <3> QED
      BY <1>2, <1>5, <1>6, <2>1, <3>1, <3>2
  <2> QED
    BY <2>2, <2>3
<1> QED
  BY <1>3, <1>7 DEF EpisodeInv, AccountInv

LEMMA WriteSummaryCount == ASSUME Inv, Inv', EpisodeInv, WriteSummary PROVE EpisodeInv'
<1>0. PICK h \in Sessions : h = Head(hourly.queue)
  BY HeadIs DEF Inv, WriteSummary
<1>1. /\ session[h] # Nothing /\ hourly.pc = "summary"
      /\ 1 \in DOMAIN hourly.queue /\ h = hourly.queue[1]
      /\ \A i \in DOMAIN hourly.queue : hourly.queue[i] \in Sessions
  BY <1>0, HeadIs, FirstIsHead, HourlyIs DEF Inv, WriteSummary
<1>2. hourly'.pc = "memory" /\ hourly'.queue = hourly.queue /\ mems' = mems
  BY HourlyIs DEF Inv, WriteSummary
<1>3. Told(h) = 0
  BY <1>1 DEF EpisodeInv, InHandInv
<1>4. /\ \A s \in Sessions : s # h => Told(s)' = Told(s)
      /\ (faults' = faults /\ Told(h)' = 1) \/ (faults' = faults + 1 /\ Told(h)' = Told(h))
  <2>1. CASE SetSessionSummary(h, "text") /\ UNCHANGED faults
    BY <1>1, <2>1, SummaryTold DEF Inv
  <2>2. CASE Fault /\ UNCHANGED session
    BY <2>2 DEF Told, Fault
  <2> QED
    BY <1>0, <2>1, <2>2 DEF WriteSummary
<1>5. InHandInv'
  <2>1. ASSUME NEW i \in DOMAIN hourly.queue, i # 1 PROVE Told(hourly.queue[i])' = 0
    <3>1. PICK s \in Sessions : s = hourly.queue[i]
      BY <1>1
    <3>2. s # h /\ Told(s) = 0
      BY <1>1, <2>1, <3>1 DEF EpisodeInv, InHandInv
    <3>3. Told(s)' = 0 /\ hourly'.queue[i] = s
      BY <1>2, <1>4, <3>1, <3>2
    <3> QED
      BY <3>3 DEF Told
  <2> QED
    BY <1>2, <2>1 DEF EpisodeInv, InHandInv
<1>6. \A s \in Sessions : Owed(s) = 0 /\ Owed(s)' = IF s = h THEN 1 ELSE 0
  BY <1>0, <1>1, <1>2 DEF Owed
<1>7. \A s \in Sessions : /\ Cardinality(Episodes(s)) \in Nat /\ Told(s) \in Int /\ faults \in Nat
                          /\ Episodes(s)' = Episodes(s) /\ Told(s)' \in Int
  <2>1. \A s \in Sessions : Episodes(s)' = Episodes(s)
    BY <1>2 DEF Episodes, Memories
  <2> QED
    BY <2>1, EpisodesAre, CountsAre DEF Inv, TypeOK
<1>8. ASSUME NEW s \in Sessions
      PROVE  (Cardinality(Episodes(s)) + Owed(s) <= faults + Told(s))'
  <2>1. Cardinality(Episodes(s)) + Owed(s) <= faults + Told(s)
    BY DEF EpisodeInv, AccountInv
  <2>2. Cardinality(Episodes(s))' = Cardinality(Episodes(s))
    BY <1>7
  <2>3. CASE s = h
    BY <1>3, <1>4, <1>6, <1>7, <2>1, <2>2, <2>3
  <2>4. CASE s # h
    BY <1>4, <1>6, <1>7, <2>1, <2>2, <2>4
  <2> QED
    BY <2>3, <2>4
<1> QED
  BY <1>5, <1>8 DEF EpisodeInv, AccountInv

LEMMA WriteBlankCount == ASSUME Inv, Inv', EpisodeInv, WriteBlank PROVE EpisodeInv'
<1>0. PICK h \in Sessions : h = Head(hourly.queue)
  BY HeadIs DEF Inv, WriteBlank
<1>1. hourly.queue # <<>> /\ session[h] # Nothing /\ NextSession
  BY <1>0, HeadIs DEF Inv, WriteBlank
<1>2. mems' = mems /\ hourly'.pc # "memory"
  BY <1>1, NextSessionIs DEF WriteBlank, Inv
<1>3. /\ \A s \in Sessions : s # h => Told(s)' = Told(s)
      /\ Told(h)' = 1 \/ Told(h)' = Told(h)
      /\ faults' >= faults /\ faults \in Nat
  <2>1. CASE SetSessionSummary(h, "empty") /\ UNCHANGED faults
    BY <1>1, <2>1, SummaryTold DEF Inv, TypeOK
  <2>2. CASE Fault /\ UNCHANGED session
    BY <2>2 DEF Told, Fault, Inv, TypeOK
  <2> QED
    BY <1>0, <2>1, <2>2 DEF WriteBlank
<1>4. \A s \in Sessions : Episodes(s)' = Episodes(s) /\ Told(s)' >= Told(s)
  BY <1>2, <1>3, CountsAre DEF Episodes, Memories
<1>5. \A i \in DOMAIN hourly.queue : hourly.queue[i] \in Sessions
  BY HourlyIs DEF Inv
<1>6. InHandInv'
  BY <1>0, <1>1, <1>3, InHandNext DEF EpisodeInv
<1> QED
  BY <1>2, <1>3, <1>4, <1>6, AccountKeeps DEF EpisodeInv

\* The steps of the hourly job that write neither a summary nor an episode.
LEMMA HourlyReadsCount ==
    ASSUME Inv, Inv', EpisodeInv,
           \/ HourlyBegin \/ EmbedAnswer \/ StoreVector \/ ReadSessions \/ ReadSession
           \/ SummaryAnswer \/ SummaryFails
    PROVE  EpisodeInv'
<1>1. UNCHANGED <<session, mems>> /\ (Fault \/ faults' = faults)
  BY DEF HourlyBegin, EmbedAnswer, StoreVector, ReadSessions, ReadSession, SummaryAnswer,
         SummaryFails, tables
<1>2. \A s : Told(s)' = Told(s)
  BY <1>1 DEF Told
<1>3. faults \in Nat /\ faults' >= faults
  BY <1>1 DEF Inv, TypeOK, Fault
<1>4. \A s \in Sessions : Episodes(s)' = Episodes(s) /\ Told(s)' >= Told(s)
  BY <1>1, <1>2, CountsAre DEF Episodes, Memories
<1>5. hourly'.pc # "memory" /\ InHandInv'
  <2>1. \/ hourly'.queue = <<>> /\ hourly'.pc \in {"sleep", "embed", "list", "dead"}
        \/ /\ hourly'.queue = hourly.queue /\ hourly.pc # "memory"
           /\ hourly'.pc \in {"vectors", "blank", "ask", "summary"}
        \/ /\ hourly'.queue \in ClosedSessionsWithoutSummary /\ hourly'.pc = "read"
        \/ SummaryFails /\ NextSession
    <3> USE AsleepType, HourlyIs DEF Inv
    <3>1. ListSessions => hourly'.queue = <<>> /\ hourly'.pc = "list"
      BY DEF ListSessions, Asleep
    <3>2. CASE HourlyBegin
      BY <3>1, <3>2 DEF HourlyBegin, Asleep
    <3>3. CASE EmbedAnswer
      BY <3>1, <3>3 DEF EmbedAnswer
    <3>4. CASE StoreVector
      BY <3>4 DEF StoreVector, Asleep
    <3>5. CASE ReadSessions
      BY <3>5 DEF ReadSessions
    <3>6. CASE ReadSession
      BY <3>6 DEF ReadSession, Asleep
    <3>7. CASE SummaryAnswer
      BY <3>7 DEF SummaryAnswer
    <3>8. CASE SummaryFails
      BY <3>8 DEF SummaryFails
    <3> QED
      BY <3>2, <3>3, <3>4, <3>5, <3>6, <3>7, <3>8
  <2>2. CASE hourly'.queue = <<>> /\ hourly'.pc \in {"sleep", "embed", "list", "dead"}
    BY <2>2 DEF InHandInv
  <2>3. CASE /\ hourly'.queue = hourly.queue /\ hourly.pc # "memory"
             /\ hourly'.pc \in {"vectors", "blank", "ask", "summary"}
    <3>1. \A i \in DOMAIN hourly.queue : Told(hourly.queue[i]) = 0
      BY <2>3 DEF EpisodeInv, InHandInv
    <3>2. \A i \in DOMAIN hourly.queue : Told(hourly.queue[i])' = 0
      BY <1>1, <2>3, <3>1 DEF Told
    <3> QED
      BY <2>3, <3>2 DEF EpisodeInv, InHandInv
  <2>4. CASE hourly'.queue \in ClosedSessionsWithoutSummary /\ hourly'.pc = "read"
    <3>1. PICK q \in ClosedSessionsWithoutSummary : q = hourly'.queue
      BY <2>4
    <3>2. /\ \A i, j \in DOMAIN q : q[i] = q[j] => i = j
          /\ \A i \in DOMAIN q : Told(q[i])' = 0
      BY <1>1, ClosedType, ClosedOnce DEF Told
    <3>3. \A i \in DOMAIN q : Told(hourly.queue[i])' = 0
      BY <3>1, <3>2 DEF Told
    <3> QED
      BY <2>4, <3>1, <3>2, <3>3 DEF InHandInv
  <2>5. CASE SummaryFails /\ NextSession
    <3>1. hourly.queue # <<>>
      BY <2>5, HeadIs DEF SummaryFails, Inv
    <3>2. InHandInv'
      BY <1>2, <2>5, <3>1, InHandNext DEF EpisodeInv
    <3> QED
      BY <2>5, <3>1, <3>2, NextSessionIs DEF Inv
  <2> QED
    BY <2>1, <2>2, <2>3, <2>4, <2>5
<1> QED
  BY <1>3, <1>4, <1>5, AccountKeeps DEF EpisodeInv

LEMMA EpisodeNext == Inv /\ Inv' /\ EpisodeInv /\ [Next]_vars => EpisodeInv'
<1> SUFFICES ASSUME Inv, Inv', EpisodeInv, [Next]_vars PROVE EpisodeInv'
  OBVIOUS
<1>1. CASE HourlyJob
  BY <1>1, HourlyReadsCount, WriteBlankCount, WriteSummaryCount, WriteEpisodeCount
     DEF HourlyJob, HourlyStep, HourlyAnswer
<1>2. CASE UNCHANGED <<session, hourly>> /\ ~WriteEpisode /\ (Fault \/ faults' = faults)
  <2>1. \A s : Told(s)' = Told(s)
    BY <1>2 DEF Told
  <2>2. faults \in Nat /\ faults' >= faults
    BY <1>2 DEF Inv, TypeOK, Fault
  <2>3. \A s \in Sessions : Episodes(s)' = Episodes(s) /\ Told(s)' >= Told(s)
    BY <1>2, <2>1, EpisodesStay, CountsAre
  <2>4. InHandInv'
    BY <1>2 DEF EpisodeInv, InHandInv, Told
  <2> QED
    BY <1>2, <2>2, <2>3, <2>4, AccountKeeps DEF EpisodeInv
<1>3. CASE SessionEnds
  <2>1. PICK s \in Sessions :
           /\ session[s] = Nothing
           /\ session' = [session EXCEPT ![s] =
                [started |-> IF now < Span THEN 0 ELSE now - Span, ended |-> now,
                 summary |-> Nothing]]
    BY <1>3 DEF SessionEnds
  <2>2. UNCHANGED <<mems, hourly, faults>>
    BY <1>3 DEF SessionEnds
  <2>3. \A t \in Sessions : Told(t)' = Told(t)
    BY <2>1 DEF Told, Inv, TypeOK
  <2>4. \A t \in Sessions : Episodes(t)' = Episodes(t) /\ Told(t)' >= Told(t)
    BY <2>2, <2>3, CountsAre DEF Episodes, Memories
  <2>5. InHandInv'
    <3>1. \A i \in DOMAIN hourly.queue : hourly.queue[i] \in Sessions
      BY HourlyIs DEF Inv
    <3>2. ASSUME NEW i \in DOMAIN hourly.queue
          PROVE  Told(hourly.queue[i])' = Told(hourly.queue[i])
      <4>1. PICK t \in Sessions : t = hourly.queue[i]
        BY <3>1
      <4> QED
        BY <2>2, <2>3, <4>1 DEF Told
    <3> QED
      BY <2>2, <3>2 DEF EpisodeInv, InHandInv
  <2>6. faults' >= faults
    BY <2>2 DEF Inv, TypeOK
  <2> QED
    BY <2>2, <2>4, <2>5, <2>6, AccountKeeps DEF EpisodeInv
<1>4. CASE Restart
  <2>1. /\ UNCHANGED <<session, mems, faults>> /\ hourly'.pc = "sleep" /\ hourly'.queue = <<>>
    BY <1>4, AsleepType DEF Restart, tables
  <2>2. \A s \in Sessions : Episodes(s)' = Episodes(s) /\ Told(s)' >= Told(s)
    BY <2>1, CountsAre DEF Episodes, Memories, Told
  <2>3. InHandInv'
    BY <2>1 DEF InHandInv
  <2>4. faults' >= faults
    BY <2>1 DEF Inv, TypeOK
  <2> QED
    BY <2>1, <2>2, <2>3, <2>4, AccountKeeps DEF EpisodeInv
<1>5. NightlyJob \/ Observe \/ Tick \/ UNCHANGED vars =>
         UNCHANGED <<session, hourly>> /\ (Fault \/ faults' = faults)
  BY NightlyJobInv DEF Observe, Tick, vars, tables
<1>6. WriteEpisode => HourlyJob
  BY DEF HourlyJob, HourlyStep, HourlyAnswer
<1> QED
  BY <1>1, <1>2, <1>3, <1>4, <1>5, <1>6 DEF Next

-------------------------------------------------------------------------------
\* The invariant: what the jobs hold in hand agrees with the tables they work on.
THEOREM Invariant == Spec => []Inv
BY InitInv, NextInv, PTL DEF Spec

\* The tables and the two tasks keep their types.
THEOREM TypeCorrect == Spec => []TypeOK
<1>1. Inv => TypeOK
  BY DEF Inv
<1> QED
  BY <1>1, Invariant, PTL

\* No episode is told in two day summaries of one run of the daemon, whatever the
\* length of a day and however long a night takes.
THEOREM DaysApart == Spec => []DaysAreApart
<1>1. Inv => DaysAreApart
  BY DEF Inv, NightInv
<1> QED
  BY <1>1, Invariant, PTL

\* The pruner takes no observation that a memory it has read cites, and none that
\* is young: only a memory added since the citations were read can lose one.
THEOREM CitedObservationsStay == Spec => CitedStay
BY CitedStep, Invariant, PTL DEF Spec, CitedStay

\* Memories are never taken away; one that changes fades, is active and is old
\* enough, and what it says and cites stays.
THEOREM MemoriesFade == Spec => MemoriesOnlyFade
BY FadeStep, Invariant, PTL DEF Spec, MemoriesOnlyFade

\* Each session gets one episode, and a second one only for a statement that was
\* lost: for any number of sessions, whatever the jobs and restarts between.
THEOREM OneEpisode == Spec => []OneEpisodeEach
<1>1. Inv /\ EpisodeInv => OneEpisodeEach
  <2> SUFFICES ASSUME Inv, EpisodeInv, NEW s \in Sessions
               PROVE  Cardinality(Episodes(s)) <= 1 + faults
    BY DEF OneEpisodeEach
  <2>1. Cardinality(Episodes(s)) + Owed(s) <= faults + Told(s)
    BY DEF EpisodeInv, AccountInv
  <2>2. Cardinality(Episodes(s)) \in Nat /\ faults \in Nat
    BY EpisodesAre DEF Inv, TypeOK
  <2> QED
    BY <2>1, <2>2, CountsAre
<1>2. Spec => []EpisodeInv
  BY EpisodeInit, EpisodeNext, Invariant, PTL DEF Spec
<1> QED
  BY <1>1, <1>2, Invariant, PTL
===============================================================================
