-------------------------------- MODULE Memory --------------------------------
(***************************************************************************)
(* What the daemon remembers: the observations and their embeddings, the   *)
(* summaries of work sessions, the memories, and the two jobs that work on *)
(* them.  The hourly job embeds observations and turns closed sessions     *)
(* into summaries and episode memories; the nightly job writes a day       *)
(* summary, lets memories fade and prunes old observations.                *)
(*                                                                         *)
(* The jobs are two tasks of one daemon.  Each waits for the store at each *)
(* statement and for the model and the embeddings service in between, so   *)
(* the other job and the sensors act at every step.  A text is abstracted  *)
(* to what it was made from, a confidence to the number of times it faded. *)
(***************************************************************************)
EXTENDS Integers, FiniteSets, Sequences

CONSTANTS Observations, Sessions,
          Projects,
          ProjectOf,    \* of each observation and each session
          Embeddable,   \* observations of a kind in EMBED_KINDS
          Wide,         \* those with a character across byte 500
          WideAnswers,  \* sessions whose summary has one across byte 300
          Refused,      \* sessions whose summary the model never gives
          Nothing,
          EmbedLimit, Batch, ShownLimit, PruneBatch,   \* the jobs' LIMITs
          Day, DecayAge, PruneAge,
          Span,         \* how long a session lasts
          ArchiveAfter, \* fadings after which the confidence is below 0.2
          MaxNow, MaxMemories,
          MaxTroubles   \* bounds: the last of faults and crashes together

ASSUME MemoryAssumption ==
    /\ ProjectOf \in [Observations \cup Sessions -> Projects]
    /\ Embeddable \subseteq Observations /\ Wide \subseteq Observations
    /\ WideAnswers \subseteq Sessions /\ Refused \subseteq Sessions
    /\ Nothing \notin Sessions \cup Int
    /\ {EmbedLimit, Batch, ShownLimit, PruneBatch, Day, ArchiveAfter} \subseteq Nat \ {0}
    /\ {Span, DecayAge, PruneAge, MaxNow, MaxMemories, MaxTroubles} \subseteq Nat
    /\ IsFiniteSet(Observations) /\ IsFiniteSet(Sessions)

VARIABLES now,
          obs,          \* time stamp of each observation, Unseen or Pruned
          vecs,         \* vec_observations
          session,      \* closed work_sessions
          mems,         \* the memories, in the order they were added
          retention,    \* retention_status
          hourly, nightly,   \* the two tasks
          faults, crashes

tables == <<obs, vecs, session, mems, retention>>
vars == <<now, tables, hourly, nightly, faults, crashes>>

Unseen == -1
Pruned == -2
Live == {o \in Observations : obs[o] >= 0}
Memories == 1 .. Len(mems)

Session == [started : 0 .. MaxNow, ended : 0 .. MaxNow, summary : {Nothing, "empty", "text"}]
\* A session that has not ended has no record, and NULL is not a text.
ASSUME NothingAssumption == Nothing \notin Session \cup {"empty", "text"}
Memory == [type : {"episode_summary", "day_summary"}, of : Sessions \cup {Nothing},
           episodes : SUBSET (1 .. MaxMemories), cites : SUBSET Observations,
           faded : 0 .. ArchiveAfter, created : 0 .. MaxNow, updated : 0 .. MaxNow,
           archived : BOOLEAN, epoch : 0 .. MaxTroubles]
Hourly == [pc : {"sleep", "embed", "vectors", "list", "read", "blank", "ask", "summary",
                 "memory", "dead"},
           batch : SUBSET Observations, queue : Seq(Sessions), cites : SUBSET Observations]
Nightly == [pc : {"wait", "episodes", "ask", "day", "decay", "fade", "cited", "prune",
                  "report", "dead"},
            due : Nat, began : 0 .. MaxNow, episodes : SUBSET (1 .. MaxMemories),
            listed : 0 .. MaxMemories, cited : SUBSET Observations, deleted : Nat]
Asleep == [pc |-> "sleep", batch |-> {}, queue |-> <<>>, cites |-> {}]

\* secs_until_0330: the next night strictly after the start.
NextNight == Day * (now \div Day) + Day
Waiting(due) == [pc |-> "wait", due |-> due, began |-> 0, episodes |-> {},
                 listed |-> 0, cited |-> {}, deleted |-> 0]

TypeOK ==
    /\ now \in 0 .. MaxNow
    /\ obs \in [Observations -> 0 .. MaxNow \cup {Unseen, Pruned}]
    /\ vecs \subseteq Observations
    /\ session \in [Sessions -> Session \cup {Nothing}]
    /\ mems \in Seq(Memory) /\ Len(mems) <= MaxMemories
    /\ retention \in [at : 0 .. MaxNow \cup {Nothing}, deleted : Nat]
    /\ hourly \in Hourly
    /\ nightly \in Nightly
    /\ faults \in Nat /\ crashes \in Nat /\ faults + crashes <= MaxTroubles

Init ==
    /\ now = 0
    /\ obs = [o \in Observations |-> Unseen]
    /\ vecs = {}
    /\ session = [s \in Sessions |-> Nothing]
    /\ mems = <<>>
    /\ retention = [at |-> Nothing, deleted |-> 0]
    /\ hourly = Asleep
    /\ nightly = Waiting(NextNight)
    /\ faults = 0 /\ crashes = 0

-------------------------------------------------------------------------------
(* The tables: what one statement of the store reads or writes.             *)

AddObservation(o) == obs[o] = Unseen /\ obs' = [obs EXCEPT ![o] = now]

\* The oldest of a set by a key, up to a limit: ORDER BY ... ASC LIMIT.
Oldest(S, Key(_), limit) ==
    {T \in SUBSET S : /\ Cardinality(T) = IF Cardinality(S) < limit THEN Cardinality(S) ELSE limit
                      /\ \A x \in T, y \in S \ T : Key(x) <= Key(y)}

UnembeddedObservations ==
    LET Stamp(o) == obs[o]
    IN Oldest({o \in Live \cap Embeddable : o \notin vecs}, Stamp, EmbedLimit)

\* An upsert: it does not look whether the observation is still there.
SetObservationEmbedding(o) == vecs' = vecs \cup {o}

\* Bug: the query does not look at the summary.
AllClosed == {s \in Sessions : session[s] # Nothing}

Unsummarised == {s \in Sessions : session[s] # Nothing /\ session[s].summary = Nothing}

\* A closed session as the query orders them: a sequence by end.
ClosedSessionsWithoutSummary ==
    LET Ended(s) == session[s].ended
    IN UNION {{q \in [1 .. Cardinality(T) -> T] :
                  /\ \A s \in T : \E i \in DOMAIN q : q[i] = s
                  /\ \A i, j \in DOMAIN q : i < j => Ended(q[i]) <= Ended(q[j])}
              : T \in Oldest(Unsummarised, Ended, Batch)}

ObservationsBetween(project, from, to) ==
    LET Stamp(o) == obs[o]
    IN Oldest({o \in Live : ProjectOf[o] = project /\ obs[o] \in from .. to}, Stamp, ShownLimit)

SetSessionSummary(s, summary) == session' = [session EXCEPT ![s].summary = summary]

AddMemory(type, of, episodes, cites) ==
    /\ Len(mems) < MaxMemories
    /\ mems' = Append(mems, [type |-> type, of |-> of, episodes |-> episodes, cites |-> cites,
                             faded |-> 0, created |-> now, updated |-> now,
                             archived |-> FALSE, epoch |-> crashes])

ListMemories(archivedToo) == {i \in Memories : archivedToo \/ ~mems[i].archived}

UpdateMemoryConfidence(i, faded) ==
    mems' = [mems EXCEPT ![i].faded = faded, ![i].updated = now]

ArchiveMemory(i) == mems' = [mems EXCEPT ![i].archived = TRUE, ![i].updated = now]

\* One batch: any of the old rows that are not protected, with their embeddings.
DeleteObservationsOlderThan(cutoff, cited) ==
    LET old == {o \in Live : obs[o] < cutoff /\ o \notin cited}
    IN \E gone \in SUBSET old :
         /\ Cardinality(gone) = IF Cardinality(old) < PruneBatch THEN Cardinality(old) ELSE PruneBatch
         /\ obs' = [o \in Observations |-> IF o \in gone THEN Pruned ELSE obs[o]]
         /\ vecs' = vecs \ gone
         /\ nightly' = [nightly EXCEPT
                !.deleted = @ + Cardinality(gone),
                !.pc = IF Cardinality(gone) < PruneBatch THEN "report" ELSE "prune"]

\* A statement fails, or its answer is lost.
Fault == faults + crashes < MaxTroubles /\ faults' = faults + 1

-------------------------------------------------------------------------------
(* The hourly job.                                                          *)

ListSessions == hourly' = [Asleep EXCEPT !.pc = "list"]

\* The tick; without an embedder, or with nothing to embed, straight to the sessions.
HourlyBegin ==
    /\ hourly.pc = "sleep"
    /\ \/ \E batch \in UnembeddedObservations :
            /\ batch # {}
            /\ hourly' = [Asleep EXCEPT !.pc = "embed", !.batch = batch]
       \/ ListSessions
    /\ UNCHANGED <<now, tables, nightly, faults, crashes>>

\* The embeddings service answers, or it does not.
EmbedAnswer ==
    /\ hourly.pc = "embed"
    /\ hourly' = [hourly EXCEPT !.pc = "vectors"] \/ ListSessions
    /\ UNCHANGED <<now, tables, nightly, faults, crashes>>

\* One vector after another; one that cannot be written is passed over.
StoreVector ==
    /\ hourly.pc = "vectors"
    /\ \E o \in hourly.batch :
         /\ \/ SetObservationEmbedding(o) /\ UNCHANGED faults
            \/ Fault /\ UNCHANGED vecs
         /\ hourly' = IF hourly.batch = {o} THEN [Asleep EXCEPT !.pc = "list"]
                      ELSE [hourly EXCEPT !.batch = @ \ {o}]
    /\ UNCHANGED <<now, obs, session, mems, retention, nightly, crashes>>

ReadSessions ==
    /\ hourly.pc = "list"
    /\ \/ \E queue \in ClosedSessionsWithoutSummary :
            /\ hourly' = IF queue = <<>> THEN Asleep
                         ELSE [hourly EXCEPT !.pc = "read", !.queue = queue]
            /\ UNCHANGED faults
       \/ Fault /\ hourly' = Asleep
    /\ UNCHANGED <<now, tables, nightly, crashes>>

\* On to the next session of the batch.
NextSession ==
    hourly' = IF Len(hourly.queue) = 1 THEN Asleep
              ELSE [hourly EXCEPT !.pc = "read", !.queue = Tail(@), !.batch = {}, !.cites = {}]

\* What the session shows the model; a text cut inside a character ends the task.
ReadSession ==
    /\ hourly.pc = "read"
    /\ LET s == Head(hourly.queue)
       IN \/ \E shown \in ObservationsBetween(ProjectOf[s], session[s].started, session[s].ended) :
               /\ hourly' = CASE shown = {} -> [hourly EXCEPT !.pc = "blank"]
                              [] shown \cap Wide # {} -> [Asleep EXCEPT !.pc = "dead"]
                              [] OTHER -> [hourly EXCEPT !.pc = "ask", !.batch = shown]
               /\ UNCHANGED faults
          \/ Fault /\ hourly' = Asleep
    /\ UNCHANGED <<now, tables, nightly, crashes>>

WriteBlank ==
    /\ hourly.pc = "blank"
    /\ \/ SetSessionSummary(Head(hourly.queue), "empty") /\ UNCHANGED faults
       \/ Fault /\ UNCHANGED session
    /\ NextSession
    /\ UNCHANGED <<now, obs, vecs, mems, retention, nightly, crashes>>

\* The model cites what it likes: its strings are stored as they are.
SummaryAnswer ==
    /\ hourly.pc = "ask"
    /\ Head(hourly.queue) \notin Refused
    /\ \E cites \in SUBSET Observations :
         hourly' = [hourly EXCEPT !.pc = "summary", !.batch = {}, !.cites = cites]
    /\ UNCHANGED <<now, tables, nightly, faults, crashes>>

\* Bug: the first session that fails ends the job.
SummaryFailsForAll ==
    /\ hourly.pc = "ask"
    /\ \/ Head(hourly.queue) \in Refused /\ UNCHANGED faults
       \/ Fault
    /\ hourly' = Asleep
    /\ UNCHANGED <<now, tables, nightly, crashes>>

SummaryFails ==
    /\ hourly.pc = "ask"
    /\ \/ Head(hourly.queue) \in Refused /\ UNCHANGED faults
       \/ Fault
    /\ NextSession
    /\ UNCHANGED <<now, tables, nightly, crashes>>

WriteSummary ==
    /\ hourly.pc = "summary"
    /\ \/ SetSessionSummary(Head(hourly.queue), "text") /\ UNCHANGED faults
       \/ Fault /\ UNCHANGED session
    /\ hourly' = [hourly EXCEPT !.pc = "memory"]
    /\ UNCHANGED <<now, obs, vecs, mems, retention, nightly, crashes>>

WriteEpisode ==
    /\ hourly.pc = "memory"
    /\ \/ AddMemory("episode_summary", Head(hourly.queue), {}, hourly.cites) /\ UNCHANGED faults
       \/ Fault /\ UNCHANGED mems
    /\ NextSession
    /\ UNCHANGED <<now, obs, vecs, session, retention, nightly, crashes>>

HourlyStep ==
    \/ HourlyBegin \/ StoreVector \/ ReadSessions \/ ReadSession
    \/ WriteBlank \/ WriteSummary \/ WriteEpisode

\* The end of a call over HTTP, which has no timeout.
HourlyAnswer == EmbedAnswer \/ SummaryAnswer \/ SummaryFails

HourlyJob == HourlyStep \/ HourlyAnswer

-------------------------------------------------------------------------------
(* The nightly job.                                                         *)

\* Bug: the next run comes early.
SleepTooShort == nightly' = Waiting(now + Day - 1)

\* The loop sleeps 24 hours after each run, whatever became of it.
Sleep == nightly' = Waiting(now + Day)

Yesterday(t) == t >= nightly.began - 2 * Day /\ t < nightly.began - Day

\* Without a backend, or without a session that ended yesterday, no day summary.
NightlyBegin ==
    /\ nightly.pc = "wait" /\ now >= nightly.due
    /\ LET ended == {s \in Sessions : /\ session[s] # Nothing
                                      /\ session[s].ended >= now - 2 * Day
                                      /\ session[s].ended < now - Day}
       IN \/ /\ \/ ended # {} /\ nightly' = [nightly EXCEPT !.pc = "episodes", !.began = now]
                \/ nightly' = [nightly EXCEPT !.pc = "decay", !.began = now]
             /\ UNCHANGED faults
          \/ Fault /\ Sleep
    /\ UNCHANGED <<now, tables, hourly, crashes>>

\* Yesterday's episodes: the memories made then, of sessions of whatever day.
ReadEpisodes ==
    /\ nightly.pc = "episodes"
    /\ LET yesterday == {i \in ListMemories(FALSE) : /\ mems[i].type = "episode_summary"
                                                    /\ Yesterday(mems[i].created)}
       IN \/ /\ nightly' = CASE yesterday = {} -> [nightly EXCEPT !.pc = "decay"]
                             [] \E i \in yesterday : mems[i].of \in WideAnswers ->
                                  [Waiting(nightly.due) EXCEPT !.pc = "dead"]
                             [] OTHER -> [nightly EXCEPT !.pc = "ask", !.episodes = yesterday]
             /\ UNCHANGED faults
          \/ Fault /\ Sleep
    /\ UNCHANGED <<now, tables, hourly, crashes>>

DayAnswer ==
    /\ nightly.pc = "ask"
    /\ \/ nightly' = [nightly EXCEPT !.pc = "day"]
       \/ nightly' = [nightly EXCEPT !.pc = "decay", !.episodes = {}]
    /\ UNCHANGED <<now, tables, hourly, faults, crashes>>

WriteDay ==
    /\ nightly.pc = "day"
    /\ \/ AddMemory("day_summary", Nothing, nightly.episodes, {}) /\ UNCHANGED faults
       \/ Fault /\ UNCHANGED mems
    /\ nightly' = [nightly EXCEPT !.pc = "decay", !.episodes = {}]
    /\ UNCHANGED <<now, obs, vecs, session, retention, hourly, crashes>>

\* The memories to fade: the episodes field holds what is left of them.
Fading == {i \in ListMemories(FALSE) : mems[i].updated < nightly.began - DecayAge}

ReadFading ==
    /\ nightly.pc = "decay"
    /\ \/ /\ nightly' = [nightly EXCEPT !.pc = IF Fading = {} THEN "cited" ELSE "fade",
                                        !.episodes = Fading]
          /\ UNCHANGED faults
       \/ Fault /\ Sleep
    /\ UNCHANGED <<now, tables, hourly, crashes>>

FadeOne ==
    /\ nightly.pc = "fade"
    /\ \E i \in nightly.episodes :
         /\ \/ /\ IF mems[i].faded + 1 = ArchiveAfter THEN ArchiveMemory(i)
                  ELSE UpdateMemoryConfidence(i, mems[i].faded + 1)
               /\ UNCHANGED faults
            \/ Fault /\ UNCHANGED mems
         /\ nightly' = [nightly EXCEPT !.episodes = @ \ {i},
                                       !.pc = IF nightly.episodes = {i} THEN "cited" ELSE @]
    /\ UNCHANGED <<now, obs, vecs, session, retention, hourly, crashes>>

\* Bug: what an archived memory cites is not protected.
CitedByActive == UNION {mems[i].cites : i \in ListMemories(FALSE)}

\* What the memories cite, archived or not.  Pins may cite observations too, but
\* nothing in the daemon writes a pin that does.
Cited == UNION {mems[i].cites : i \in ListMemories(TRUE)}

ReadCited ==
    /\ nightly.pc = "cited"
    /\ \/ /\ nightly' = [nightly EXCEPT !.pc = "prune", !.cited = Cited, !.listed = Len(mems)]
          /\ UNCHANGED faults
       \/ Fault /\ Sleep
    /\ UNCHANGED <<now, tables, hourly, crashes>>

PruneBatchOfOld ==
    /\ nightly.pc = "prune"
    /\ \/ /\ DeleteObservationsOlderThan(nightly.began - PruneAge, nightly.cited)
          /\ UNCHANGED faults
       \/ Fault /\ Sleep /\ UNCHANGED <<obs, vecs>>
    /\ UNCHANGED <<now, session, mems, retention, hourly, crashes>>

\* The counts are kept, and noted as an observation if anything went.
Report ==
    /\ nightly.pc = "report"
    /\ \/ /\ retention' = [at |-> nightly.began, deleted |-> nightly.deleted]
          /\ \/ nightly.deleted > 0 /\ \E o \in Observations : AddObservation(o)
             \/ nightly.deleted = 0 /\ UNCHANGED obs
             \/ (\A o \in Observations : obs[o] # Unseen) /\ UNCHANGED obs
          /\ UNCHANGED faults
       \/ Fault /\ UNCHANGED <<obs, retention>>
    /\ Sleep
    /\ UNCHANGED <<now, vecs, session, mems, hourly, crashes>>

NightlyJob ==
    \/ NightlyBegin \/ ReadEpisodes \/ DayAnswer \/ WriteDay \/ ReadFading \/ FadeOne
    \/ ReadCited \/ PruneBatchOfOld \/ Report

-------------------------------------------------------------------------------
(* The rest of the daemon.                                                  *)

Observe ==
    /\ \E o \in Observations : AddObservation(o)
    /\ UNCHANGED <<now, vecs, session, mems, retention, hourly, nightly, faults, crashes>>

\* The sessionizer closes a session; its rows are those of module Sessions.
SessionEnds ==
    /\ \E s \in Sessions :
         /\ session[s] = Nothing
         /\ session' = [session EXCEPT ![s] =
                [started |-> IF now < Span THEN 0 ELSE now - Span, ended |-> now,
                 summary |-> Nothing]]
    /\ UNCHANGED <<now, obs, vecs, mems, retention, hourly, nightly, faults, crashes>>

Tick ==
    /\ now < MaxNow
    /\ now' = now + 1
    /\ UNCHANGED <<tables, hourly, nightly, faults, crashes>>

\* The daemon ends and is started again: both jobs begin anew.
Restart ==
    /\ faults + crashes < MaxTroubles
    /\ crashes' = crashes + 1
    /\ hourly' = Asleep
    /\ nightly' = Waiting(NextNight)
    /\ UNCHANGED <<now, tables, faults>>

Next == HourlyJob \/ NightlyJob \/ Observe \/ SessionEnds \/ Tick \/ Restart

\* The hourly job ticks and goes on while the daemon runs: the interval is never
\* cancelled and the store answers.  Nothing says that a service answers (the HTTP
\* clients have no timeout), that observations arrive, that sessions end, that time
\* passes or that the daemon is restarted.
Spec == Init /\ [][Next]_vars /\ WF_vars(HourlyStep)

-------------------------------------------------------------------------------
(* Properties.                                                              *)

Episodes(s) == {i \in Memories : mems[i].type = "episode_summary" /\ mems[i].of = s}

\* A session gets one episode memory, however often the job runs, and a second
\* one only because the write of its summary was lost: closed_sessions_without_
\* summary is read an hour before the summary it depends on is written.
OneEpisodeEach == \A s \in Sessions : Cardinality(Episodes(s)) <= 1 + faults

\* Within one run of the daemon the day summaries are of different episodes: the
\* windows of two nights are at least a day apart.
DaysAreApart ==
    \A i, j \in Memories :
        /\ i # j /\ mems[i].type = "day_summary" /\ mems[j].type = "day_summary"
        /\ mems[i].epoch = mems[j].epoch
        => mems[i].episodes \cap mems[j].episodes = {}

\* Pruning takes only observations past their age that no memory cites, except
\* one that was added while the job was between reading the citations and
\* deleting: the hourly job may add it in between.
CitedStay ==
    [][\A o \in Observations : obs[o] >= 0 /\ obs'[o] = Pruned =>
         /\ obs[o] < now - PruneAge
         /\ \A i \in Memories : o \in mems[i].cites => i > nightly.listed]_vars

\* A memory fades at most once in DecayAge, never grows back, and is left alone
\* once it is archived; its citations and its text stay as they were.
MemoriesOnlyFade ==
    [][\A i \in Memories : mems'[i] # mems[i] =>
         /\ mems'[i].faded >= mems[i].faded
         /\ ~mems[i].archived
         /\ now - mems[i].updated > DecayAge
         /\ mems'[i].cites = mems[i].cites /\ mems'[i].episodes = mems[i].episodes]_vars

Summarised == {s \in Sessions : session[s] # Nothing /\ session[s].summary # Nothing}

AllSummarised ==
    \A s \in Sessions \ Refused : session[s] = Nothing \/ s \in Summarised

\* The job waits for a service that never answers: after it, nothing runs.
WaitsForEver == <>[](hourly.pc \in {"embed", "ask"})

\* While fewer sessions than a batch are refused, every session that ended gets its
\* summary: the refused ones stay at the head of every batch, and the job goes on
\* after them.  Unless a call to a service never ends, or a text cut inside a
\* character has ended the task.
SessionsAreSummarised ==
    WaitsForEver \/ <>[](hourly.pc = "dead") \/ []<>AllSummarised

-------------------------------------------------------------------------------
(* What documents say of the jobs, and the code does not do.                *)

\* docs/TEST-CHECKLIST.md:118: "retention pruner: never deletes cited observations":
\* when one goes, no memory cites it (jobs.rs reads the citations before it deletes).
NoCitedIsPruned ==
    [][\A o \in Observations : obs[o] >= 0 /\ obs'[o] = Pruned =>
         \A i \in Memories : o \notin mems[i].cites]_vars
=============================================================================
