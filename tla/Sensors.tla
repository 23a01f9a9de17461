------------------------------- MODULE Sensors -------------------------------
(***************************************************************************)
(* The cheap sensors and what they drive.  The process watcher and the     *)
(* clipboard thread send events over one bounded channel; a pump notes     *)
(* each as activity and ingests it.  The git watcher ingests what it finds *)
(* itself.  The mode task probes the desktop for its idle time, or takes   *)
(* the time since the last activity when the probe has no answer, and      *)
(* turns the away mode on and off.  A client may append an event too.      *)
(*                                                                         *)
(* Ingesting is one step here, which may fail; Sessions models what it     *)
(* does.  A poll that finds nothing new changes nothing and is no step.    *)
(* Every repository is active and can be read, and the clipboard is there. *)
(***************************************************************************)
EXTENDS Integers, Sequences, FiniteSets, Surroundings

CONSTANTS Allowed,      \* commands whose process name is in ALLOWLIST
          Texts,        \* what the clipboard may hold
          Ignorable,    \* texts that make no event: empty or too long
          Repos, Commits,
          None,
          ChannelSize,  \* 256
          AwayThreshold

ASSUME SensorsAssumption ==
    /\ Allowed \subseteq Commands /\ Ignorable \subseteq Texts
    /\ None \notin Texts \cup Commits \cup Commands
    /\ Texts # {} /\ Commits # {}
    /\ ChannelSize \in Nat \ {0} /\ AwayThreshold \in Nat \ {0}

VARIABLES clock, input,     \* the time, and when the user last touched the desktop
          clip, head,       \* the clipboard, and the HEAD of each repository
          tracked, watcher, \* the process watcher: what it tracks, what it has to send
          copied,           \* the clipboard thread: the last text, and the event to send
          channel, pumped,  \* the channel, and what the pump took from it
          stream,           \* every event ingested in this life, and whether it was stored
          heads, git,       \* the git watcher: HEADs seen, repositories left to look at
          noted,            \* last_event_ms
          appending,        \* an event a client appended, before it is noted
          mode              \* away, and whether the desktop has an idle interface

sensed == <<clock, input, clip, head>>
sensing == <<sensed, tracked, watcher, copied, channel, pumped, stream, heads, git, noted,
             appending, mode>>
sensorsVars == <<sensing, around>>

ProcEvent == [kind : {"proc_started", "proc_exited"}, pid : Pids, comm : Commands]
ClipEvent == [kind : {"clipboard"}, text : Texts]
Sent == ProcEvent \cup ClipEvent
Event == Sent \cup [kind : {"git_head"}, repo : Repos, commit : Commits]
              \cup [kind : {"mode_changed"}, away : BOOLEAN]
Baseline == [pc |-> "baseline", out |-> <<>>]

SensorsTypeOK ==
    /\ procs \in [Pids -> Process \cup {Gone}]
    /\ {clock, input, noted} \subseteq Nat /\ appending \in Nat \cup {None}
    /\ clip \in Texts /\ copied \in [last : Texts \cup {None}, out : Seq(ClipEvent)]
    /\ head \in [Repos -> Commits] /\ heads \in [Repos -> Commits \cup {None}]
    /\ git \subseteq Repos
    /\ tracked \in [Pids -> Commands \cup {None}]
    /\ watcher \in [pc : {"baseline", "watch"}, out : Seq(ProcEvent)]
    /\ {channel, pumped} \subseteq Seq(Sent) /\ Len(channel) <= ChannelSize
    /\ stream \in Seq([event : Event, stored : BOOLEAN])
    /\ mode \in [away : BOOLEAN, probes : BOOLEAN]
    /\ moves \in 0 .. MaxMoves /\ troubles \in 0 .. MaxTroubles

SensorsInit ==
    /\ AroundInit
    /\ clock = AwayThreshold /\ input = clock
    /\ clip = CHOOSE t \in Texts : TRUE
    /\ head = [r \in Repos |-> CHOOSE c \in Commits : TRUE]
    /\ tracked = [p \in Pids |-> None] /\ watcher = Baseline
    /\ copied = [last |-> None, out |-> <<>>]
    /\ channel = <<>> /\ pumped = <<>> /\ stream = <<>>
    /\ heads = [r \in Repos |-> None] /\ git = {}
    /\ noted = clock /\ appending = None
    /\ mode \in [away : {FALSE}, probes : BOOLEAN]

-------------------------------------------------------------------------------
(* The user.                                                                *)

Tick ==
    /\ Moved /\ clock' = clock + 1
    /\ UNCHANGED <<input, clip, head, tracked, watcher, copied, channel, pumped, stream, heads,
                   git, noted, appending, mode>>

Touch ==
    /\ Moved /\ input # clock /\ input' = clock
    /\ UNCHANGED <<clock, clip, head, tracked, watcher, copied, channel, pumped, stream, heads,
                   git, noted, appending, mode>>

Copy(text) ==
    /\ Moved /\ text # clip /\ clip' = text
    /\ UNCHANGED <<clock, input, head, tracked, watcher, copied, channel, pumped, stream, heads,
                   git, noted, appending, mode>>

MoveHead(r, commit) ==
    /\ Moved /\ commit # head[r] /\ head' = [head EXCEPT ![r] = commit]
    /\ UNCHANGED <<clock, input, clip, tracked, watcher, copied, channel, pumped, stream, heads,
                   git, noted, appending, mode>>

-------------------------------------------------------------------------------
(* The process watcher.                                                     *)

ScanProcs == {p \in Pids : procs[p] # Gone /\ procs[p].cmd \in Allowed}

Started == {p \in ScanProcs : tracked[p] = None}
Exited == {p \in Pids \ ScanProcs : tracked[p] # None}

\* Both loops of observe, each in the order of a hash map.
Observed ==
    {q \in [1 .. Cardinality(Started \cup Exited) -> ProcEvent] :
        /\ {q[i].pid : i \in DOMAIN q} = Started \cup Exited
        /\ \A i \in DOMAIN q :
              LET p == q[i].pid
              IN IF p \in Started THEN q[i].kind = "proc_started" /\ q[i].comm = procs[p].cmd
                                  ELSE q[i].kind = "proc_exited" /\ q[i].comm = tracked[p]
        /\ \A i, j \in DOMAIN q : i < j => ~(q[i].pid \in Exited /\ q[j].pid \in Started)}

\* Bug: what has exited stays tracked.
TrackMore == [p \in Pids |-> IF p \in Started THEN procs[p].cmd ELSE tracked[p]]

Track ==
    [p \in Pids |-> IF p \in Started THEN procs[p].cmd
                    ELSE IF p \in Exited THEN None ELSE tracked[p]]

\* What runs when the daemon starts is tracked and makes no event.
ObserveBaseline ==
    /\ watcher.pc = "baseline"
    /\ tracked' = Track
    /\ watcher' = [watcher EXCEPT !.pc = "watch"]
    /\ UNCHANGED <<sensed, copied, channel, pumped, stream, heads, git, noted, appending, mode,
                   around>>

Observe ==
    /\ watcher.pc = "watch" /\ watcher.out = <<>> /\ Started \cup Exited # {}
    /\ tracked' = Track
    /\ \E q \in Observed : watcher' = [watcher EXCEPT !.out = q]
    /\ UNCHANGED <<sensed, copied, channel, pumped, stream, heads, git, noted, appending, mode,
                   around>>

\* Sending waits for room.
SendProc ==
    /\ watcher.out # <<>> /\ Len(channel) < ChannelSize
    /\ channel' = Append(channel, Head(watcher.out))
    /\ watcher' = [watcher EXCEPT !.out = Tail(@)]
    /\ UNCHANGED <<sensed, tracked, copied, pumped, stream, heads, git, noted, appending, mode, around>>

-------------------------------------------------------------------------------
(* The clipboard thread.                                                    *)

ReadClipboard ==
    /\ copied.out = <<>> /\ clip # copied.last
    /\ copied' = [last |-> clip, out |-> IF clip \in Ignorable THEN <<>>
                                         ELSE <<[kind |-> "clipboard", text |-> clip]>>]
    /\ UNCHANGED <<sensed, tracked, watcher, channel, pumped, stream, heads, git, noted,
                   appending, mode, around>>

SendClipboard ==
    /\ copied.out # <<>> /\ Len(channel) < ChannelSize
    /\ channel' = channel \o copied.out
    /\ copied' = [copied EXCEPT !.out = <<>>]
    /\ UNCHANGED <<sensed, tracked, watcher, pumped, stream, heads, git, noted, appending, mode,
                   around>>

-------------------------------------------------------------------------------
(* The pump.                                                                *)

Ingest(event, stored) == stream' = Append(stream, [event |-> event, stored |-> stored])

\* Stored, or dropped with a warning.
IngestOrDrop(event) ==
    \/ Ingest(event, TRUE) /\ UNCHANGED around
    \/ Ingest(event, FALSE) /\ Trouble

TakeEvent ==
    /\ pumped = <<>> /\ channel # <<>>
    /\ pumped' = <<Head(channel)>> /\ channel' = Tail(channel)
    /\ noted' = clock
    /\ UNCHANGED <<sensed, tracked, watcher, copied, stream, heads, git, appending, mode, around>>

\* Bug: the pump ends when an event cannot be stored.
IngestEventOrEnd ==
    /\ pumped # <<>> /\ pumped # <<None>>
    /\ \/ Ingest(pumped[1], TRUE) /\ pumped' = <<>> /\ UNCHANGED around
       \/ Ingest(pumped[1], FALSE) /\ pumped' = <<None>> /\ Trouble
    /\ UNCHANGED <<sensed, tracked, watcher, copied, channel, heads, git, noted, appending, mode>>

IngestEvent ==
    /\ pumped # <<>> /\ IngestOrDrop(pumped[1])
    /\ pumped' = <<>>
    /\ UNCHANGED <<sensed, tracked, watcher, copied, channel, heads, git, noted, appending, mode>>

-------------------------------------------------------------------------------
(* The git watcher.                                                         *)

ListProjects ==
    /\ git = {} /\ \E r \in Repos : heads[r] # head[r]
    /\ git' = Repos
    /\ UNCHANGED <<sensed, tracked, watcher, copied, channel, pumped, stream, heads, noted,
                   appending, mode, around>>

\* A HEAD that differs is remembered, and ingested unless it is the first one.
ReadHead(r) ==
    /\ r \in git
    /\ git' = git \ {r}
    /\ heads' = [heads EXCEPT ![r] = head[r]]
    /\ IF heads[r] \in {None, head[r]} THEN UNCHANGED <<stream, around>>
       ELSE IngestOrDrop([kind |-> "git_head", repo |-> r, commit |-> head[r]])
    /\ UNCHANGED <<sensed, tracked, watcher, copied, channel, pumped, noted, appending, mode>>

-------------------------------------------------------------------------------
(* The mode.                                                                *)

Idle(probed) == clock - (IF probed THEN input ELSE noted)

ShouldBeAway(probed) == Idle(probed) >= AwayThreshold

\* A change is ingested; the mode stays changed when that fails.
UpdateMode(probed) ==
    /\ ShouldBeAway(probed) # mode.away
    /\ mode' = [mode EXCEPT !.away = ShouldBeAway(probed)]
    /\ UNCHANGED <<sensed, tracked, watcher, copied, channel, pumped, heads, git, noted, appending>>

\* Every 30 s.
ProbeIdle ==
    /\ UpdateMode(mode.probes)
    /\ IngestOrDrop([kind |-> "mode_changed", away |-> ~mode.away])

\* A call of the probe that fails is an answer it does not have.
ProbeFails ==
    /\ mode.probes /\ UpdateMode(FALSE)
    /\ Ingest([kind |-> "mode_changed", away |-> ~mode.away], TRUE) /\ Trouble

\* events.append: the event is stored with the time, and noted when that is done.
AppendEvent ==
    /\ appending = None /\ Moved
    /\ appending' = clock
    /\ UNCHANGED <<sensed, tracked, watcher, copied, channel, pumped, stream, heads, git, noted,
                   mode>>

NoteAppended ==
    /\ appending # None
    /\ noted' = appending /\ appending' = None
    /\ UNCHANGED <<sensed, tracked, watcher, copied, channel, pumped, stream, heads, git, mode,
                   around>>

-------------------------------------------------------------------------------

Watch == ObserveBaseline \/ Observe \/ SendProc
Clip == ReadClipboard \/ SendClipboard
Pump == TakeEvent \/ IngestEvent
Git == ListProjects \/ \E r \in Repos : ReadHead(r)

\* The daemon ends and starts.
SensorsRestart ==
    /\ Trouble
    /\ tracked' = [p \in Pids |-> None] /\ watcher' = Baseline
    /\ copied' = [last |-> None, out |-> <<>>]
    /\ channel' = <<>> /\ pumped' = <<>> /\ stream' = <<>>
    /\ heads' = [r \in Repos |-> None] /\ git' = {}
    /\ noted' = clock /\ appending' = None
    /\ \E probes \in BOOLEAN : mode' = [away |-> FALSE, probes |-> probes]
    /\ UNCHANGED sensed

SensorsNext ==
    \/ Tick \/ Touch \/ AppendEvent \/ SensorsRestart
    \/ \E text \in Texts : Copy(text)
    \/ \E r \in Repos, commit \in Commits : MoveHead(r, commit)
    \/ \E p \in Pids : /\ Exit(p) \/ \E process \in Process : Spawn(p, process)
                       /\ UNCHANGED sensing
    \/ Watch \/ Clip \/ Pump \/ Git \/ ProbeIdle \/ ProbeFails \/ NoteAppended

\* Every loop ticks for ever, whatever a tick ran into.
SensorsFairness ==
    /\ WF_sensorsVars(Watch) /\ WF_sensorsVars(Clip) /\ WF_sensorsVars(Pump) /\ WF_sensorsVars(Git)
    /\ WF_sensorsVars(ProbeIdle)

SensorsSpec == SensorsInit /\ [][SensorsNext]_sensorsVars /\ SensorsFairness

-------------------------------------------------------------------------------
(* Properties.                                                              *)

\* The events in the order in which they are ingested; those of the clipboard thread
\* that wait for the channel come where they may.
InOrder ==
    [i \in DOMAIN stream |-> stream[i].event] \o pumped \o channel \o watcher.out

OfProcess(p) == [kind : {"proc_started", "proc_exited"}, pid : {p}, comm : Commands]
OfRepo(r) == [kind : {"git_head"}, repo : {r}, commit : Commits]
OfMode == [kind : {"mode_changed"}, away : BOOLEAN]

Says(e) ==
    CASE e.kind = "git_head"     -> e.commit
      [] e.kind = "mode_changed" -> e.away
      [] OTHER                   -> e.kind

\* Two events about one thing with none about it in between do not say the same.
Changes(q, about) ==
    \A i, j \in DOMAIN q :
       (i < j /\ q[i] \in about /\ q[j] \in about /\ \A k \in i + 1 .. j - 1 : q[k] \notin about)
          => Says(q[i]) # Says(q[j])

\* What the sensors send, in the order in which it is ingested, is a change each time,
\* though the channel is full, ingests fail or HEAD moves between two polls: the starts
\* and exits of a process alternate, and a HEAD or a mode is never the one before it.
EventsAreChanges ==
    /\ \A p \in Pids : Changes(InOrder, OfProcess(p))
    /\ \A r \in Repos : Changes(InOrder, OfRepo(r))
    /\ Changes(InOrder, OfMode)

\* The sensors catch up with the desktop: everything seen has left the channel, what is
\* tracked and remembered is what is there, and the mode is that of the idle time.
SensorsCatchUp ==
    []<>(/\ watcher.out \o copied.out \o channel \o pumped = <<>>
         /\ {p \in Pids : tracked[p] # None} = ScanProcs
         /\ heads = head /\ copied.last = clip
         /\ (mode.away <=> Idle(mode.probes) >= AwayThreshold))
=============================================================================
