------------------------------- MODULE Watchers -------------------------------
(***************************************************************************)
(* Two of the loops the daemon starts with its sensors: the scan of the    *)
(* terminals and the ingest of transcripts, with the desktop they watch,   *)
(* and a daemon that ends and starts.                                      *)
(***************************************************************************)
EXTENDS Integers, Sequences, FiniteSets, Terminals, Transcripts

vars == <<desk, scripts, around>>

TypeOK ==
    /\ procs \in [Pids -> Process \cup {Gone}]
    /\ rows \in [Keys -> Row \cup {NoRow}]
    /\ scan \in Scanning
    /\ setting \in [Operators -> {Unasked} \cup [pc : {"write"}, key : Keys, row : Row]]
    /\ runs \in 0 .. RunCount /\ version \in [Files -> 0 .. MaxMoves]
    /\ outputs \in Seq(Output) /\ seen \subseteq FileKey /\ pass \in Passing
    /\ life \in 0 .. MaxTroubles
    /\ moves \in 0 .. MaxMoves /\ troubles \in 0 .. MaxTroubles

Init == AroundInit /\ DeskInit /\ ScriptsInit

Restart == Trouble /\ DeskEnds /\ ScriptsEnd

Next ==
    \/ DeskNext /\ UNCHANGED scripts
    \/ ScriptsNext /\ UNCHANGED desk
    \/ \E p \in Pids : /\ Exit(p) \/ \E process \in Process : Spawn(p, process)
                       /\ UNCHANGED <<desk, scripts>>
    \/ Restart

\* Every loop ticks for ever, whatever a tick ran into.
Fairness ==
    /\ WF_vars(Scan /\ UNCHANGED scripts)
    /\ WF_vars(Pass /\ UNCHANGED desk)

Spec == Init /\ [][Next]_vars /\ Fairness

-------------------------------------------------------------------------------
(* Properties.                                                              *)

\* Every agent that runs in a terminal gets its row, and the process the row names is
\* that agent: behind failed scans, restarts, pids that are given again, and set_roles
\* that write back the process they read before a scan.
TerminalsAreListed ==
    []<>(\A p \in AgentsAt(Ttys) :
            LET row == rows[procs[p].tty, procs[p].cmd]
            IN row # NoRow /\ procs[row.pid] = procs[p])

\* The scan takes a mark away only from a row that was marked while it was on its
\* way, or changes one mark for the other: it never forgets a mark it read.
MarksAreKept ==
    [][\A k \in Keys :
          rows[k] # NoRow /\ rows[k].role \in {"ignored", "operator"}
             /\ rows'[k].role \in {"foreign", "workbench"}
          => \/ \E c \in Operators : setting[c] # Unasked /\ setting[c].key = k
             \/ k[2] \notin scan.ignored \cup scan.operator]_vars

\* A recent run whose files are no more than the task takes.
WithinLimits(run) == run > runs - RecentRuns /\ Cardinality(Written(run)) <= FilesOfRun

\* The final text of every transcript of a recent run that has no more files than the
\* task takes becomes an observation, though the store fails, the file was read in the
\* middle of a line before, or the daemon was restarted.  (Of a run with more files the
\* task may never take the rest.)
TranscriptsAreIngested ==
    []<>(\A run \in 1 .. RunCount : WithinLimits(run) =>
            \A f \in Written(run) : version[f] \notin Torn =>
                \E i \in DOMAIN outputs : outputs[i].key[1] = f /\ outputs[i].text = version[f])

\* In one life of the daemon two observations of a file have different keys, and the
\* later repeats the text of the earlier only if the file grew between the key and the
\* text of the earlier.
NothingTwice ==
    \A i, j \in DOMAIN outputs :
        /\ i < j /\ outputs[i].life = outputs[j].life
        /\ outputs[i].key[1] = outputs[j].key[1]
        => /\ outputs[i].key # outputs[j].key
           /\ outputs[i].text = outputs[j].text => outputs[i].key[2] < outputs[i].text

\* No hit of the scan takes an agent in a pane of the daemon's own tmux server for a
\* foreign one.
WorkbenchIsKnown == \A h \in scan.hits : PaneOf[h.tty] = RatoSocket => h.role # "foreign"

\* What the operator wants ignored is remembered: nothing but a connection takes that
\* mark from a row.
IgnoredIsRemembered ==
    [][\A k \in Keys : rows[k] # NoRow /\ rows[k].role = "ignored" /\ rows'[k].role # "ignored" =>
          \E c \in Operators : setting[c] # Unasked /\ setting[c].key = k]_vars
=============================================================================
