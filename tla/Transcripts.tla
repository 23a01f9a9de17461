----------------------------- MODULE Transcripts -----------------------------
(***************************************************************************)
(* Transcripts of agents.  Every ten seconds a task of the daemon looks    *)
(* through the transcript files of the newest runs and stores the text of  *)
(* those it has not seen as observations.  A file is known by its path,    *)
(* length and time of change; what has been seen is kept in memory, and    *)
(* taken from the newest observations when the daemon starts.              *)
(*                                                                         *)
(* A file only grows; its text is its version.  Retention of observations  *)
(* is left to Memory.                                                      *)
(***************************************************************************)
EXTENDS Integers, Sequences, FiniteSets, Surroundings

CONSTANTS Files,        \* the .jsonl files agents may write
          RunOf,        \* the run whose worktree each is in; runs are numbered
          RunCount,
          Scanned,      \* runs whose adapter has transcripts: claude-code, codex
          Torn,         \* versions that end inside a line
          RecentRuns, FilesOfRun, RecentKeys    \* the task's limits: 100, 200, 1000

ASSUME TranscriptsAssumption ==
    /\ RunCount \in Nat /\ RunOf \in [Files -> 1 .. RunCount]
    /\ IsFiniteSet(Files) /\ Scanned \subseteq Nat /\ Torn \subseteq Nat
    /\ {RecentRuns, FilesOfRun, RecentKeys} \subseteq Nat

VARIABLES runs,         \* how many runs the table agent_runs has
          version,      \* of each file; 0: there is none
          outputs,      \* observations of kind agent_output, in the order of insertion
          seen,         \* keys seen in this life of the daemon
          pass,         \* the ingest task
          life          \* how often the daemon was started

scripts == <<runs, version, outputs, seen, pass, life>>

FileKey == Files \X (1 .. MaxMoves)
Output == [key : FileKey, text : 1 .. MaxMoves, life : Nat]
Passing == [pc : {"load", "sleep", "runs", "files", "parse"}, runs : Seq(1 .. RunCount),
            files : SUBSET Files, key : FileKey \cup {<<>>}]
Loading == [pc |-> "load", runs |-> <<>>, files |-> {}, key |-> <<>>]
Resting == [Loading EXCEPT !.pc = "sleep"]

ScriptsInit ==
    /\ runs = 0
    /\ version = [f \in Files |-> 0]
    /\ outputs = <<>> /\ seen = {}
    /\ pass = Loading
    /\ life = 0

-------------------------------------------------------------------------------
(* The agents.                                                              *)

StartRun ==
    /\ runs < RunCount /\ Moved
    /\ runs' = runs + 1
    /\ UNCHANGED <<version, outputs, seen, pass, life>>

WriteTranscript(f) ==
    /\ RunOf[f] <= runs /\ Moved
    /\ version' = [version EXCEPT ![f] = @ + 1]
    /\ UNCHANGED <<runs, outputs, seen, pass, life>>

-------------------------------------------------------------------------------
(* The task.                                                                *)

Newest(n, limit) == IF n < limit THEN n ELSE limit

\* load_recent_transcript_keys: a store that fails means that nothing was seen.
LoadKeys ==
    /\ pass.pc = "load"
    /\ \/ /\ seen' = {outputs[i].key : i \in {j \in DOMAIN outputs : j > Len(outputs) - RecentKeys}}
          /\ UNCHANGED around
       \/ seen' = {} /\ Trouble
    /\ pass' = Resting
    /\ UNCHANGED <<runs, version, outputs, life>>

\* recent_agent_runs: the newest first.
ListRuns ==
    /\ pass.pc = "sleep"
    /\ pass' = [pass EXCEPT !.pc = "runs",
                            !.runs = [i \in 1 .. Newest(runs, RecentRuns) |-> runs + 1 - i]]
    /\ UNCHANGED <<runs, version, outputs, seen, life, around>>

Written(run) == {f \in Files : RunOf[f] = run /\ version[f] > 0 /\ run \in Scanned}

\* collect_jsonl_files: the files of a run, or as many as the limit lets through, in the
\* order of the directory, which is anyone.
FilesOf(run) ==
    {S \in SUBSET Written(run) :
        Cardinality(S) = Newest(Cardinality(Written(run)), FilesOfRun)}

NextRun ==
    /\ pass.pc = "runs" /\ pass.runs # <<>>
    /\ \E S \in FilesOf(Head(pass.runs)) :
          pass' = [pass EXCEPT !.pc = "files", !.runs = Tail(@), !.files = S]
    /\ UNCHANGED <<runs, version, outputs, seen, life, around>>

EndFiles ==
    /\ pass.pc = "files" /\ pass.files = {}
    /\ pass' = [pass EXCEPT !.pc = "runs"]
    /\ UNCHANGED <<runs, version, outputs, seen, life, around>>

\* transcript_key, and is it known?
LookAtFile(f) ==
    /\ pass.pc = "files" /\ f \in pass.files
    /\ pass' = IF <<f, version[f]>> \in seen
               THEN [pass EXCEPT !.files = @ \ {f}]
               ELSE [pass EXCEPT !.files = @ \ {f}, !.pc = "parse", !.key = <<f, version[f]>>]
    /\ UNCHANGED <<runs, version, outputs, seen, life, around>>

\* The file is read after its key was taken; one that does not parse counts as seen.
SkipTorn ==
    /\ pass.pc = "parse" /\ version[pass.key[1]] \in Torn
    /\ seen' = seen \cup {pass.key}
    /\ pass' = [pass EXCEPT !.pc = "files", !.key = <<>>]
    /\ UNCHANGED <<runs, version, outputs, life, around>>

AddOutput ==
    outputs' = Append(outputs, [key |-> pass.key, text |-> version[pass.key[1]], life |-> life])

\* Bug: what was stored is not remembered.
AddTranscriptUnseen ==
    /\ pass.pc = "parse" /\ version[pass.key[1]] \notin Torn
    /\ AddOutput
    /\ pass' = [pass EXCEPT !.pc = "files", !.key = <<>>]
    /\ UNCHANGED <<runs, version, seen, life, around>>

AddTranscript ==
    /\ pass.pc = "parse" /\ version[pass.key[1]] \notin Torn
    /\ AddOutput
    /\ seen' = seen \cup {pass.key}
    /\ pass' = [pass EXCEPT !.pc = "files", !.key = <<>>]
    /\ UNCHANGED <<runs, version, life, around>>

\* Bug: a key counts as seen before its text is stored.
FailPassSeen ==
    /\ pass.pc = "sleep" \/ (pass.pc = "parse" /\ version[pass.key[1]] \notin Torn)
    /\ Trouble
    /\ seen' = IF pass.pc = "parse" THEN seen \cup {pass.key} ELSE seen
    /\ pass' = Resting
    /\ UNCHANGED <<runs, version, outputs, life>>

\* The store fails: the pass ends there.
FailPass ==
    /\ pass.pc = "sleep" \/ (pass.pc = "parse" /\ version[pass.key[1]] \notin Torn)
    /\ Trouble
    /\ pass' = Resting
    /\ UNCHANGED <<runs, version, outputs, seen, life>>

EndPass ==
    /\ pass.pc = "runs" /\ pass.runs = <<>>
    /\ pass' = Resting
    /\ UNCHANGED <<runs, version, outputs, seen, life, around>>

Pass ==
    \/ LoadKeys \/ ListRuns \/ NextRun \/ EndFiles \/ SkipTorn \/ AddTranscript \/ EndPass
    \/ \E f \in Files : LookAtFile(f)

-------------------------------------------------------------------------------

ScriptsNext ==
    \/ Pass \/ FailPass
    \/ StartRun \/ \E f \in Files : WriteTranscript(f)

ScriptsEnd ==
    /\ pass' = Loading /\ seen' = {}
    /\ life' = life + 1
    /\ UNCHANGED <<runs, version, outputs>>
=============================================================================
