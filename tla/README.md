# RATO in TLA+

RATO is a companion for a developer's machine: a daemon, `ratd`, that watches
what goes on (shell commands, git, the clipboard, the screen), remembers it,
doubts it in popups, runs coding agents in git worktrees and writes config files
for other tools. A shell (a Tauri application), a CLI and a voice loop talk to
the daemon over a socket.

This directory holds TLA+ specifications of the parts of `ratd` that are hard to
test, the configurations that check them with TLC, and proofs checked with
TLAPS. Paths below are relative to `src/`; `main.rs`, `server.rs` and the other
daemon files are those of `src/crates/rat-daemon/src/`, `store.rs` is
`src/crates/rat-store/src/store.rs`, `jobs.rs` is
`src/crates/rat-memory/src/jobs.rs`.

    tlc -config wb_decide.cfg MCWorkbench.tla      one model-checking run
    tlapm Workbench_proofs.tla                     the proofs of one component

PROJECT.json lists the components, the runs with the module and configuration of
each, the source lines of every definition, the mutants and the hazards.

## 1. The system

### How it runs

`ratd` is one process on a multi-threaded tokio runtime. What runs at the same
time in it:

- one task per connection (`server.rs:66`), which serves the requests of that
  connection one after the other;
- the store thread (`store.rs`), which owns the SQLite connection and takes
  commands from a queue without a bound: a command is executed alone, a handler
  that sends two is not;
- loops: session ticker (60 s), critic, run poll (3 s), approval expiry (60 s),
  hourly and nightly memory jobs, terminal scan, transcript ingest, screen
  capture, process and HEAD watchers, clipboard thread, the pump behind them,
  the idle probe (30 s).

A handler or loop holds what it read across an `await`; that is where almost all
of the hazards come from. Nothing resumes a handler after a crash: what
survives is SQLite, the files, git, the keyring and the tmux server.

### The parts

| part | state | operations | what is hard |
|---|---|---|---|
| Workbench (`rat-workbench`) | `agent_runs`; worktrees, branches and the live repository; tmux windows | start, poll, merge_back, execute_merge | handlers racing the poll sweep; git and tmux seen from outside; crash between merge and record |
| Approvals (`store.rs`, `server.rs:623`, `voice_loop.rs`) | `approvals` | insert, decide, expire, set execution | two deciders, expiry between decision and execution |
| Sessions (`sessionizer.rs`, `ingest.rs`) | open session per project in memory; `work_sessions` | on_activity, tick, preload, apply | updates decided under a lock and written after it |
| Critic (`critic.rs`, `governor.rs` of `rat-brain`) | token buckets, hourly window; `pushbacks`, `disclosures` | fast_tick, slow_tick, feedback | an untrusted model answers whenever it likes; caps, dedupe, errors that are passed over, restart |
| Config edits (`rat-dotfile`, `server.rs:1029`) | files and temp files; `blobs`, `dotfile_edits` | apply, revert, the client's second attempt | two writers, faults between file and tables, repeated calls |
| Pins, ring, capture (`pins.rs`, `capture.rs`, `rat-vision`) | segments and pin directories on disk, `pins`, the keyring | capture, prune, pin, unpin, expire | disk, table and keyring change one after the other |
| Memory jobs (`jobs.rs`, `main.rs`) | `observations`, `memories`, `work_sessions.summary`, vectors | hourly, nightly | two tasks on the same tables; citations and pruning; panics that end a loop |
| Store (`rat-store`) | the SQLite file, the queue | one command per method, migrations | a command that stops between two of its statements, at an error or a crash; migrations cut off |
| Terminals (`rat-terminal`, `main.rs:703`) | `terminals` | scan, classify, set_role | scan and set_role overwrite each other |
| Transcripts (`main.rs:634`) | keys seen; `observations` | pass over the files of recent runs | half-written files, store errors, restarts |
| Sensors and mode (`rat-sensors`, `mode.rs`) | what each has seen; one bounded channel; away or not | poll, send, pump, probe | a channel that is full, ingests that fail |
| Injection (`rat-inject`) | a request in memory | approve, verify, inject | stale target, expiry |
| Policy, voice intents | none | pure functions | a table |
| Client (`rat-client`) | the connection | call, reconnect, second attempt | a repeated call |
| Model backends, adapters, protocol, CLI, shell | little | I/O | data rather than control |

How they interact: every table above is reached through the store thread;
activity reaches Sessions through `Ingest` from connections and sensors; the
critic reads `observations` and writes `pushbacks`, which feedback handlers
change; `approvals.decide` calls into the Workbench to execute what it approved,
the Workbench changes the live repository; the voice loop decides approvals; the
hourly job summarises the sessions the sessionizer closed, the nightly job
prunes the observations everybody wrote, and expires pins.

What makes each correct: an approval is decided once and a merge lands at most
once, for an approved one and in time; every run and proposal gets to an end;
sessions do not overlap, are closed in the end, and are final then; popups keep
their rate, do not repeat and cite only what was sent to the model and accounted
for; the feed of config edits can be reverted and tells what the files hold; a
pin has its copies and they can be opened; a session gets one episode and a day
one summary, and what a memory cites is not pruned; the store opens again and
does what its callers ask in one piece; sensors and watchers catch up with the
desktop, and store nothing twice. Where the code keeps less than that, a property
says how much it keeps, and section 5 shows what it does not.

## 2. Modules

| module | what it models | state ↔ code |
|---|---|---|
| `WorkbenchIds` | ids of approvals and runs; a branch is a project and a slug | `title_to_slug`: one slug, many projects |
| `ApprovalTable`, `RunTable` | commands of the store on `approvals`, `agent_runs` | `approval`, `run`: a row per id |
| `Worktrees` | what `worktree.rs` asks of git, and what others do with git | `tip`, `merged`: commits of a branch, and those in HEAD; `conflict`: what `merge-tree` says; `unfinished`: MERGE_HEAD |
| `Workbench` | handlers and loops over the above | `local[p]`: where process p stands and what it has read; `window`: tmux; `landed`: merges per approval; `cut`: approvals whose executor was stopped after the merge |
| `ApprovalLedger` | the promise: absent → pending → approved / denied / expired, approved → landed | – |
| `WorkbenchClaims` | claims of documents and comments that do not hold | – |
| `Sessions` | `Ingest`, `Sessionizer`, `work_sessions` | `open`: the map under the lock; `row`; `local[c]`: updates still to be written |
| `Governor` | token buckets and hourly window | `bucket`, `window`; `log` is history |
| `Critic` | the loop, feedback, `pushbacks`, `disclosures` | `loop`: where the loop is; `seen`, `pushback`, `disclosed`; `sent`, `lost` are history |
| `DotfileEdits` | `dotfile_edits.apply`/`.revert`, temp files, the second attempt of `ManagedClient` | `file`, `tmp`, `blobs`, `edit`; `local[c]` |
| `Pins` | capture loop, pipeline, ring, pins, keyring, nightly expiry | `segment`, `copies`: files; `pin`: rows; `environ`, `secret`: the key of the environment and of the keyring; `loop`, `hand[c]`: where loop and handlers are; `spoiled`, `raced` are history |
| `Memory` | the hourly and the nightly job and their tables | `obs`, `vecs`, `session`, `mems`, `retention`: tables; `hourly`, `nightly`: where the tasks are and what they hold |
| `StoreCommands` | what statements each method of `Store` runs, the migrations | – |
| `AtomicStore` | the promise: a call is one atomic step, in the order its client made them | `db`: per table, what was done to it |
| `StoreActor` | thread, queue, one-shot answers, transactions of the migrations | `queue`, `busy`, `disk`, `tx`, `thread` |
| `Surroundings` | processes that come and go; the budgets of moves and troubles | – |
| `Terminals` | the scan and `terminals.set_role` | `rows`; `scan`, `setting[c]`: what each holds |
| `Transcripts` | the transcript ingest | `seen`, `pass`: the task; `outputs`: observations; `version`: files |
| `Watchers` | `Terminals` and `Transcripts` over one desktop, with restarts | – |
| `Sensors` | process watcher, clipboard, HEAD watcher, channel, pump, mode | `tracked`, `copied`, `heads`: what each has seen; `channel`, `pumped`; `mode`; `stream` is history |
| `MC…` | definitions and symmetry for TLC | – |
| `…_proofs` | theorems, one module per component | – |

A step of a model ends where the code waits: at a store command, and at a git,
tmux, keyring or file system call that another process can see. Everything
between two such points is one action. Locals that matter are fields of a record
per process. A definition named as a mutant or a bug is not part of the
specification: it is a variant of the definition after it that a run must be
able to tell apart.

### Workbench

`StartCreate`, `StartInsert`, `StartSend` are `start_with_backend`: worktree and
window, row, command. `PollList`, `PollLook`, `PollSettle` are both the 3 s
sweep and `workbench.runs`. `MergeBackDiff`, `MergeBackInsert` are `merge_back`;
`DecideFetch`, `DecideStore` and then the `Execute…` actions are
`approvals.decide`, which runs `execute_merge` in the same handler. `VoiceFetch`
and `VoiceStore` are the voice loop's decision.

Abstractions: a branch has a number of commits, and merging takes those there
are at the time; whether it conflicts is decided anew with each commit on either
side. `ExecuteBegin` stands for both probes with `merge-tree` (the one of
`execute_merge` and that of `merge_into_live`); a conflict that arises after
them is `MergeStops`, which leaves the merge unfinished as the code does. A poll
may read "done" off the screen of an agent that prints the exit marker itself
(`Quoters`). All approvals are R2 merge_backs: no other kind is created. The
released `ratd` does not start the voice loop; it is modelled because the crate
offers it, and `Voices = {}` is the released daemon. A handler stops at the first
error of the store, wherever it stands (`StoreFails`); what it wrote before stays.
Two errors do more: `decide_approval` may make its UPDATE and fail to read the row
again (`DecideUnread`), and `git rev-parse` may fail after the merge landed
(`ExecuteUnread`). `cut` remembers approvals whose executor was stopped between
the merge and its record, by such an error or a crash.

### Sessions

`Append`, then `Touch` or `Begin`, then `WriteClose`, `WriteOpen`, `WriteTouch`
are `Ingest::ingest`; `CloseSilent` and writes are `Ingest::tick`; `Restart` is
a crash with `preload`. `Begin` appends a Close of the old session and an Open
of the new one to its list. A caller takes at most `MaxDelay` from its event to
its last write, with `2 * MaxDelay <= Gap` (the gap is 25 minutes; a suspend of
the machine in between is excluded, and without the assumption
`ClosedRowsAreFinal` is false). `StoreFails` is the first error of the store a
caller meets: it ends there, and its list is not written on (`apply` returns),
while the sessionizer goes on as if it was. `unwritten` records whose Open or
Close that cost, until a restart reads the table again.

### Critic and Governor

`FastTick`, `Ask`, `Disclose`, then `Drop`, `Doubt` or `AskGovernor`, then
`Dedupe`, `Show` or `Queue` are one round of the loop: between two of them the
code waits for the store or the model. `Ask` sends the observations
to the model (`sent`) and fixes `loop.since`, which the governor and the dedupe
window use later; `Disclose` is the answer and the row of `disclosures`. No client of a
model sets a time-out, so the answer may take any time, or never come. The
model's answer is any bag of ids in `Citations`. Errors of the store the loop
passes over are `DiscloseFails` (the answer is used without the row; `lost`) and
`DedupeUnread` (the verdict is compared with nothing; `blind`); those that end the
round are `GiveUp`. Tokens are counted in ticks where the code has `f64`; the
detectors are "at least `Failures` recent failures"; only the mode "mentor"
exists, the one `Critic::new` is given. A crash forgets buckets and window, as the
code does.

### DotfileEdits

A call (`CallApply`, `CallRevert`) goes through `Begin…` (read the old
contents), `CreateTmp`, `FillTmp`, `Rename` and then `InsertBefore`,
`InsertAfter`, `InsertRow`, `MarkReverted`. The temp file's name is made of the
file's name and the process id, so handlers share it: `on` says what the open
file of a handler has become when another renames or truncates it. A blob is its
contents, as the store addresses it by hash. `Refused` is a validation that
fails. The shell uses `ManagedClient`, which after any error calls once more
(`Resend`); a CLI calls once. `StoreFails` and `Crash` are the faults. IO errors
before the rename are `RenameFails`. The read of the old contents takes every
error for an empty file, as `fs::read(..).unwrap_or_default()` does: `BeginUnread`
is a file that is there and cannot be read (its owner or its permissions saw to
that), and that is renamed over all the same; `misread` remembers it.

### Pins

The capture loop is `Grab` (the pipeline: near duplicates are dropped, only new
lines are reported), `CreateSegment` and `FillSegment` (a file appears, then is
complete), `StoreText`, `AutoPin`, `Prune`; a round that fails goes on with
`Prune`. `BeginPin`, `LoadKey` / `CreateKey`, `CopySegment` per file, `InsertPin`
are `make_pin` for connections and for the loop; the pin key is that of
`RATO_PIN_KEY` if a life of the daemon has one (`environ`, any of `EnvKeys`, or
what is no key), else that of the keyring, and a new one if asking the keyring
fails for whatever reason; `LoadFails` is a key that does not decode; `Unpin`, `DeleteRow`,
`RemoveCopies` are `unpin`; `NightlyExpireRows` and `NightlyUnlink` the
expiry. Sealing is the key it is done with: the key of the ring is that of one
life of the daemon (`epoch`), so segments of an earlier life cannot be copied.
`spoiled` remembers which pins a handler gave up or died on, `raced` the makers
that were about to store a first key when another was; neither is in a guard.

### Memory

One action per store call or call of a model, in the order of `jobs.rs`: the
hourly job embeds (`HourlyBegin`, `EmbedAnswer`, `StoreVector`) and summarises
(`ReadSessions` … `WriteEpisode`); the nightly job writes the day
(`ReadEpisodes`, `DayAnswer`, `WriteDay`), lets memories fade (`ReadFading`,
`FadeOne`), prunes (`ReadCited`, `PruneBatchOfOld`) and reports. A text is what
it was made from; whether a byte index falls inside a character is a property of
the text (`Wide`, `WideAnswers`), and a job that panics is "dead". A call of the
model fails for one session as often as it likes (`Refused`), for all of them as
a fault, or never ends, as nothing sets a time-out (section 4). Its citations are
any strings: those that are ids of observations are what matters. Time stamps are whole units; `Day` is the job's 24 h sleep.

### StoreCommands, AtomicStore, StoreActor

`Statements(name)` is the list of statements of a method of `Store`: which
tables it reads, inserts into, updates and deletes from (with the tables its
triggers write), where a SELECT decides what follows, and where a row that is not
there ends the command (`Demanding`). `StoreActor` runs them one by one for the
command the thread took (`TakeCommand`, `ExecuteStatement`, `Reply`). A statement
may fail (`StatementFails`): the `?` of the code then answers the caller with an
error, the daemon goes on, and the statements before it stay done, since no
command opens a transaction. An INSERT that meets a row with its UNIQUE key
(`UniqueKeys`) fails always. `DropCaller` is a task that is cancelled while
it waits: its command stays queued, and it may go on to make other calls (a
library lets a caller do so; `ratd` itself cancels its tasks only when it ends). `OpenDb`,
`ExecuteMigration`, `StampVersion`, `CommitMigration`, `SpawnThread` open a file
of any older version. A crash loses the queue, what callers wait for, and the
open transaction. `AtomicStore` has the same calls and answers without thread and
queue: `Apply` executes all statements of a call at once, a client's calls in
the order it made them; `Fail` answers an error with the first statements of a
call done, and so does a crash, without an answer. Under the refinement mapping
(`Abstract` in `StoreActor`) the statements of the command in hand are not done
yet, and `Reply` or `StatementFails` is the step that applies them.

### Watchers, Terminals, Transcripts, Surroundings

`ReadRoles`, `Classify`, `UpsertHit` per terminal, `EndScan` are one scan,
`FailScan` a store error in it; `GetTerminal`, `SetRole` are `terminals.set_role`.
`/proc` and tmux are `procs` and `PaneOf`. The scan asks tmux without `-L`, so
it gets the default server's panes (`ListedServer`); it is assumed that the
daemon was not itself started inside a pane of its own server, whose `$TMUX`
would redirect it. `LoadKeys`, `ListRuns`, `NextRun`, `LookAtFile`,
`AddTranscript`, `EndPass` are one pass; a transcript is a file with a version,
and a version in `Torn` ends inside a line. A pass takes the newest `RecentRuns`
runs (100) and of a run `FilesOfRun` files (200) in the order the directory gives
them, which is any; a file may grow between the step that takes its key and the
step that reads its text. At its start the task knows the newest `RecentKeys`
keys (1000).

### Sensors

`Observe`, `SendProc`, `ReadClipboard`, `SendClipboard`, `TakeEvent`,
`IngestEvent` are watcher, clipboard thread and pump on one channel;
`ListProjects` and `ReadHead` the HEAD watcher; `ProbeIdle` the mode task with
its fallback on `last_event_ms` (`noted`), which the pump and `events.append`
set. A poll that sees nothing new is no step. Repositories are active and
readable, the clipboard is available.

## 3. Runs

| run | question | bounds |
|---|---|---|
| `wb_decide` | What if two connections, a voice loop and the expiry sweep meet at one approval, with a crash and an error anywhere, while polls look at the run? `OneExecutor`, `MergesAreApproved`, `ExecutionInWindow`, `LandedIsRecorded`, `DecisionIsFinal`, `ImplementsLedger`, `DoneBranchIsStable` | 2 connections, 1 voice, 1 run, 1 approval, 1 commit, 1 tick, 1 crash, 1 error |
| `wb_live` | Does each proposal and each finished run come to an end? `PendingSettles`, `FinishedRunsSettle` | 2 runs, one of an agent that prints the exit marker, a poll of 1, 1 proposal, 1 crash, 1 error |
| `sessions` | Do table and memory agree, sessions stay apart and final, and do they close? `OpenRowsAreTracked`, `SessionsAreApart`, `ClosedRowsAreFinal`, `HeldSessionsClose` | 2 emitters and the ticker, 3 sessions of a project, gap 2, delay 1, 7 ticks, 1 crash, 1 error of the store |
| `critic` | Are popups rare, new and founded? `HourlyCap`, `ModeRate`, `PopupsAreRationed`, `EvidenceIsDisclosed`, `PopupsAreNotRepeated` | 1 observation and 1 invented id, 3 pushbacks, cap 2 in 3 ticks, day 1, 3 ticks, an answer after any time, 1 crash or error of the store |
| `edits` | Can the feed be reverted, and is it true? `RowsHaveTheirBlobs`, `LoneWritesAreAtomic`, `FeedMatchesFile`, `ReplacedIsKept`, `RevertedOnce` | 1 file, 2 contents, a managed client and a plain one, 3 rows, 1 write or loss of readability from outside, 1 fault |
| `pins` | Do disk, table and keyring agree? `RowsHaveTheirCopies`, `PinsAreReadable`, `OrphansAreSpoiled` | 1 client and the loop, 2 pictures, 2 segments, 2 pins, 2 keys of the keyring, an environment with a key, without one or with nonsense, 2 ticks, 1 fault or crash |
| `memory` | Two jobs on the same tables: `OneEpisodeEach`, `DaysAreApart`, `CitedStay`, `SessionsAreSummarised` | 1 observation, 2 sessions, one refused for ever, 3 memories, a day of 1, 3 ticks, 1 fault or restart |
| `store` | Is the actor an atomic store that answers? `Implements`, `CallsAreAnswered`, `InsertsNeverClash`, `OpensAgain` | 2 clients, 1 key, 3 calls of `upsert_project`, `insert_approval`, `decide_approval` and `delete_observations_older_than` (one command of each shape), any older file, any failing statement, 1 crash |
| `watchers` | Do scan and ingest catch up, store nothing twice, and keep marks? `NothingTwice`, `MarksAreKept`, `TerminalsAreListed`, `TranscriptsAreIngested` | 2 processes on 2 terminals, 1 operator, 2 runs with 3 files, two of them in one run, lists of 1, 4 moves, 2 troubles |
| `sensors` | Are events changes, and does everything catch up? `EventsAreChanges`, `SensorsCatchUp` | 2 processes, 2 clips, 1 repository with 2 commits, a channel of 1, 3 moves, 2 troubles |
| `edits_claim_stored`, `memory_claim_cited` | a claim of a document each that does not hold: `BeforeIsStored`, `NoCitedIsPruned`, see section 5 | the smallest that shows it |

Type invariants are proved (section 6) and not checked again. The other
configurations, `wb_claim_terminal`, `wb_claim_associated` (module
`WorkbenchClaims`), `sessions_claim_readopted` (`Sessions`),
`critic_claim_disclosed` (`MCCritic`), `edits_claim_linked` (`MCDotfileEdits`),
`pins_claim_survive` (`MCPins`), `watchers_claim_remembered` and
`watchers_claim_workbench` (`MCWatchers`), are for a reader to run: each ends in
the counterexample section 5 tells of.

Why the bounds are enough. Every race the properties speak of is between two
handlers, or a handler and a sweep, on one row: two processes of each kind and
one row show every order of their steps. A second approval or file adds no
interaction, since no action reads two (the proofs hold for any number). Two
runs are there where rows meet: in the branch names of two projects, and in
`wb_live` in a listing of one, so that one run is too old for it. Three sessions are what a session, its successor
and a late write to either need; seven ticks let two gaps of silence pass. Three
pushbacks and a cap of two reach the cap and one past it; three ticks make an hour,
so an answer that takes the whole run comes after it. In `wb_decide` no agent
prints the exit marker itself (`Quoters = {}`; `DoneBranchIsStable` speaks of the
other agents only, and its theorem is for any `Quoters`); in `wb_live` one does.
Three rows are an edit, its revert and one more writer. Two segments are the one
that is copied and the one that is pruned meanwhile. In Memory a night is as long
as a unit of time, so that it is still at work when the next hour begins; the
limits of the lists are 1 or 2, so that more is there than one call returns.
A channel of one place is full after one event. In `watchers` and `sensors` every
move of the desktop (a process that starts or exits, a run, a version of a file, a
copy, a commit, a tick) takes one of `MaxMoves`: four are enough for an agent, a
mark on it, and its replacement by another, or for a run with one file more than
the task takes and one of them growing while it is read. Errors are steps of their
own, one anywhere in a run, as each is met by a handler that ends. One crash, at any point, breaks any one
pair of steps; a second one meets what the first one can leave.

Deadlock is not checked: with the clock, commits and rows bounded an instance
may come to rest.

Each property of a passing run has a mutant: a definition changed the way a bug
would change the code, under which TLC finds the property violated.

## 4. Fairness

Only the daemon's own loops, and handlers once begun, are fair:

- Workbench: the clock, the two sweeps, the steps of `execute_merge` (git and tmux
  on the same machine are assumed to end);
- Sessions: the ticker, and the steps of each caller;
- Memory: the hourly job's own steps (`HourlyStep`), and not its calls over HTTP;
- Watchers: the scan and the transcript pass, each on its own;
- Sensors: the process watcher, the clipboard thread, the pump, the HEAD
  watcher and the idle probe;
- StoreActor: the thread.

This is weak fairness: each loop is a tokio interval (or a thread in a loop)
that nothing cancels, and tokio runs every task that is ready. Calls of the store
end (`CallsAreAnswered`), and so do those of the file system, git, tmux and the
desktop's idle probe, which is an assumption. Calls of the model and of the
embedder are not assumed to end: the clients are made with
`reqwest::Client::new()`, which sets no time-out (`openai.rs:35`,
`anthropic.rs:36`, `compat.rs:35`, `embed.rs:26`). A call that never does holds
up the hourly job for good; `SessionsAreSummarised` excepts that (`WaitsForEver`)
and a task that has died. In Critic an answer may come at any time or never, and
no property needs it to come. A loop that panics is "dead", which
is a state of the model. Agents, operators, clients, new requests, moves of the
desktop, the voice loop, the opening of a store, the night, troubles and crashes
owe nothing. Troubles and crashes are finitely many; what a loop does after the
last of them is what the liveness properties speak of. The other properties are
about safety and assume no fairness.

## 5. Where code and documents differ

Checked, each by a run that ends in a counterexample:

- `edits_claim_stored`: the file is written before its old contents are stored;
  a fault in between loses them (`server.rs:1043`; ARCHITECTURE.md:470 has the
  blob as step 1).
- `memory_claim_cited`: the pruner reads what memories cite and then deletes in
  batches; the hourly job may write a memory in between that cites what goes
  (`jobs.rs:330`; TEST-CHECKLIST.md:118). `CitedStay` says how far the claim holds.

By the configurations a reader may run by hand:

- `wb_claim_terminal`: `poll` decides on the row it fetched and writes later, so
  "done" overwrites "merged" (`runner.rs:221`; the comment at `runner.rs:180`).
- `wb_claim_associated`: the run to mark as merged is found by branch name among
  runs of all projects (`runner.rs:647`; the comment at `runner.rs:346`).
- `sessions_claim_readopted`: two sessions of a project left open by a crash,
  one is re-adopted, the other stays open for good (`sessionizer.rs:48`;
  `main.rs:92`).
- `critic_claim_disclosed`: the error of `insert_disclosure` is ignored, so a
  pushback may cite what no row of `disclosures` tells of (`critic.rs:334`;
  ARCHITECTURE.md:304: every call writes a row).
- `edits_claim_linked`: two reverts of one row both pass the check of
  `reverted_by`, both write, and the row then names the later one only
  (`server.rs:1083`; ARCHITECTURE.md:475).
- `pins_claim_survive`: two makers whose first pins race each find no key and make
  one; the keyring keeps the second, and the pin sealed with the first can never be
  opened (`pins.rs:49`; RUNNING.md:210).
- `watchers_claim_remembered`: `terminals.set_role` while the scan is on its way is
  overwritten by the role the scan computed before (`main.rs:717`;
  ARCHITECTURE.md:265: remembered).
- `watchers_claim_workbench`: the scan lists the panes of tmux's default server
  only, so no agent of the workbench, which runs on `-L rato`, is ever
  recognised as one; it is stored as foreign (`rat-terminal/src/lib.rs:263`;
  ARCHITECTURE.md:263).

Seen while modelling, and part of the models, without a run of their own:

- `merge_back` does not look at the status of the run: a running, failed or
  merged run may be proposed (`runner.rs:250`, the title at `:316` says
  otherwise).
- The exit marker is scraped from the screen, which the agent's output is on
  (`runner.rs:200`): `Quoters`.
- Between probe and merge the operator may commit; `git merge` then stops with
  a conflict and is not aborted (`worktree.rs:317`).
- A voice approval is never executed (`voice_loop.rs:132`; ARCHITECTURE.md:254).
- A crash between the merge and `set_approval_execution`, an error of
  `git rev-parse` after it (`worktree.rs:320`) or of the store (`runner.rs:409`)
  loses the record: `LandedIsRecorded` says that nothing else does.
- A merge takes the branch by name, with every commit made after the proposal
  stored its diff (`runner.rs:388`). ARCHITECTURE.md:254 has it so; the theorem
  `ShownIsMerged` says when nothing but what was shown lands.
- The rows to compare a verdict with are taken for none when the store fails
  (`critic.rs:430`), and a popup is then shown again; verdicts that are queued are
  stored before the comparison, once a tick (`critic.rs:407`).
- The governor admits before the model is asked (`critic.rs:413`), so one popup may
  come later than its admission allows: "but for one" in `PopupsAreRationed`.
- A config file that is there and cannot be read is taken for an empty one and
  written over, with no fault at all (`rat-dotfile/src/lib.rs:107`); what was in it
  is in no blob.
- `RATO_PIN_KEY` in one life of the daemon and not in the next makes pins
  unreadable for as long (`pins.rs:41`), and an error of the keyring is taken for a
  missing key: a new one is stored over it. `PinsAreReadable` says that nothing
  else but a race of two first pins does.
- A command of the store is no transaction: an error between two of its statements
  (`store.rs:2566`, `:2777`, `:3458`) leaves the first of them done.
- Of a run with more than 200 files in its transcript directory the rest is never
  taken (`main.rs:662`): `TranscriptsAreIngested` is about the other runs.
- The poll sweep looks at the newest 100 runs (`main.rs:402`): `FinishedRunsSettle`
  holds for these, and one that is `Outdated` may stay "running".
- `apply` returns at the first error of the store (`ingest.rs:91`), and the session
  in memory may then have no row, or an old row stay open until a restart:
  `OpenRowsAreTracked` says that no other session is touched.
- A session may end before it starts when a Touch is decided with an earlier
  time than the Open (`sessionizer.rs:68`).
- Two writers of one config file share a temp file and can leave a torn file
  (`rat-dotfile/src/lib.rs:176`; ARCHITECTURE.md:474): `LoneWritesAreAtomic`
  has to exclude them.
- `jobs.rs:102` and `:241` cut text at a byte index, which panics inside a
  character and ends the hourly or nightly task: "dead" in Memory.
- A session whose summary the model refuses stays at the head of every batch;
  as many of them as a batch holds would stop all summaries (`jobs.rs`):
  `SessionsAreSummarised` holds while there are fewer.
- The nightly job sleeps 24 h after it ends, so it drifts, and a night on which
  the daemon is down is never made up for (`main.rs:328`).
- A pin whose handler fails or dies leaves a directory nobody removes
  (`pins.rs:117`): `OrphansAreSpoiled` says that nothing else does.
- A mark is applied by command hash on every terminal (`main.rs:707`;
  ARCHITECTURE.md:265 says per tty and hash): once one terminal is ignored, the
  first sighting of the same command in another is stored as ignored.

## 6. Proofs

`tlapm` checks every theorem; none takes anything on trust beyond the named
assumptions on the constants (`IdsAssumption`, `MaxCommitsAssumption`,
`WorkbenchAssumption`; `SessionsAssumption`, `DelayAssumption`;
`GovernorAssumption`, `CriticAssumption`; `DotfileAssumption`;
`PinsAssumption`; `MemoryAssumption`, `NothingAssumption`; `StoreAssumption`;
`SurroundingsAssumption`, `TerminalsAssumption`, `TranscriptsAssumption`,
`SensorsAssumption`), which TLC evaluates in every run. They hold for any number of connections, rows,
files, commits, ticks, faults and crashes.

**Workbench** (`Workbench_proofs`). The inductive invariant is

    Inv == TypeOK /\ HeldInv /\ ExecutorInv /\ OneExecutor
                  /\ MergesAreApproved /\ ExecutionInWindow

None of the last three is inductive: that a merge lands once needs that no other
handler is executing the approval, and that the merge of *this* handler has not
landed yet. `ExecutorInv` says so: whoever executes an approval works on an
approved row, with `landed` 0 before the merge step and 1 after it, and a start
time between decision and expiry. `HeldInv` says what a handler has read stays
true as far as it relies on it. One lemma per action, each split by conjunct.
Theorems: `TypeCorrect`, `ExecutedByOne`, `OnlyApprovedMerges`,
`ExecutedInWindow`; `Implementation` (every step of Workbench is a step of
`ApprovalLedger` or a stutter, under `phase <- Phase`); `DecidedOnce`, which
follows from it; and `RecordedUnlessCut` with a step lemma over `Inv`: a merge that
landed is on record unless its own handler is still on its way, or was stopped by
an error or a crash (`cut`).

That the branch of a done run is stable needs to know who may still commit to it.
`OwnerInv`: rows share no branch, a window belongs to a row or to the one handler
that is about to insert it, and that handler has its run, branch and slug to
itself. `ExitInv`: done, in a row or as a verdict about to be written, is said
only of an agent that left its window, unless the agent prints the marker itself
(`Quoters`). `StableBranches` is `DoneBranchIsStable` for every set of such
agents: it speaks of the runs of the others.

Three theorems say how far a merge by branch name can be relied on.
`ShownIsMerged`: from the moment on at which an approval shows all that is
on its branch and the agent of that run has exited (`ShowsAll`), what lands on its
behalf is what it shows; commits that go along unseen are those of an agent still
at work. `NamesAreLanded`: a merged run has the branch *name* of a merge that
landed (`NameInv`), and where there is one project it is the run of that branch
(`MergedIsLanded`). `OwnBranches` is what they rest on: no two runs have one
branch, however many are started at once.

**Sessions** (`Sessions_proofs`).

    Inv == SafeInv /\ (crashes = 0 => QuietInv)

The clock decides: a session is given up after a gap without activity, and a
caller writes within `MaxDelay` of its event, so no session is given up while an
Open or a Touch of it is on its way (`PendingIsHeld`, with `DelayAssumption`).
Hence a Close meets a row nobody writes any more (`ClosedIsFinal`), across
crashes and errors. An error leaves a session in memory without a row, so the
invariant has a third case for it (`HeldIsOpen`, `CloseIsOfOpen`), and that no
two projects share a session (`HeldOnce`) does not follow from the rows. Without
a crash nothing else is lost (`NoneIsLost` → `NothingIsLost`), and
whatever is not in memory was silent for a gap less two delays (`LongSilent`,
`Apart` → `SessionsStayApart`).

**Critic** (`Critic_proofs`).

    Inv == TypeOK /\ WindowIsComplete /\ HourlyCap
                  /\ LoopInv /\ EvidenceIsDisclosed /\ PopupsAreNotRepeated

The governor forgets as it goes, so the cap needs that what it has forgotten is
an hour before any admission to come (`WindowIsComplete`). The time of the next
admission is not the clock: it is `loop.since` while the loop waits for the
model, for however long, which is why `NextAdmission` is what the invariant speaks of. The cap
then is a counting argument: `Cap + 1` admissions in an hour would all be in the
window. `EvidenceIsDisclosed` says of what a pushback cites that it was in a prompt,
and of each call's contents that they are on record, in hand, or `lost` with a
failed write or a crash. `PopupsAreNotRepeated` needs that between the dedupe check and the
insertion no other row appears (there is one loop) and that rows never lose
their evidence (`LoopInv`); a popup whose comparison could not be read is `blind`,
and excepted. The rates of the buckets add two invariants
(`RatesInv`): between any two admissions of a mode no more tokens were taken
than a bucket holds and what accrued (`RateInv`), and what is left in the bucket
bounds what may still be taken (`BucketsAt`, at the time of the next admission).
That popups are rationed is an injection of popups into admissions (`Origins` in
`PopupInv`) that keeps their order: each popup came of an admission of its own, at
or before it, and there is one loop, so each popup is before the next admission.
Hence of the popups of any time all but the first came of admissions in that
time, and the rates and the cap for admissions hold for them, however long the
model takes. Theorems: `TypeCorrect`, `AdmissionsAreCapped`, `NothingIsFabricated`,
`NoPopupTwice`, `RatesAreKept`, `PopupsAreFew`.

**DotfileEdits** (`DotfileEdits_proofs`).

    Inv == TypeOK /\ HandlerInv /\ RowsHaveTheirBlobs /\ RevertsAreLinked /\ PathInv

`HandlerInv` relates a handler to its row and the blobs: what it is about to
insert is stored already, and a revert writes what its row had replaced.
`PathInv` speaks of one file at a time, as long as no two writers were at work on
it at once (`met`): `Alone` follows the handler through create, fill and rename,
so that what the rename puts in place is the whole new contents; and while
nothing has failed, `Kept` and `Told` say what the handler in
flight still owes to the tables. `Apart` is the frame: an action on another file
changes nothing of this one. A file that was there and could not be read is
excepted from what is kept (`misread`). Theorems: `BlobsAreThere`,
`AtomicWhenAlone`, `FeedIsTrue`, `NothingIsLost`, `TypeCorrect`, and
`LinkedReverts`, which no run repeats: the marks of a revert and of the row it
reverts name each other. That a row is reverted once (`RevertedOnce`) is
model-checked only: it is about files that nobody else writes at the time, and two
reverts at once break it (section 5).

**Pins** (`Pins_proofs`).

    Inv == TypeOK /\ LoopInv /\ KeyInv /\ FirstKeyInv /\ IdInv /\ AloneInv
                  /\ GoneInv /\ CopyInv /\ RowsHaveTheirCopies /\ OrphansAreSpoiled

The invariant says who holds the id of a pin: a handler that makes one is alone
with its id until the row is inserted (`AloneInv`), and an id whose row was
deleted never gets one again (`GoneInv`). `CopyInv` is what has been copied so
far, so that at the insertion it is everything. `KeyInv` and `FirstKeyInv` are about the
keyring: a key that is there is replaced only where a call of the keyring failed,
and where no two makers stood before the first key at once (`raced`) there is one
at most. So `Readable`: but for failures and that race, every copy opens with the
key of the keyring, or was sealed under one its daemon's environment gave, whatever
environment each life has. Theorems: `CopiesOfRows`, `Readable`, `OrphansOfFaults`, and two that no run repeats: `ManualStay` (the
nightly job takes no pin made by hand) and `KeptText` (no line is lost between
the pipeline and the observations, unless a call failed).

**Memory** (`Memory_proofs`).

    Inv == TypeOK /\ QueueInv /\ NightInv

Only the nightly job changes a memory, and nothing takes one away or changes
what it cites: so what the job has read stays true of the memories it has read,
and every other one is newer (`ListedInv`, `FadingInv`). `DaysInv` bounds the
episodes of all day summaries by the window of the next night (`Covered`), which
begins a day after the last one ended, or later. Theorems: `TypeCorrect`,
`DaysApart`, `CitedObservationsStay`, `MemoriesFade`.

The job writes the summary first and the episode after it, and ignores the error of
either (`jobs.rs:157-170`). A summary that is lost leaves the session unsummarised
behind an episode, and the next hour makes another: so `OneEpisodeEach` speaks of
faults, and is not inductive. `AccountInv` counts: the episodes of a session, and the
one the job is about to write, are at most the faults and the summary (`Told`). It
needs that the sessions in hand are different and have no summary yet
(`InHandInv`), which holds because the listing is one statement and only this job
writes summaries. The theorem is `OneEpisode`.

**StoreActor** (`StoreActor_proofs`).

    Inv == FileInv /\ CallsInv /\ RowsInv

`FileInv`: the tables of the file are those of its version, inside a transaction
those of the next one; hence `FileOpensAgain` and, as the thread starts only
with the newest version, `TablesAreFound`. `RowsInv`: what a command has looked
up is still so when it inserts, for the thread executes nothing else in between;
it needs what the commands are made of, for which there is a lemma per group of
methods; hence `KeysNeverClash`: an INSERT that follows its own look never runs into
the UNIQUE key of the row it looked for.

`Implementation`: the store implements `AtomicStore`. Callers see the tables
without what the command in hand has written (`Before`), and a call takes effect
in the step of the thread that answers it, with an error (`FailRef`, for the
statements done so far) or without. Then all its statements must add up to
the one abstract step: `HalfwayInv` says the tables are what the statements so far
made of what callers see, `EntriesInv` that nothing else in them is of a call that
is not answered, `PendingInv` that the queue holds those calls, oldest first. A
command has at most three statements (a lemma per group of them), so the
abstract step's recursive function unfolds to a term and no induction is needed.

**Watchers** (`Watchers_proofs`).

    Inv == Counters /\ DeskInv /\ ScriptsInv

A mark is kept because a hit was classified with the very marks the scan has
read (`HitsAreMarked` → `NoMarkIsForgotten`). A key is stored once in a life because
it is among the keys seen, and the file in hand is one whose key is not
(`StoredIsSeen`, `FilesInHand`). The text may be younger than the key: a file grows
only, and passes see it in order (`TextsInOrder`), so where the same text is stored
under two keys the file grew between the first key and its text
(→ `RepeatsAreRaced`).

**Sensors** (also in `Watchers_proofs`, which extends both modules).

    SensorsInv == SensorsTypeOK /\ StoryInv /\ FreshBaseline
                  /\ Len(pumped) <= 1 /\ Len(copied.out) <= 1

`InOrder` is what was ingested, followed by what the pump holds, the channel and
the watcher's own events: a step that hands an event on does not change it.
`StoryInv` adds to `EventsAreChanges` that the last event about a process, a HEAD
or the mode says what its watcher has on its mind (`tracked`, `heads`, `mode`),
and every event is made where these change. Git and mode events are ingested
ahead of those that wait, so the lemmas are about putting events in the middle of
a sequence: events about something else change no story (`InsertOther`), and news
continues it where nothing about the same subject comes after (`InsertNews`).
`FreshBaseline` is for the first scan, which tracks without telling. Theorems:
`SensorsTypeCorrect` and `ChangesOnly`, for any size of the channel.

Every safety and action property that a passing run checks is proved, but for
`RevertedOnce`. Model-checked only is liveness (`PendingSettles`,
`FinishedRunsSettle`, `HeldSessionsClose`, `SessionsAreSummarised`,
`TerminalsAreListed`, `TranscriptsAreIngested`, `SensorsCatchUp`,
`CallsAreAnswered`), which is out of the prover's reach.

## 7. Not modelled

- The injection ceremony (`rat-inject`): a request in memory that ends in a stub;
  nothing is typed and nothing is stored.
- Model backends, embeddings, OCR: external services; a model gets any answer
  from them, or none.
- Ranking and retrieval (`retrieve.rs`, full-text and vector search): they read
  and write nothing. The comment at `memory_searcher.rs:44` tells of turning
  embeddings off for good, on a branch that the function it calls leaves
  unreachable, since it falls back by itself.
- Protocol types, CLI, configuration, shell, the policy table and the intents:
  data, and tables of text.

Assumed throughout: the wall clock does not go back, and a command of the store
is lasting once answered. Modules other than StoreActor and Memory take a
command of the store as one atomic step: that is what `Implements` shows.

## 8. Plan

Done and proved: Workbench with approvals, Sessions, Critic and Governor, config
edits, pins with ring and capture, both memory jobs, the store, terminals and
transcripts, sensors and mode.

Left:

1. `Injection`: nothing is injected that was not approved for this target and
   mode, or after its expiry.
2. Pure operators against reference definitions: policy table, next 03:30,
   detectors, rank fusion, slugs.
