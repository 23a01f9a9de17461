----------------------------- MODULE Workbench -----------------------------
(***************************************************************************)
(* Agent runs and their way back into the operator's repository: the       *)
(* TaskRunner of rat-workbench, the RPC handlers of ratd that call it, the *)
(* two sweeps of ratd that touch the same rows and the voice loop.         *)
(*                                                                         *)
(* ratd serves every connection in a task of its own, on several threads.  *)
(* A handler is therefore a process that holds local values between its    *)
(* steps; a step ends where the handler waits for the store thread, and    *)
(* git and tmux calls, which other processes of the machine see, are steps *)
(* too.  A handler stops halfway when the store or git answers a step with *)
(* an error, or by a Crash.                                                *)
(***************************************************************************)
EXTENDS ApprovalTable, RunTable, Worktrees

CONSTANTS Conns,         \* RPC connections, each one handler at a time
          Starters,      \* the connections that send workbench.start,
          Listers,       \* ... workbench.runs,
          Proposers,     \* ... workbench.merge_back,
          Deciders,      \* ... approvals.decide
          Sweep,         \* the task that polls agent runs every 3 s
          Voices,        \* voice loops; the released ratd starts none
          Quoters,       \* runs whose agent prints RATO_EXIT=0 while it works
          ApprovalExpiry,\* APPROVAL_EXPIRY_MS, in ticks
          PollLimit,     \* runs a poll looks at: 100
          FindLimit,     \* runs searched for the merged branch: 50
          MaxTime,       \* bound: ticks of the clock
          MaxCrashes,    \* bound: daemon crashes
          MaxFaults      \* bound: errors of the store, or of git after a merge

Procs == Conns \cup {Sweep} \cup Voices

ASSUME WorkbenchAssumption ==
    /\ Starters \cup Listers \cup Proposers \cup Deciders \subseteq Conns
    /\ Sweep \notin Conns /\ Sweep \notin Voices /\ Conns \cap Voices = {}
    /\ Quoters \subseteq Runs
    /\ ApprovalExpiry \in Nat \ {0}
    /\ PollLimit \in Nat /\ FindLimit \in Nat
    /\ MaxTime \in Nat /\ MaxCrashes \in Nat /\ MaxFaults \in Nat

VARIABLES now,        \* the wall clock
          window,     \* the tmux window of a run
          local,      \* what each process holds between two steps
          landed,     \* merges run on behalf of an approval: the live git log
          crashes,
          faults,
          cut         \* approvals whose executor an error or a crash stopped
                      \* after the merge and before its record

vars == <<approval, run, worktreeVars, now, window, local, landed, crashes,
          faults, cut>>

(* pc names the step a process takes next.  The other fields hold what the *)
(* handler read earlier: the approval and verdict of its request, a run    *)
(* and its branch, the runs still to poll, a time, and the branch tip a    *)
(* diff was computed from.                                                 *)
Local == [pc      : {"idle", "register", "send", "poll", "settle", "propose",
                     "decide", "begin", "merge", "record", "find", "mark"},
          appr    : Approvals \cup {NoApproval},
          verdict : Verdicts \cup RunStatuses,
          run     : Runs \cup {NoRun},
          branch  : Branches,
          todo    : SUBSET Runs,
          at      : Nat,
          shown   : Nat]

Idle == [pc |-> "idle", appr |-> NoApproval, verdict |-> "absent",
         run |-> NoRun, branch |-> SomeBranch, todo |-> {}, at |-> 0,
         shown |-> 0]

\* "shell": open, nothing sent to it; "exit0", "exit1": RATO_EXIT=n is on show.
Windows == {"none", "shell", "working", "exit0", "exit1", "gone"}

TypeOK ==
    /\ ApprovalTableTypeOK
    /\ RunTableTypeOK
    /\ WorktreesTypeOK
    /\ now \in 0 .. MaxTime
    /\ window \in [Runs -> Windows]
    /\ local \in [Procs -> Local]
    /\ landed \in [Approvals -> Nat]
    /\ crashes \in 0 .. MaxCrashes
    /\ faults \in 0 .. MaxFaults
    /\ cut \in SUBSET Approvals

Init ==
    /\ ApprovalTableInit
    /\ RunTableInit
    /\ WorktreesInit
    /\ now = 0
    /\ window = [r \in Runs |-> "none"]
    /\ local = [p \in Procs |-> Idle]
    /\ landed = [a \in Approvals |-> 0]
    /\ crashes = 0
    /\ faults = 0
    /\ cut = {}

At(p, step)       == local[p].pc = step
Goto(p, state)    == local' = [local EXCEPT ![p] = state]
Continue(p, step) == local' = [local EXCEPT ![p].pc = step]
Finish(p)         == Goto(p, Idle)

failureVars == <<crashes, faults, cut>>
clockVars   == <<now, failureVars>>

-----------------------------------------------------------------------------
(* workbench.start: worktree and window, then the row, then the command.   *)

\* A tmux failure after `git worktree add` leaves the branch behind.
StartCreate(p, r, b) ==
    /\ At(p, "idle")
    /\ r \notin Rows /\ window[r] = "none"
    /\ CreateWorktree(b)
    /\ \/ /\ window' = [window EXCEPT ![r] = "shell"]
          /\ Goto(p, [Idle EXCEPT !.pc = "register", !.run = r,
                                  !.branch = b, !.at = now])
       \/ UNCHANGED <<window, local>>
    /\ UNCHANGED <<approval, run, landed, clockVars>>

StartInsert(p) ==
    /\ At(p, "register")
    /\ InsertAgentRun(local[p].run, local[p].branch, local[p].at)
    /\ Continue(p, "send")
    /\ UNCHANGED <<approval, worktreeVars, window, landed, clockVars>>

\* When the keys cannot be sent the run stays running, with nothing running.
StartSend(p) ==
    /\ At(p, "send")
    /\ LET r == local[p].run IN
         \/ window[r] = "shell" /\ window' = [window EXCEPT ![r] = "working"]
         \/ UNCHANGED window
    /\ Finish(p)
    /\ UNCHANGED <<approval, run, worktreeVars, landed, clockVars>>

-----------------------------------------------------------------------------
(* The 3 s sweep and workbench.runs: list the running runs, then look at   *)
(* the window of each and write down what was seen.                        *)

PollList(p) ==
    /\ At(p, "idle")
    /\ \E S \in SUBSET Rows :
         /\ RecentAgentRuns(PollLimit, S)
         /\ \E r \in S : Running(r)
         /\ Goto(p, [Idle EXCEPT !.pc = "poll",
                                 !.todo = {r \in S : Running(r)}])
    /\ UNCHANGED <<approval, run, worktreeVars, window, landed, clockVars>>

NextPoll(p, r) ==
    LET rest == local[p].todo \ {r} IN
    Goto(p, IF rest = {} THEN Idle
                         ELSE [Idle EXCEPT !.pc = "poll", !.todo = rest])

Quoted(r) == IF r \in Quoters THEN {"done"} ELSE {}

\* A bug: the echoed command line is taken for the exit marker.
ReadingsOfEcho(r) == IF window[r] = "gone" THEN {"failed"} ELSE {"done"}

\* The first RATO_EXIT=n on the last 50 lines of the window.  "failed" is
\* also what a window that cannot be captured reads as.
Readings(r) ==
    CASE window[r] = "gone"               -> {"failed"}
      [] window[r] = "exit0"              -> {"done", "failed"}
      [] window[r] = "exit1"              -> {"failed"} \cup Quoted(r)
      [] window[r] = "working"            -> {"running", "failed"} \cup Quoted(r)
      [] OTHER                            -> {"running", "failed"}

PollLook(p, r) ==
    /\ At(p, "poll") /\ r \in local[p].todo
    /\ IF Running(r)
         THEN \E reading \in Readings(r) :
                IF reading = "running"
                  THEN NextPoll(p, r)
                  ELSE local' = [local EXCEPT ![p].pc = "settle",
                                              ![p].run = r,
                                              ![p].verdict = reading]
         ELSE NextPoll(p, r)
    /\ UNCHANGED <<approval, run, worktreeVars, window, landed, clockVars>>

PollSettle(p) ==
    /\ At(p, "settle")
    /\ UpdateAgentRunStatus(local[p].run, local[p].verdict)
    /\ NextPoll(p, local[p].run)
    /\ UNCHANGED <<approval, worktreeVars, window, landed, clockVars>>

-----------------------------------------------------------------------------
(* workbench.merge_back: the diff of the branch, then a pending approval.  *)

MergeBackDiff(p, r) ==
    /\ At(p, "idle")
    /\ r \in Rows
    /\ now + ApprovalExpiry <= MaxTime          \* bound
    /\ Goto(p, [Idle EXCEPT !.pc = "propose", !.run = r, !.at = now,
                            !.shown = tip[run[r].branch]])
    /\ UNCHANGED <<approval, run, worktreeVars, window, landed, clockVars>>

MergeBackInsert(p, a) ==
    /\ At(p, "propose")
    /\ LET r == local[p].run IN
         InsertApproval(a, run[r].branch, r, local[p].shown,
                        local[p].at + ApprovalExpiry)
    /\ Finish(p)
    /\ UNCHANGED <<run, worktreeVars, window, landed, clockVars>>

-----------------------------------------------------------------------------
(* approvals.decide: the row is fetched, then decided.  The fetched risk   *)
(* gates R3 only; a merge_back is R2, and its fetched status is not used.  *)

DecideFetch(p, a, verdict) ==
    /\ At(p, "idle")
    /\ approval[a].status # "absent"
    /\ Goto(p, [Idle EXCEPT !.pc = "decide", !.appr = a,
                            !.verdict = verdict, !.at = now])
    /\ UNCHANGED <<approval, run, worktreeVars, window, landed, clockVars>>

\* The row was decided or expired since: an error answer, nothing written.
DecideRefused(p) ==
    /\ ~Pending(local[p].appr)
    /\ Finish(p)
    /\ UNCHANGED approval

\* A bug: whatever the verdict, a decided merge_back is executed.
DecideAndExecute(p) ==
    /\ At(p, "decide")
    /\ DecideApproval(local[p].appr, local[p].verdict, local[p].at, "cli")
    /\ Continue(p, "begin")
    /\ UNCHANGED <<run, worktreeVars, window, landed, clockVars>>

\* The handler goes on to execute what it approved.
DecideStore(p) ==
    /\ At(p, "decide")
    /\ \/ /\ DecideApproval(local[p].appr, local[p].verdict, local[p].at, "cli")
          /\ IF local[p].verdict = "approved" THEN Continue(p, "begin") ELSE Finish(p)
       \/ DecideRefused(p)
    /\ UNCHANGED <<run, worktreeVars, window, landed, clockVars>>

-----------------------------------------------------------------------------
(* The voice loop answers the approval on screen, if it is pending when    *)
(* the loop reads it, and leaves it at that.                               *)

VoiceFetch(p, a, verdict) ==
    /\ At(p, "idle")
    /\ Pending(a)
    /\ Goto(p, [Idle EXCEPT !.pc = "decide", !.appr = a,
                            !.verdict = verdict, !.at = now])
    /\ UNCHANGED <<approval, run, worktreeVars, window, landed, clockVars>>

VoiceStore(p) ==
    /\ At(p, "decide")
    /\ \/ /\ DecideApproval(local[p].appr, local[p].verdict, local[p].at, "voice")
          /\ Finish(p)
       \/ DecideRefused(p)
    /\ UNCHANGED <<run, worktreeVars, window, landed, clockVars>>

-----------------------------------------------------------------------------
(* execute_merge                                                           *)

\* The branch in the payload of the approval process p executes.
Target(p) == approval[local[p].appr].branch

\* A bug: the expiry is not checked again.
ExecuteWhenever(p) ==
    /\ At(p, "begin")
    /\ IF IsFastMergeable(Target(p))
         THEN local' = [local EXCEPT ![p].pc = "merge", ![p].at = now]
         ELSE Finish(p)
    /\ UNCHANGED <<approval, run, worktreeVars, window, landed, clockVars>>

\* Expired, or not mergeable: the handler returns, the approval stays approved.
ExecuteBegin(p) ==
    /\ At(p, "begin")
    /\ IF approval[local[p].appr].expires > now /\ IsFastMergeable(Target(p))
         THEN local' = [local EXCEPT ![p].pc = "merge", ![p].at = now]
         ELSE Finish(p)
    /\ UNCHANGED <<approval, run, worktreeVars, window, landed, clockVars>>

\* A bug: the handler goes straight on to mark the run.
ExecuteUnrecorded(p) ==
    /\ At(p, "merge")
    /\ MergeLands(Target(p))
    /\ landed' = [landed EXCEPT ![local[p].appr] = @ + 1]
    /\ Continue(p, "find")
    /\ UNCHANGED <<approval, run, window, clockVars>>

ExecuteMerge(p) ==
    /\ At(p, "merge")
    /\ \/ /\ MergeLands(Target(p))
          /\ landed' = [landed EXCEPT ![local[p].appr] = @ + 1]
          /\ Continue(p, "record")
       \/ /\ MergeStops(Target(p)) \/ MergeRefused(Target(p))
          /\ Finish(p)
          /\ UNCHANGED landed
    /\ UNCHANGED <<approval, run, window, clockVars>>

ExecuteRecord(p) ==
    /\ At(p, "record")
    /\ SetApprovalExecution(local[p].appr, local[p].at)
    /\ Continue(p, "find")
    /\ UNCHANGED <<run, worktreeVars, window, landed, clockVars>>

\* find_run_by_branch compares branch names; projects have names in common.
ExecuteFind(p) ==
    /\ At(p, "find")
    /\ \E S \in SUBSET Rows :
         /\ RecentAgentRuns(FindLimit, S)
         /\ LET found  == {r \in S : Slug(run[r].branch) = Slug(Target(p))}
                latest == {r \in found : \A q \in found : run[q].started <= run[r].started}
            IN  IF found = {}
                  THEN Finish(p)
                  ELSE \E r \in latest :
                         local' = [local EXCEPT ![p].pc = "mark", ![p].run = r]
    /\ UNCHANGED <<approval, run, worktreeVars, window, landed, clockVars>>

ExecuteMark(p) ==
    /\ At(p, "mark")
    /\ UpdateAgentRunStatus(local[p].run, "merged")
    /\ Finish(p)
    /\ UNCHANGED <<approval, worktreeVars, window, landed, clockVars>>

-----------------------------------------------------------------------------
(* Errors.  A handler stops at the first one (`?`), with what was done     *)
(* before it; only a sweep goes on to the next run.                        *)

StorePcs == {"register", "settle", "propose", "decide", "record", "find", "mark"}

\* The approval whose merge process p has made and not recorded.
Unrecorded(p) == IF At(p, "record") THEN {local[p].appr} ELSE {}

\* The store refuses the next call of p: nothing is written.
StoreFails(p) ==
    /\ local[p].pc \in StorePcs
    /\ IF At(p, "settle") THEN NextPoll(p, local[p].run) ELSE Finish(p)
    /\ cut' = cut \cup Unrecorded(p)
    /\ UNCHANGED <<approval, run, worktreeVars, landed>>

\* decide_approval makes its UPDATE and the SELECT after it fails: the row is
\* decided, and the handler does not go on to execute.
DecideUnread(p) ==
    /\ At(p, "decide")
    /\ DecideApproval(local[p].appr, local[p].verdict, local[p].at,
                      IF p \in Voices THEN "voice" ELSE "cli")
    /\ Finish(p)
    /\ UNCHANGED <<run, worktreeVars, landed, cut>>

\* The merge has landed and `git rev-parse HEAD` after it fails.
ExecuteUnread(p) ==
    /\ At(p, "merge")
    /\ MergeLands(Target(p))
    /\ landed' = [landed EXCEPT ![local[p].appr] = @ + 1]
    /\ cut' = cut \cup {local[p].appr}
    /\ Finish(p)
    /\ UNCHANGED <<approval, run>>

Failure(p) ==
    /\ faults < MaxFaults                        \* bound
    /\ faults' = faults + 1
    /\ StoreFails(p) \/ DecideUnread(p) \/ ExecuteUnread(p)
    /\ UNCHANGED <<now, window, crashes>>

-----------------------------------------------------------------------------
(* The approval expiry sweep, the clock, and a crash of the daemon: the    *)
(* tables, the repositories and the tmux server outlive it, and nothing    *)
(* resumes a handler on restart.                                           *)

ExpirySweep ==
    /\ \E a \in Approvals : Pending(a) /\ approval[a].expires <= now
    /\ ExpireApprovals(now)
    /\ UNCHANGED <<run, worktreeVars, window, local, landed, clockVars>>

Tick ==
    /\ now < MaxTime                            \* bound
    /\ now' = now + 1
    /\ UNCHANGED <<approval, run, worktreeVars, window, local, landed, failureVars>>

Crash ==
    /\ crashes < MaxCrashes                     \* bound
    /\ crashes' = crashes + 1
    /\ local' = [p \in Procs |-> Idle]
    /\ cut' = cut \cup UNION {Unrecorded(p) : p \in Procs}
    /\ UNCHANGED <<approval, run, worktreeVars, now, window, landed, faults>>

-----------------------------------------------------------------------------
(* The agent in its window, and the operator in the live repository.       *)

AgentCommit(r) ==
    /\ window[r] = "working"
    /\ Commit(run[r].branch)
    /\ UNCHANGED <<approval, run, window, local, landed, clockVars>>

AgentExit(r, exit) ==
    /\ window[r] = "working"
    /\ window' = [window EXCEPT ![r] = exit]
    /\ UNCHANGED <<approval, run, worktreeVars, local, landed, clockVars>>

WindowCloses(r) ==
    /\ window[r] \notin {"none", "gone"}
    /\ window' = [window EXCEPT ![r] = "gone"]
    /\ UNCHANGED <<approval, run, worktreeVars, local, landed, clockVars>>

Operator(prj) ==
    /\ OperatorCommit(prj) \/ OperatorAbortsMerge(prj)
    /\ UNCHANGED <<approval, run, window, local, landed, clockVars>>

-----------------------------------------------------------------------------
Start(p) ==
    \/ \E r \in Runs, b \in Branches : StartCreate(p, r, b)
    \/ StartInsert(p)
    \/ StartSend(p)

Poll(p) ==
    \/ PollList(p)
    \/ \E r \in Runs : PollLook(p, r)
    \/ PollSettle(p)

MergeBack(p) ==
    \/ \E r \in Runs : MergeBackDiff(p, r)
    \/ \E a \in Approvals : MergeBackInsert(p, a)

Decide(p) ==
    \/ \E a \in Approvals, verdict \in Verdicts : DecideFetch(p, a, verdict)
    \/ DecideStore(p)

Voice(p) ==
    \/ \E a \in Approvals, verdict \in Verdicts : VoiceFetch(p, a, verdict)
    \/ VoiceStore(p)

Execute(p) ==
    \/ ExecuteBegin(p)
    \/ ExecuteMerge(p)
    \/ ExecuteRecord(p)
    \/ ExecuteFind(p)
    \/ ExecuteMark(p)

Environment ==
    \/ \E r \in Runs :
         \/ AgentCommit(r)
         \/ \E exit \in {"exit0", "exit1"} : AgentExit(r, exit)
         \/ WindowCloses(r)
    \/ \E prj \in Projects : Operator(prj)

Next ==
    \/ \E p \in Starters : Start(p)
    \/ \E p \in Listers \cup {Sweep} : Poll(p)
    \/ \E p \in Proposers : MergeBack(p)
    \/ \E p \in Deciders : Decide(p) \/ Execute(p)
    \/ \E p \in Voices : Voice(p)
    \/ \E p \in Procs : Failure(p)
    \/ ExpirySweep
    \/ Tick
    \/ Crash
    \/ Environment

Spec == Init /\ [][Next]_vars

(* The daemon's own loops and a handler once begun go on; agents,          *)
(* operators, new requests, voice, errors and crashes owe nothing.         *)
Fairness ==
    /\ WF_vars(Tick)
    /\ WF_vars(ExpirySweep)
    /\ WF_vars(PollList(Sweep))
    /\ \A r \in Runs : WF_vars(PollLook(Sweep, r))
    /\ WF_vars(PollSettle(Sweep))
    /\ \A p \in Conns :
         /\ WF_vars(ExecuteBegin(p)) /\ WF_vars(ExecuteMerge(p))
         /\ WF_vars(ExecuteRecord(p)) /\ WF_vars(ExecuteFind(p))
         /\ WF_vars(ExecuteMark(p))

FairSpec == Spec /\ Fairness

-----------------------------------------------------------------------------
(* Safety                                                                  *)

ExecutePcs == {"begin", "merge", "record", "find", "mark"}

\* Process p is past the decision of approval a and not yet done with it.
Executing(p, a) ==
    /\ local[p].pc \in ExecutePcs
    /\ local[p].appr = a

(* A proposal is decided once: whoever is second, another connection, the  *)
(* voice loop or the expiry sweep, changes nothing.                        *)
DecisionIsFinal ==
    [][\A a \in Approvals :
         Decided(a) \/ approval[a].status = "expired"
           => approval'[a].status = approval[a].status]_vars

(* At most one handler executes an approval, however many connections      *)
(* decided it at the same time.                                            *)
OneExecutor ==
    \A p, q \in Procs, a \in Approvals :
      Executing(p, a) /\ Executing(q, a) => p = q

(* The live repository is merged into at most once per approval, and only  *)
(* for one that is approved: never for a denied, an expired or a pending   *)
(* one ("the live repo is never touched", deny).                           *)
MergesAreApproved ==
    \A a \in Approvals :
      /\ landed[a] <= 1
      /\ landed[a] = 1 => Approved(a)

(* A recorded execution is of a merge that landed, and it began between    *)
(* the decision and the expiry, however late the decision came.            *)
ExecutionInWindow ==
    \A a \in Approvals :
      approval[a].started # Never =>
        /\ landed[a] = 1
        /\ approval[a].decidedAt <= approval[a].started
        /\ approval[a].started < approval[a].expires

(* What processes hold between steps, and branches of runs: the facts the  *)
(* proofs need beside the properties above.                                *)
Held(state) ==
    /\ state.pc = "register" => Exists(state.branch)
    /\ state.pc = "register" => state.run \in Runs
    /\ state.pc \in {"settle", "propose", "mark"} => state.run \in Rows
    /\ state.pc = "settle" => state.verdict \in {"done", "failed"}
    /\ state.pc \in {"decide"} \cup ExecutePcs => state.appr \in Approvals
    /\ state.pc = "decide" => state.verdict \in Verdicts /\ state.at <= now

HeldInv ==
    /\ \A r \in Rows : Exists(run[r].branch)
    /\ \A p \in Procs : Held(local[p])

(* An executor works on an approved row, before the merge none has landed  *)
(* and after it one has, and it took its time after the decision.          *)
ExecutorInv ==
    \A p \in Procs, a \in Approvals :
      Executing(p, a) =>
        /\ Approved(a)
        /\ approval[a].decidedAt <= now
        /\ landed[a] = IF local[p].pc \in {"begin", "merge"} THEN 0 ELSE 1
        /\ local[p].pc \in {"merge", "record"} =>
             /\ approval[a].decidedAt <= local[p].at
             /\ local[p].at < approval[a].expires

Inv ==
    /\ TypeOK
    /\ HeldInv
    /\ ExecutorInv
    /\ OneExecutor
    /\ MergesAreApproved
    /\ ExecutionInWindow

(* Every merge that landed is on record, or its handler is about to write  *)
(* it, unless that very handler was stopped after the merge, by a crash or *)
(* by an error of `git rev-parse` or of set_approval_execution: no other   *)
(* handler, sweep or poll takes a record away or makes one impossible.     *)
LandedIsRecorded ==
    \A a \in Approvals :
      landed[a] = 1 => \/ approval[a].started # Never
                       \/ \E p \in Procs : At(p, "record") /\ Executing(p, a)
                       \/ a \in cut

(* What a reviewer reads after a run is done is all its agent will have    *)
(* made: the branch of a done run gets no further commit from an agent.    *)
(* An agent that prints RATO_EXIT=0 itself is the exception, its run reads *)
(* as done while it works.                                                 *)
DoneBranchIsStable ==
    [][\A r \in Runs \ Quoters :
         run[r].status = "done"
           => tip'[run[r].branch] = tip[run[r].branch]]_vars

\* Where an approval is, in the terms of the abstract service.
Phase == [a \in Approvals |->
            IF landed[a] = 0 THEN approval[a].status ELSE "landed"]

Ledger == INSTANCE ApprovalLedger WITH phase <- Phase

(* The workbench keeps the promise of the abstract approval service.       *)
ImplementsLedger == Ledger!LedgerSpec

-----------------------------------------------------------------------------
(* Liveness, under FairSpec                                                *)

(* No proposal stays pending: somebody decides it or the sweep expires it. *)
PendingSettles == \A a \in Approvals : Pending(a) ~> ~Pending(a)

(* As many rows as a poll asks for may come before this one.               *)
Outdated(r) ==
    Cardinality({q \in Rows \ {r} : run[q].started >= run[r].started}) >= PollLimit

(* A run whose agent has exited, or whose window is gone, does not stay    *)
(* running, whatever crashes come in between, unless it is too old to be   *)
(* polled by then.                                                         *)
FinishedRunsSettle ==
    \A r \in Runs :
      (Running(r) /\ window[r] \in {"exit0", "exit1", "gone"})
        ~> (~Running(r) \/ Outdated(r))
=============================================================================
