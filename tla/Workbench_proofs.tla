-------------------------- MODULE Workbench_proofs --------------------------
(***************************************************************************)
(* Proofs about Workbench, for any number of projects, runs, approvals,    *)
(* connections and voice loops.  Inv is inductive; OneExecutor,            *)
(* MergesAreApproved and ExecutionInWindow are conjuncts of it.            *)
(***************************************************************************)
EXTENDS Workbench, TLAPS

(* What the assumptions say, in the form the proofs use.                   *)
LEMMA SomeBranchType == SomeBranch \in Branches
<1>1. PICK p \in Projects, t \in Slugs : TRUE
  BY IdsAssumption
<1>2. <<p, t>> \in Branches
  BY DEF Branches
<1> QED
  BY <1>2 DEF SomeBranch

LEMMA IdleType == Idle \in Local
  BY SomeBranchType DEF Idle, Local, RunStatuses, Verdicts

LEMMA AbsentRowType == AbsentRow \in Row
  BY SomeBranchType DEF AbsentRow, Row, Statuses, Verdicts, Never

LEMMA InitInv == Init => Inv
<1> SUFFICES ASSUME Init PROVE Inv
  OBVIOUS
<1> USE SomeBranchType, IdleType, AbsentRowType, MaxCommitsAssumption, WorkbenchAssumption
<1>1. TypeOK
  BY DEF TypeOK, Init, ApprovalTableInit, ApprovalTableTypeOK, RunTableInit,
         RunTableTypeOK, RunStatuses, WorktreesInit, WorktreesTypeOK, Windows
<1>2. HeldInv
  BY DEF HeldInv, Held, Init, RunTableInit, Rows, Idle, ExecutePcs
<1>3. ExecutorInv /\ OneExecutor
  BY DEF ExecutorInv, OneExecutor, Executing, ExecutePcs, Init, Idle
<1>4. MergesAreApproved
  BY DEF MergesAreApproved, Init
<1>5. ExecutionInWindow
  BY DEF ExecutionInWindow, Init, ApprovalTableInit, AbsentRow
<1> QED
  BY <1>1, <1>2, <1>3, <1>4, <1>5 DEF Inv

-----------------------------------------------------------------------------
(* Steps that stay clear of approvals and merges                           *)

LEMMA NowType == Inv => now \in Nat
BY WorkbenchAssumption DEF Inv, TypeOK

LEMMA GotoLocal ==
  ASSUME TypeOK, NEW p \in Procs, NEW state \in Local, Goto(p, state)
  PROVE  /\ local' \in [Procs -> Local]
         /\ local'[p] = state
         /\ \A q \in Procs : q # p => local'[q] = local[q]
BY DEF TypeOK, Goto

(* A step that touches neither the table of approvals nor the live         *)
(* repository, and takes no process into an execution, keeps the           *)
(* invariants about merges.                                                *)
LEMMA QuietStep ==
  ASSUME Inv, UNCHANGED <<approval, landed>>, now' \in Nat, now <= now',
         \A p \in Procs : \/ local'[p] = local[p]
                          \/ local'[p].pc \notin ExecutePcs
  PROVE  /\ ExecutorInv' /\ OneExecutor'
         /\ MergesAreApproved' /\ ExecutionInWindow'
<1> USE DEF Inv
<1>1. \A p \in Procs, a \in Approvals :
        Executing(p, a)' => Executing(p, a) /\ local'[p] = local[p]
  BY DEF Executing
<1>2. \A a \in Approvals : approval[a].decidedAt \in Int
  BY DEF TypeOK, ApprovalTableTypeOK, Row, Never
<1>3. now \in Nat
  BY NowType
<1>4. ExecutorInv'
  <2> SUFFICES ASSUME NEW p \in Procs, NEW a \in Approvals, Executing(p, a)'
               PROVE  (/\ Approved(a)
                       /\ approval[a].decidedAt <= now
                       /\ landed[a] = IF local[p].pc \in {"begin", "merge"} THEN 0 ELSE 1
                       /\ local[p].pc \in {"merge", "record"} =>
                            /\ approval[a].decidedAt <= local[p].at
                            /\ local[p].at < approval[a].expires)'
    BY DEF ExecutorInv
  <2>1. Executing(p, a) /\ local'[p] = local[p]
    BY <1>1
  <2> QED
    BY <2>1, <1>2, <1>3 DEF ExecutorInv, Approved
<1>5. OneExecutor'
  BY <1>1 DEF OneExecutor
<1>6. MergesAreApproved' /\ ExecutionInWindow'
  BY DEF MergesAreApproved, ExecutionInWindow, Approved
<1> QED
  BY <1>4, <1>5, <1>6

(* What a process holds stays good while branches only come into being and *)
(* the clock does not go back.                                             *)
LEMMA HeldStep ==
  ASSUME Inv, now' \in Nat, now <= now',
         \A b \in Branches : Exists(b) => Exists(b)', Rows \subseteq Rows',
         \A r \in Rows' : \/ r \in Rows /\ run'[r].branch = run[r].branch
                          \/ Exists(run[r].branch)',
         \A p \in Procs : \/ local'[p] = local[p]
                          \/ Held(local[p])'
  PROVE  HeldInv'
<1> USE DEF Inv
<1>1. ASSUME NEW r \in Rows' PROVE Exists(run[r].branch)'
  <2>1. CASE r \in Rows /\ run'[r].branch = run[r].branch
    BY <2>1 DEF HeldInv, TypeOK, RunTableTypeOK, Rows
  <2> QED
    BY <1>1, <2>1
<1>2. ASSUME NEW p \in Procs PROVE Held(local[p])'
  <2>1. CASE local'[p] = local[p]
    <3>1. Held(local[p]) /\ local[p].branch \in Branches /\ local[p].at \in Nat
      BY DEF HeldInv, TypeOK, Local
    <3>2. now \in Nat
      BY NowType
    <3> QED
      BY <2>1, <3>1, <3>2 DEF Held, ExecutePcs
  <2> QED
    BY <1>2, <2>1
<1> QED
  BY <1>1, <1>2 DEF HeldInv

(* Both lemmas for a step of process p that leaves the clock alone.        *)
LEMMA ProcessStep ==
  ASSUME Inv, TypeOK', NEW p \in Procs, UNCHANGED <<approval, landed, now>>,
         \A q \in Procs : q # p => local'[q] = local[q],
         \/ local'[p] = local[p]
         \/ local'[p].pc \notin ExecutePcs /\ Held(local[p])',
         \A b \in Branches : Exists(b) => Exists(b)', Rows \subseteq Rows',
         \A r \in Rows' : \/ r \in Rows /\ run'[r].branch = run[r].branch
                          \/ Exists(run[r].branch)'
  PROVE  Inv'
<1>1. now' \in Nat /\ now <= now'
  BY NowType
<1>2. HeldInv'
  BY <1>1, HeldStep
<1>3. ExecutorInv' /\ OneExecutor' /\ MergesAreApproved' /\ ExecutionInWindow'
  BY <1>1, QuietStep
<1> QED
  BY <1>2, <1>3 DEF Inv

-----------------------------------------------------------------------------
(* Starting and polling runs                                               *)

LEMMA StartStep == ASSUME Inv, NEW p \in Starters, Start(p) PROVE Inv'
<1>0. p \in Procs /\ now \in Nat
  BY NowType, WorkbenchAssumption DEF Procs
<1>1. ASSUME NEW r \in Runs, NEW b \in Branches, StartCreate(p, r, b) PROVE Inv'
  <2>0. PICK next : next = [Idle EXCEPT !.pc = "register", !.run = r, !.branch = b, !.at = now]
    OBVIOUS
  <2>1. next \in Local /\ next.pc = "register" /\ next.run = r /\ next.branch = b
    BY <1>0, <2>0, IdleType DEF Local, Idle
  <2>2. /\ local' \in [Procs -> Local]
        /\ local'[p] \in {local[p], next}
        /\ \A q \in Procs : q # p => local'[q] = local[q]
    BY <1>1, <2>0, <2>1, <1>0, GotoLocal DEF Inv, TypeOK, StartCreate
  <2>3. TypeOK'
    BY <1>1, <2>2, MaxCommitsAssumption
    DEF Inv, TypeOK, StartCreate, ApprovalTableTypeOK, RunTableTypeOK,
        WorktreesTypeOK, CreateWorktree, clockVars, failureVars, Windows
  <2>4. \A c \in Branches : Exists(c)' <=> Exists(c) \/ c = b
    BY <1>1, MaxCommitsAssumption
    DEF StartCreate, CreateWorktree, Exists, NoBranch, Inv, TypeOK, WorktreesTypeOK
  <2>5. Held(next)'
    BY <2>1, <2>4 DEF Held, ExecutePcs
  <2> QED
    BY <1>0, <1>1, <2>1, <2>2, <2>3, <2>4, <2>5, ProcessStep
    DEF StartCreate, clockVars, failureVars, ExecutePcs, Rows
<1>2. ASSUME StartInsert(p) PROVE Inv'
  <2> DEFINE r == local[p].run
             next == [local[p] EXCEPT !.pc = "send"]
  <2>1. /\ r \in Runs /\ local[p].branch \in Branches /\ local[p].at \in Nat
        /\ Exists(local[p].branch)
    BY <1>0, <1>2 DEF StartInsert, Inv, HeldInv, Held, At, TypeOK, Local
  <2>2. next \in Local /\ next.pc = "send"
    BY <1>0 DEF Local, Inv, TypeOK
  <2>3. /\ local' \in [Procs -> Local]
        /\ local'[p] = next
        /\ \A q \in Procs : q # p => local'[q] = local[q]
    BY <1>2, <1>0, <2>2 DEF StartInsert, Continue, Inv, TypeOK
  <2>4. TypeOK'
    BY <1>2, <2>1, <2>3
    DEF Inv, TypeOK, StartInsert, InsertAgentRun, ApprovalTableTypeOK, RunTableTypeOK,
        RunStatuses, WorktreesTypeOK, worktreeVars, clockVars, failureVars
  <2>5. \A s \in Rows' : \/ s \in Rows /\ run'[s].branch = run[s].branch
                         \/ Exists(run[s].branch)'
    BY <1>2, <2>1 DEF StartInsert, InsertAgentRun, Rows, Exists, worktreeVars,
                      Inv, TypeOK, RunTableTypeOK
  <2>6. /\ \A b \in Branches : Exists(b) => Exists(b)'
        /\ Rows \subseteq Rows'
    BY <1>2, <2>1 DEF StartInsert, worktreeVars, Exists, InsertAgentRun, Rows,
                      Inv, TypeOK, RunTableTypeOK
  <2> QED
    BY <1>0, <1>2, <2>2, <2>3, <2>4, <2>5, <2>6, ProcessStep
    DEF StartInsert, clockVars, failureVars, ExecutePcs, Held
<1>3. ASSUME StartSend(p) PROVE Inv'
  <2>1. /\ local' \in [Procs -> Local]
        /\ local'[p] = Idle
        /\ \A q \in Procs : q # p => local'[q] = local[q]
    BY <1>3, <1>0, IdleType, GotoLocal DEF StartSend, Finish, Inv
  <2>2. TypeOK'
    BY <1>3, <2>1
    DEF Inv, TypeOK, StartSend, ApprovalTableTypeOK, RunTableTypeOK, Windows,
        WorktreesTypeOK, worktreeVars, clockVars, failureVars
  <2> QED
    BY <1>0, <1>3, <2>1, <2>2, ProcessStep
    DEF StartSend, clockVars, failureVars, ExecutePcs, Held, Idle, Rows, Exists, worktreeVars
<1> QED
  BY <1>1, <1>2, <1>3 DEF Start

LEMMA PollStep == ASSUME Inv, NEW p \in Listers \cup {Sweep}, Poll(p) PROVE Inv'
<1>0. p \in Procs
  BY WorkbenchAssumption DEF Procs
<1>1. ASSUME NEW next \in Local, Goto(p, next), next.pc \notin ExecutePcs,
             Held(next)', UNCHANGED <<approval, worktreeVars, window, landed, clockVars>>,
             run' \in [Runs -> [status : RunStatuses, branch : Branches, started : Nat]],
             Rows' = Rows, \A r \in Rows : run'[r].branch = run[r].branch
      PROVE  Inv'
  <2>1. /\ local' \in [Procs -> Local]
        /\ local'[p] = next
        /\ \A q \in Procs : q # p => local'[q] = local[q]
    BY <1>0, <1>1, GotoLocal DEF Inv
  <2>2. TypeOK'
    BY <1>1, <2>1
    DEF Inv, TypeOK, ApprovalTableTypeOK, RunTableTypeOK, WorktreesTypeOK,
        worktreeVars, clockVars, failureVars
  <2> QED
    BY <1>0, <1>1, <2>1, <2>2, ProcessStep DEF clockVars, failureVars, Exists, worktreeVars
<1>2. \A r \in Runs, S \in SUBSET Runs :
        LET rest == S \ {r}
            next == IF rest = {} THEN Idle ELSE [Idle EXCEPT !.pc = "poll", !.todo = rest]
        IN  next \in Local /\ next.pc \in {"idle", "poll"}
  BY IdleType DEF Local, Idle
<1>3. \A state : state.pc \in {"idle", "poll"} => state.pc \notin ExecutePcs /\ Held(state)'
  BY DEF Held, ExecutePcs
<1>4. run \in [Runs -> [status : RunStatuses, branch : Branches, started : Nat]]
  BY DEF Inv, TypeOK, RunTableTypeOK
<1>5. local[p] \in Local
  BY <1>0 DEF Inv, TypeOK
<1>6. ASSUME PollList(p) PROVE Inv'
  <2>1. PICK S \in SUBSET Rows : Goto(p, [Idle EXCEPT !.pc = "poll", !.todo = {r \in S : Running(r)}])
    BY <1>6 DEF PollList
  <2>2. PICK next : next = [Idle EXCEPT !.pc = "poll", !.todo = {r \in S : Running(r)}]
    OBVIOUS
  <2>3. next \in Local /\ next.pc = "poll"
    BY <2>2, IdleType DEF Local, Idle, Rows
  <2>4. Goto(p, next)
    BY <2>1, <2>2
  <2>5. UNCHANGED <<approval, run, worktreeVars, window, landed, clockVars>>
    BY <1>6 DEF PollList
  <2> QED
    BY <1>1, <1>3, <1>4, <2>3, <2>4, <2>5 DEF Rows
<1>7. ASSUME NEW r \in Runs, PollLook(p, r) PROVE Inv'
  <2>1. CASE NextPoll(p, r)
    <3> DEFINE rest == local[p].todo \ {r}
    <3>1. PICK next : next = IF rest = {} THEN Idle ELSE [Idle EXCEPT !.pc = "poll", !.todo = rest]
      OBVIOUS
    <3>2. next \in Local /\ next.pc \in {"idle", "poll"} /\ Goto(p, next)
      BY <1>2, <1>5, <2>1, <3>1 DEF NextPoll, Local
    <3> QED
      BY <1>1, <1>3, <1>4, <1>7, <3>2 DEF PollLook, Rows
  <2>2. ASSUME NEW reading \in Readings(r), reading # "running", Running(r),
               local' = [local EXCEPT ![p].pc = "settle", ![p].run = r, ![p].verdict = reading]
        PROVE  Inv'
    <3>1. PICK next : next = [local[p] EXCEPT !.pc = "settle", !.run = r, !.verdict = reading]
      OBVIOUS
    <3>2. reading \in {"done", "failed"}
      BY <2>2 DEF Readings, Quoted
    <3>3. /\ next \in Local
          /\ next.pc = "settle" /\ next.run = r /\ next.verdict = reading
      BY <1>5, <3>1, <3>2 DEF Local, RunStatuses
    <3>4. Goto(p, next)
      BY <1>0, <2>2, <3>1 DEF Goto, Inv, TypeOK
    <3>5. Held(next)' /\ next.pc \notin ExecutePcs
      BY <1>7, <2>2, <3>2, <3>3 DEF Held, ExecutePcs, PollLook, Rows, Running
    <3> QED
      BY <1>1, <1>4, <1>7, <3>3, <3>4, <3>5 DEF PollLook, Rows
  <2> QED
    BY <1>7, <2>1, <2>2 DEF PollLook
<1>8. ASSUME PollSettle(p) PROVE Inv'
  <2>1. /\ local[p].run \in Rows /\ local[p].verdict \in {"done", "failed"}
        /\ local[p].todo \in SUBSET Runs
    BY <1>0, <1>5, <1>8 DEF PollSettle, At, Inv, HeldInv, Held, Local
  <2>2. /\ run' \in [Runs -> [status : RunStatuses, branch : Branches, started : Nat]]
        /\ Rows' = Rows /\ \A r \in Rows : run'[r].branch = run[r].branch
    BY <1>4, <1>8, <2>1 DEF PollSettle, UpdateAgentRunStatus, Rows, RunStatuses
  <2> DEFINE rest == local[p].todo \ {local[p].run}
  <2>3. PICK next : next = IF rest = {} THEN Idle ELSE [Idle EXCEPT !.pc = "poll", !.todo = rest]
    OBVIOUS
  <2>4. next \in Local /\ next.pc \in {"idle", "poll"} /\ Goto(p, next)
    BY <1>2, <1>8, <2>1, <2>3 DEF PollSettle, NextPoll, Rows
  <2> QED
    BY <1>1, <1>3, <1>8, <2>2, <2>4 DEF PollSettle
<1> QED
  BY <1>6, <1>7, <1>8 DEF Poll

-----------------------------------------------------------------------------
(* Proposing, deciding and expiring                                        *)

(* A row that is not approved has nothing to do with a merge yet, so its   *)
(* status may change; and the process that approves it is its only         *)
(* executor.                                                               *)
LEMMA DecisionStep ==
  ASSUME Inv, NEW p \in Procs, UNCHANGED <<landed, now>>,
         \A q \in Procs : q # p => local'[q] = local[q],
         \A a \in Approvals : \/ approval'[a] = approval[a]
                              \/ ~Approved(a) /\ approval'[a].started = approval[a].started,
         \/ local'[p] = local[p]
         \/ local'[p].pc \notin ExecutePcs
         \/ /\ local'[p].pc = "begin"
            /\ ~Approved(local'[p].appr)
            /\ approval'[local'[p].appr].status = "approved"
            /\ approval'[local'[p].appr].decidedAt <= now
  PROVE  /\ ExecutorInv' /\ OneExecutor'
         /\ MergesAreApproved' /\ ExecutionInWindow'
<1> USE DEF Inv
<1>1. \A a \in Approvals : landed[a] \in Nat /\ approval[a].started \in Nat \cup {Never}
  BY DEF TypeOK, ApprovalTableTypeOK, Row
<1>2. \A a \in Approvals : ~Approved(a) => landed[a] = 0 /\ approval[a].started = Never
  BY <1>1 DEF MergesAreApproved, ExecutionInWindow
<1>3. \A q \in Procs, a \in Approvals :
        Executing(q, a)' =>
          \/ Executing(q, a) /\ local'[q] = local[q] /\ approval'[a] = approval[a]
          \/ /\ q = p /\ local'[q].pc = "begin" /\ ~Approved(a)
             /\ approval'[a].status = "approved" /\ approval'[a].decidedAt <= now
  BY DEF Executing, ExecutorInv
<1>4. ExecutorInv'
  <2> SUFFICES ASSUME NEW q \in Procs, NEW a \in Approvals, Executing(q, a)'
               PROVE  (/\ Approved(a)
                       /\ approval[a].decidedAt <= now
                       /\ landed[a] = IF local[q].pc \in {"begin", "merge"} THEN 0 ELSE 1
                       /\ local[q].pc \in {"merge", "record"} =>
                            /\ approval[a].decidedAt <= local[q].at
                            /\ local[q].at < approval[a].expires)'
    BY DEF ExecutorInv
  <2>1. CASE Executing(q, a) /\ local'[q] = local[q] /\ approval'[a] = approval[a]
    BY <2>1 DEF ExecutorInv, Approved
  <2>2. CASE /\ q = p /\ local'[q].pc = "begin" /\ ~Approved(a)
             /\ approval'[a].status = "approved" /\ approval'[a].decidedAt <= now
    BY <1>2, <2>2 DEF Approved
  <2> QED
    BY <1>3, <2>1, <2>2
<1>5. OneExecutor'
  BY <1>3 DEF OneExecutor, ExecutorInv
<1>6. MergesAreApproved'
  BY <1>1, <1>2 DEF MergesAreApproved, Approved
<1>7. ExecutionInWindow'
  BY <1>2 DEF ExecutionInWindow
<1> QED
  BY <1>4, <1>5, <1>6, <1>7

LEMMA MergeBackStep == ASSUME Inv, NEW p \in Proposers, MergeBack(p) PROVE Inv'
<1>0. p \in Procs /\ now \in Nat
  BY NowType, WorkbenchAssumption DEF Procs
<1>1. ASSUME NEW r \in Runs, MergeBackDiff(p, r) PROVE Inv'
  <2>1. PICK next : next = [Idle EXCEPT !.pc = "propose", !.run = r, !.at = now,
                                        !.shown = tip[run[r].branch]]
    OBVIOUS
  <2>2. r \in Rows /\ Goto(p, next) /\ UNCHANGED <<approval, run, worktreeVars, window, landed, clockVars>>
    BY <1>1, <2>1 DEF MergeBackDiff
  <2>3. tip[run[r].branch] \in Nat
    BY <2>2, MaxCommitsAssumption
    DEF Inv, HeldInv, Exists, NoBranch, TypeOK, RunTableTypeOK, WorktreesTypeOK
  <2>4. next \in Local /\ next.pc = "propose" /\ next.run = r
    BY <1>0, <2>1, <2>3, IdleType DEF Local, Idle
  <2>5. /\ local' \in [Procs -> Local]
        /\ local'[p] = next
        /\ \A q \in Procs : q # p => local'[q] = local[q]
    BY <1>0, <2>2, <2>4, GotoLocal DEF Inv
  <2>6. TypeOK'
    BY <2>2, <2>5
    DEF Inv, TypeOK, ApprovalTableTypeOK, RunTableTypeOK, WorktreesTypeOK,
        worktreeVars, clockVars, failureVars
  <2>7. Held(local[p])' /\ Rows' = Rows
    BY <2>2, <2>4, <2>5 DEF Held, ExecutePcs, Rows
  <2> QED
    BY <1>0, <2>2, <2>4, <2>5, <2>6, <2>7, ProcessStep
    DEF ExecutePcs, Exists, worktreeVars, clockVars, failureVars
<1>2. ASSUME NEW a \in Approvals, MergeBackInsert(p, a) PROVE Inv'
  <2>1. /\ local' \in [Procs -> Local]
        /\ local'[p] = Idle
        /\ \A q \in Procs : q # p => local'[q] = local[q]
    BY <1>2, <1>0, IdleType, GotoLocal DEF MergeBackInsert, Finish, Inv
  <2> DEFINE r == local[p].run
  <2>2. /\ r \in Runs /\ run[r].branch \in Branches /\ local[p].shown \in Nat
        /\ local[p].at + ApprovalExpiry \in Nat
    BY <1>0, <1>2, WorkbenchAssumption
    DEF MergeBackInsert, At, Inv, HeldInv, Held, TypeOK, Local, RunTableTypeOK, Rows
  <2>3. PICK row : row = [AbsentRow EXCEPT !.status  = "pending",
                                           !.branch  = run[r].branch,
                                           !.cwd     = r,
                                           !.shown   = local[p].shown,
                                           !.expires = local[p].at + ApprovalExpiry]
    OBVIOUS
  <2>4. row \in Row /\ row.started = Never
    BY <2>2, <2>3, AbsentRowType DEF AbsentRow, Row, Statuses, Verdicts
  <2>5. approval[a].status = "absent" /\ approval' = [approval EXCEPT ![a] = row]
    BY <1>2, <2>3 DEF MergeBackInsert, InsertApproval
  <2>6. approval[a].started = Never
    BY <2>5 DEF Inv, ExecutionInWindow, MergesAreApproved, Approved
  <2>7. TypeOK'
    BY <1>2, <2>1, <2>4, <2>5
    DEF MergeBackInsert, Inv, TypeOK, ApprovalTableTypeOK, RunTableTypeOK, WorktreesTypeOK,
        worktreeVars, clockVars, failureVars
  <2>8. HeldInv'
    BY <1>2, <1>0, <2>1, HeldStep
    DEF MergeBackInsert, Held, Idle, ExecutePcs, Exists, Rows, worktreeVars, clockVars, failureVars
  <2>9. \A c \in Approvals : \/ approval'[c] = approval[c]
                             \/ ~Approved(c) /\ approval'[c].started = approval[c].started
    BY <2>4, <2>5, <2>6 DEF Inv, TypeOK, ApprovalTableTypeOK, Approved
  <2>10. ExecutorInv' /\ OneExecutor' /\ MergesAreApproved' /\ ExecutionInWindow'
    BY <1>0, <1>2, <2>1, <2>9, DecisionStep DEF MergeBackInsert, clockVars, failureVars, Idle, ExecutePcs
  <2> QED
    BY <2>7, <2>8, <2>10 DEF Inv
<1> QED
  BY <1>1, <1>2 DEF MergeBack

(* Fetching an approval to decide it, on a connection or by voice.         *)
LEMMA FetchStep ==
  ASSUME Inv, NEW p \in Procs, NEW a \in Approvals, NEW verdict \in Verdicts,
         Goto(p, [Idle EXCEPT !.pc = "decide", !.appr = a, !.verdict = verdict, !.at = now]),
         UNCHANGED <<approval, run, worktreeVars, window, landed, clockVars>>
  PROVE  Inv'
<1>1. PICK next : next = [Idle EXCEPT !.pc = "decide", !.appr = a,
                                      !.verdict = verdict, !.at = now]
  OBVIOUS
<1>2. /\ next \in Local /\ next.pc = "decide" /\ next.appr = a
      /\ next.verdict = verdict /\ next.at = now
  BY <1>1, NowType, IdleType DEF Local, Idle
<1>3. /\ local' \in [Procs -> Local]
      /\ local'[p] = next
      /\ \A q \in Procs : q # p => local'[q] = local[q]
  BY <1>1, <1>2, GotoLocal DEF Inv
<1>4. TypeOK'
  BY <1>3
  DEF Inv, TypeOK, ApprovalTableTypeOK, RunTableTypeOK, WorktreesTypeOK,
      worktreeVars, clockVars, failureVars
<1>5. Held(local[p])' /\ Rows' = Rows
  BY <1>2, <1>3, NowType DEF Held, ExecutePcs, Rows, clockVars, failureVars
<1> QED
  BY <1>2, <1>3, <1>4, <1>5, ProcessStep DEF ExecutePcs, Exists, worktreeVars, clockVars, failureVars

(* Deciding, or being refused: a pending row at most gets a verdict, and   *)
(* a process that goes on to execute has just approved the row.            *)
LEMMA DecidedStep ==
  ASSUME Inv, NEW p \in Procs, At(p, "decide"), NEW next,
         next \in {[local[p] EXCEPT !.pc = "begin"], Idle}, Goto(p, next),
         UNCHANGED <<run, worktreeVars, now, window, landed>>,
         crashes' \in 0 .. MaxCrashes, faults' \in 0 .. MaxFaults, cut' \in SUBSET Approvals,
         NEW via \in {"cli", "voice"},
         \/ UNCHANGED approval /\ next = Idle
         \/ /\ DecideApproval(local[p].appr, local[p].verdict, local[p].at, via)
            /\ next # Idle => local[p].verdict = "approved"
  PROVE  Inv'
<1> DEFINE a == local[p].appr
<1>1. /\ local[p] \in Local /\ local[p].pc = "decide" /\ a \in Approvals
      /\ local[p].verdict \in Verdicts /\ local[p].at \in Nat /\ local[p].at <= now
  BY DEF At, Inv, HeldInv, Held, TypeOK, Local
<1>2. /\ next \in Local
      /\ \/ next.pc = "begin" /\ next.appr = a
         \/ next = Idle
  BY <1>1, IdleType DEF Local
<1>3. /\ local' \in [Procs -> Local]
      /\ local'[p] = next
      /\ \A q \in Procs : q # p => local'[q] = local[q]
  BY <1>2, GotoLocal DEF Inv
<1>4. approval \in [Approvals -> Row]
  BY DEF Inv, TypeOK, ApprovalTableTypeOK
<1>5. /\ approval' \in [Approvals -> Row]
      /\ \A c \in Approvals : \/ approval'[c] = approval[c]
                              \/ ~Approved(c) /\ approval'[c].started = approval[c].started
      /\ next # Idle => /\ ~Approved(a)
                        /\ approval'[a].status = "approved"
                        /\ approval'[a].decidedAt <= now
  <2>1. CASE UNCHANGED approval /\ next = Idle
    BY <1>4, <2>1
  <2>2. CASE /\ DecideApproval(a, local[p].verdict, local[p].at, via)
             /\ next # Idle => local[p].verdict = "approved"
    <3>1. /\ ~Approved(a)
          /\ approval'[a].status = local[p].verdict
          /\ approval'[a].decidedAt = local[p].at
          /\ approval'[a].started = approval[a].started
          /\ \A c \in Approvals : c # a => approval'[c] = approval[c]
      BY <1>1, <1>4, <2>2 DEF DecideApproval, Row, Pending, Approved
    <3>2. approval' \in [Approvals -> Row]
      BY <1>1, <1>4, <2>2, SMTT(30) DEF DecideApproval, Row, Statuses, Verdicts
    <3> QED
      BY <1>1, <2>2, <3>1, <3>2, SMTT(30)
  <2> QED
    BY <2>1, <2>2
<1>6. TypeOK'
  BY <1>3, <1>5
  DEF Inv, TypeOK, ApprovalTableTypeOK, RunTableTypeOK, WorktreesTypeOK,
      worktreeVars, clockVars, failureVars
<1>7. HeldInv'
  BY <1>1, <1>2, <1>3, NowType, HeldStep
  DEF Held, Idle, ExecutePcs, Exists, Rows, worktreeVars, clockVars, failureVars
<1>8. ExecutorInv' /\ OneExecutor' /\ MergesAreApproved' /\ ExecutionInWindow'
  BY <1>2, <1>3, <1>5, DecisionStep DEF clockVars, failureVars, Idle, ExecutePcs
<1> QED
  BY <1>6, <1>7, <1>8 DEF Inv

LEMMA DecideStep == ASSUME Inv, NEW p \in Deciders, Decide(p) PROVE Inv'
<1>0. p \in Procs
  BY WorkbenchAssumption DEF Procs
<1>1. ASSUME NEW a \in Approvals, NEW verdict \in Verdicts, DecideFetch(p, a, verdict)
      PROVE  Inv'
  BY <1>0, <1>1, FetchStep DEF DecideFetch
<1>2. ASSUME DecideStore(p) PROVE Inv'
  <2> DEFINE begin == [local[p] EXCEPT !.pc = "begin"]
  <2>1. Continue(p, "begin") => Goto(p, begin)
    BY <1>0 DEF Continue, Goto, Inv, TypeOK
  <2>2. /\ At(p, "decide") /\ UNCHANGED <<run, worktreeVars, window, landed, clockVars>>
        /\ \/ UNCHANGED approval /\ Goto(p, Idle)
           \/ /\ DecideApproval(local[p].appr, local[p].verdict, local[p].at, "cli")
              /\ \/ Goto(p, Idle)
                 \/ local[p].verdict = "approved" /\ Goto(p, begin)
    BY <1>2, <2>1 DEF DecideStore, DecideRefused, Finish
  <2>3. /\ UNCHANGED now /\ crashes' \in 0 .. MaxCrashes
        /\ faults' \in 0 .. MaxFaults /\ cut' \in SUBSET Approvals
    BY <2>2 DEF clockVars, failureVars, Inv, TypeOK
  <2> QED
    BY <1>0, <2>2, <2>3, DecidedStep
<1> QED
  BY <1>1, <1>2 DEF Decide

LEMMA VoiceStep == ASSUME Inv, NEW p \in Voices, Voice(p) PROVE Inv'
<1>0. p \in Procs
  BY DEF Procs
<1>1. ASSUME NEW a \in Approvals, NEW verdict \in Verdicts, VoiceFetch(p, a, verdict)
      PROVE  Inv'
  BY <1>0, <1>1, FetchStep DEF VoiceFetch
<1>2. ASSUME VoiceStore(p) PROVE Inv'
  <2>1. /\ UNCHANGED now /\ crashes' \in 0 .. MaxCrashes
        /\ faults' \in 0 .. MaxFaults /\ cut' \in SUBSET Approvals
    BY <1>2 DEF VoiceStore, clockVars, failureVars, Inv, TypeOK
  <2> QED
    BY <1>0, <1>2, <2>1, DecidedStep DEF VoiceStore, DecideRefused, Finish
<1> QED
  BY <1>1, <1>2 DEF Voice

LEMMA ExpiryStep == Inv /\ ExpirySweep => Inv'
<1> SUFFICES ASSUME Inv, ExpirySweep PROVE Inv'
  OBVIOUS
<1>1. /\ approval' \in [Approvals -> Row]
      /\ \A a \in Approvals : \/ approval'[a] = approval[a]
                              \/ ~Approved(a) /\ approval'[a].started = approval[a].started
  BY DEF ExpirySweep, ExpireApprovals, Pending, Approved, Inv, TypeOK,
         ApprovalTableTypeOK, Row, Statuses, Verdicts
<1>2. UNCHANGED <<run, worktreeVars, window, local, landed, clockVars>>
  BY DEF ExpirySweep
<1>3. TypeOK'
  BY <1>1, <1>2
  DEF Inv, TypeOK, ApprovalTableTypeOK, RunTableTypeOK, WorktreesTypeOK,
      worktreeVars, clockVars, failureVars
<1>4. HeldInv'
  BY <1>2, NowType, HeldStep DEF Exists, Rows, worktreeVars, clockVars, failureVars
<1>5. ExecutorInv' /\ OneExecutor' /\ MergesAreApproved' /\ ExecutionInWindow'
  <2>1. Sweep \in Procs
    BY DEF Procs
  <2> QED
    BY <1>1, <1>2, <2>1, DecisionStep DEF clockVars, failureVars
<1> QED
  BY <1>3, <1>4, <1>5 DEF Inv

-----------------------------------------------------------------------------
(* Executing an approved merge                                             *)

(* A step of the only executor of approval a: it may land the merge or     *)
(* record it, and no other approval notices.                               *)
LEMMA ExecutorStep ==
  ASSUME Inv, TypeOK', NEW p \in Procs, NEW a \in Approvals,
         Executing(p, a), UNCHANGED <<now, run, tip>>,
         \A q \in Procs : q # p => local'[q] = local[q],
         \A c \in Approvals : c # a => approval'[c] = approval[c] /\ landed'[c] = landed[c],
         approval'[a] = [approval[a] EXCEPT !.started = approval'[a].started],
         landed'[a] \in {0, 1},
         approval'[a].started # Never =>
           /\ landed'[a] = 1
           /\ approval[a].decidedAt <= approval'[a].started
           /\ approval'[a].started < approval[a].expires,
         local'[p].pc \in ExecutePcs =>
           /\ local'[p].appr = a
           /\ landed'[a] = IF local'[p].pc \in {"begin", "merge"} THEN 0 ELSE 1
           /\ local'[p].pc \in {"merge", "record"} =>
                /\ approval[a].decidedAt <= local'[p].at
                /\ local'[p].at < approval[a].expires,
         local'[p].pc \in ExecutePcs \cup {"idle"},
         local'[p].pc = "mark" => local'[p].run \in Rows
  PROVE  Inv'
<1> USE DEF Inv
<1>1. Approved(a) /\ approval[a].decidedAt <= now /\ approval[a] \in Row
  BY DEF ExecutorInv, TypeOK, ApprovalTableTypeOK
<1>2. /\ approval'[a].status = approval[a].status
      /\ approval'[a].decidedAt = approval[a].decidedAt
      /\ approval'[a].expires = approval[a].expires
  BY <1>1 DEF Row
<1>3. \A q \in Procs, c \in Approvals :
        Executing(q, c)' =>
          \/ q = p /\ c = a
          \/ /\ q # p /\ c # a /\ Executing(q, c) /\ local'[q] = local[q]
             /\ approval'[c] = approval[c] /\ landed'[c] = landed[c]
  BY DEF Executing, OneExecutor
<1>4. HeldInv'
  <2>1. Held(local[p])'
    BY DEF Held, Rows, ExecutePcs
  <2> QED
    BY <2>1, NowType, HeldStep DEF Exists, Rows
<1>5. ExecutorInv'
  <2> SUFFICES ASSUME NEW q \in Procs, NEW c \in Approvals, Executing(q, c)'
               PROVE  (/\ Approved(c)
                       /\ approval[c].decidedAt <= now
                       /\ landed[c] = IF local[q].pc \in {"begin", "merge"} THEN 0 ELSE 1
                       /\ local[q].pc \in {"merge", "record"} =>
                            /\ approval[c].decidedAt <= local[q].at
                            /\ local[q].at < approval[c].expires)'
    BY DEF ExecutorInv
  <2>1. CASE q = p /\ c = a
    BY <1>1, <1>2, <2>1 DEF Executing, Approved
  <2>2. CASE /\ q # p /\ c # a /\ Executing(q, c) /\ local'[q] = local[q]
             /\ approval'[c] = approval[c] /\ landed'[c] = landed[c]
    BY <2>2 DEF ExecutorInv, Approved
  <2> QED
    BY <1>3, <2>1, <2>2
<1>6. OneExecutor'
  BY <1>3 DEF OneExecutor
<1>7. MergesAreApproved'
  BY <1>1, <1>2 DEF MergesAreApproved, Approved
<1>8. ExecutionInWindow'
  BY <1>2 DEF ExecutionInWindow
<1> QED
  BY <1>4, <1>5, <1>6, <1>7, <1>8

LEMMA ExecuteStep == ASSUME Inv, NEW p \in Deciders, Execute(p) PROVE Inv'
<1> DEFINE a == local[p].appr
<1>0. p \in Procs /\ now \in Nat /\ local[p] \in Local /\ local[p].pc \in ExecutePcs
  BY NowType, WorkbenchAssumption
  DEF Procs, Inv, TypeOK, Execute, At, ExecuteBegin, ExecuteMerge, ExecuteRecord,
      ExecuteFind, ExecuteMark, ExecutePcs
<1>1. a \in Approvals /\ Executing(p, a)
  BY <1>0 DEF Inv, HeldInv, Held, Executing
<1>2. /\ approval[a] \in Row
      /\ approval[a].decidedAt <= now
      /\ landed[a] = IF local[p].pc \in {"begin", "merge"} THEN 0 ELSE 1
      /\ local[p].pc \in {"merge", "record"} =>
           /\ approval[a].decidedAt <= local[p].at
           /\ local[p].at < approval[a].expires
      /\ approval[a] = [approval[a] EXCEPT !.started = approval[a].started]
  BY <1>0, <1>1 DEF Inv, ExecutorInv, TypeOK, ApprovalTableTypeOK, Row
<1>3. approval[a].started # Never =>
        /\ landed[a] = 1
        /\ approval[a].decidedAt <= approval[a].started
        /\ approval[a].started < approval[a].expires
  BY <1>1 DEF Inv, ExecutionInWindow
<1>4. ASSUME NEW next \in Local, local' = [local EXCEPT ![p] = next]
      PROVE  /\ local' \in [Procs -> Local] /\ local'[p] = next
             /\ \A q \in Procs : q # p => local'[q] = local[q]
  BY <1>0, <1>4 DEF Inv, TypeOK
\* The steps that only move the executor on.
<1>5. ASSUME NEW next \in Local, Goto(p, next), next.pc \in {"idle", "merge", "mark"},
             next.pc # "idle" => next.appr = a,
             next.pc = "merge" =>
               /\ local[p].pc = "begin"
               /\ approval[a].decidedAt <= next.at /\ next.at < approval[a].expires,
             next.pc = "mark" => local[p].pc = "find" /\ next.run \in Rows,
             UNCHANGED <<approval, run, worktreeVars, window, landed, clockVars>>
      PROVE  Inv'
  <2>1. /\ local' \in [Procs -> Local] /\ local'[p] = next
        /\ \A q \in Procs : q # p => local'[q] = local[q]
    BY <1>4, <1>5 DEF Goto
  <2>2. TypeOK'
    BY <1>5, <2>1
    DEF Inv, TypeOK, ApprovalTableTypeOK, RunTableTypeOK, WorktreesTypeOK,
        worktreeVars, clockVars, failureVars
  <2> QED
    BY <1>0, <1>1, <1>2, <1>3, <1>5, <2>1, <2>2, ExecutorStep
    DEF clockVars, failureVars, worktreeVars, ExecutePcs
<1>6. ASSUME ExecuteBegin(p) PROVE Inv'
  <2>1. CASE approval[a].expires > now /\ IsFastMergeable(Target(p))
    <3>1. PICK next : next = [local[p] EXCEPT !.pc = "merge", !.at = now]
      OBVIOUS
    <3>2. next \in Local /\ next.pc = "merge" /\ next.at = now /\ next.appr = a
      BY <1>0, <3>1 DEF Local
    <3>3. Goto(p, next)
      BY <1>0, <1>6, <2>1, <3>1 DEF ExecuteBegin, Goto, Inv, TypeOK
    <3>4. approval[a].expires \in Nat /\ approval[a].decidedAt <= now
      BY <1>2 DEF Row
    <3> QED
      BY <1>0, <1>5, <1>6, <2>1, <3>2, <3>3, <3>4 DEF ExecuteBegin, At
  <2>2. CASE ~(approval[a].expires > now /\ IsFastMergeable(Target(p)))
    BY <1>5, <1>6, <2>2, IdleType DEF ExecuteBegin, Finish, Idle
  <2> QED
    BY <2>1, <2>2
<1>7. ASSUME ExecuteMerge(p) PROVE Inv'
  <2>1. ASSUME MergeLands(Target(p)), landed' = [landed EXCEPT ![a] = @ + 1],
               Continue(p, "record")
        PROVE  Inv'
    <3>1. PICK next : next = [local[p] EXCEPT !.pc = "record"]
      OBVIOUS
    <3>2. next \in Local /\ next.pc = "record" /\ next.at = local[p].at /\ next.appr = a
      BY <1>0, <3>1 DEF Local
    <3>3. /\ local' \in [Procs -> Local] /\ local'[p] = next
          /\ \A q \in Procs : q # p => local'[q] = local[q]
      BY <1>0, <1>4, <2>1, <3>1, <3>2 DEF Continue, Inv, TypeOK
    <3>4. local[p].pc = "merge" /\ landed[a] = 0
      BY <1>2, <1>7 DEF ExecuteMerge, At
    <3>5. landed' \in [Approvals -> Nat] /\ landed'[a] = 1
          /\ \A c \in Approvals : c # a => landed'[c] = landed[c]
      BY <1>1, <2>1, <3>4 DEF Inv, TypeOK
    <3>6. WorktreesTypeOK'
      <4>1. Target(p) \in Branches
        BY <1>2 DEF Target, Row
      <4> QED
        BY <2>1, <4>1, MaxCommitsAssumption
        DEF MergeLands, IsFastMergeable, Exists, Reconsider, Ahead, WorktreesTypeOK,
            Inv, TypeOK, NoBranch
    <3>7. TypeOK'
      BY <1>7, <3>3, <3>5, <3>6
      DEF ExecuteMerge, Inv, TypeOK, ApprovalTableTypeOK, RunTableTypeOK, clockVars, failureVars
    <3>8. UNCHANGED <<now, run, tip, approval>>
      BY <1>7, <2>1 DEF ExecuteMerge, MergeLands, clockVars, failureVars
    <3> QED
      BY <1>0, <1>1, <1>2, <1>3, <3>2, <3>3, <3>4, <3>5, <3>7, <3>8, ExecutorStep DEF ExecutePcs
  <2>2. ASSUME MergeStops(Target(p)) \/ MergeRefused(Target(p)), Finish(p), UNCHANGED landed
        PROVE  Inv'
    <3>1. /\ local' \in [Procs -> Local] /\ local'[p] = Idle
          /\ \A q \in Procs : q # p => local'[q] = local[q]
      BY <1>4, <2>2, IdleType DEF Finish, Goto
    <3>2. WorktreesTypeOK' /\ UNCHANGED tip
      <4>1. Project(Target(p)) \in Projects
        BY <1>2 DEF Target, Row, Branches, Project
      <4> QED
        BY <2>2, <4>1 DEF MergeStops, MergeRefused, WorktreesTypeOK, worktreeVars, Inv, TypeOK
    <3>3. TypeOK'
      BY <1>7, <2>2, <3>1, <3>2
      DEF ExecuteMerge, Inv, TypeOK, ApprovalTableTypeOK, RunTableTypeOK, clockVars, failureVars
    <3>4. UNCHANGED <<now, run, approval>>
      BY <1>7 DEF ExecuteMerge, clockVars, failureVars
    <3>5. local'[p].pc = "idle" /\ "idle" \notin ExecutePcs
      BY <3>1 DEF Idle, ExecutePcs
    <3>6. landed'[a] \in {0, 1}
      BY <1>2, <2>2
    <3> QED
      BY <1>0, <1>1, <1>2, <1>3, <2>2, <3>1, <3>2, <3>3, <3>4, <3>5, <3>6, ExecutorStep
  <2> QED
    BY <1>7, <2>1, <2>2 DEF ExecuteMerge
<1>8. ASSUME ExecuteRecord(p) PROVE Inv'
  <2>1. PICK next : next = [local[p] EXCEPT !.pc = "find"]
    OBVIOUS
  <2>2. next \in Local /\ next.pc = "find" /\ next.appr = a
    BY <1>0, <2>1 DEF Local
  <2>3. /\ local' \in [Procs -> Local] /\ local'[p] = next
        /\ \A q \in Procs : q # p => local'[q] = local[q]
    BY <1>0, <1>4, <1>8, <2>1, <2>2 DEF ExecuteRecord, Continue, Inv, TypeOK
  <2>4. /\ approval' \in [Approvals -> Row]
        /\ approval'[a] = [approval[a] EXCEPT !.started = local[p].at]
        /\ \A c \in Approvals : c # a => approval'[c] = approval[c]
    BY <1>0, <1>1, <1>2, <1>8
    DEF ExecuteRecord, SetApprovalExecution, Inv, TypeOK, ApprovalTableTypeOK, Row, Local
  <2>5. local[p].pc = "record" /\ approval'[a].started = local[p].at
    BY <1>2, <1>8, <2>4 DEF ExecuteRecord, At, Row
  <2>6. TypeOK'
    BY <1>8, <2>3, <2>4
    DEF ExecuteRecord, Inv, TypeOK, ApprovalTableTypeOK, RunTableTypeOK, WorktreesTypeOK,
        worktreeVars, clockVars, failureVars
  <2>7. UNCHANGED <<now, run, tip, landed>> /\ landed'[a] = 1
    BY <1>2, <1>8, <2>5 DEF ExecuteRecord, worktreeVars, clockVars, failureVars
  <2>8. /\ approval'[a] = [approval[a] EXCEPT !.started = approval'[a].started]
        /\ approval[a].decidedAt <= approval'[a].started
        /\ approval'[a].started < approval[a].expires
    BY <1>2, <2>4, <2>5
  <2>9. local'[p].pc = "find" /\ "find" \in ExecutePcs /\ local'[p].appr = a
    BY <2>2, <2>3 DEF ExecutePcs
  <2> QED
    BY <1>0, <1>1, <2>3, <2>4, <2>6, <2>7, <2>8, <2>9, ExecutorStep
<1>9. ASSUME ExecuteFind(p) PROVE Inv'
  <2>1. CASE Finish(p)
    BY <1>5, <1>9, <2>1, IdleType DEF ExecuteFind, Finish, Idle
  <2>2. ASSUME NEW r \in Rows, local' = [local EXCEPT ![p].pc = "mark", ![p].run = r]
        PROVE  Inv'
    <3>1. PICK next : next = [local[p] EXCEPT !.pc = "mark", !.run = r]
      OBVIOUS
    <3>2. next \in Local /\ next.pc = "mark" /\ next.run = r /\ next.appr = a
      BY <1>0, <2>2, <3>1 DEF Local, Rows
    <3>3. Goto(p, next)
      BY <1>0, <2>2, <3>1 DEF Goto, Inv, TypeOK
    <3> QED
      BY <1>5, <1>9, <2>2, <3>2, <3>3 DEF ExecuteFind, At
  <2> QED
    BY <1>9, <2>1, <2>2 DEF ExecuteFind
<1>10. ASSUME ExecuteMark(p) PROVE Inv'
  <2>1. /\ local' \in [Procs -> Local] /\ local'[p] = Idle
        /\ \A q \in Procs : q # p => local'[q] = local[q]
    BY <1>4, <1>10, IdleType DEF ExecuteMark, Finish, Goto
  <2>2. local[p].run \in Rows
    BY <1>0, <1>10 DEF ExecuteMark, At, Inv, HeldInv, Held
  <2>3. /\ run' \in [Runs -> [status : RunStatuses, branch : Branches, started : Nat]]
        /\ Rows' = Rows /\ \A r \in Rows : run'[r].branch = run[r].branch
    BY <1>10, <2>2
    DEF ExecuteMark, UpdateAgentRunStatus, Rows, RunStatuses, Inv, TypeOK, RunTableTypeOK
  <2>4. TypeOK'
    BY <1>10, <2>1, <2>3
    DEF ExecuteMark, Inv, TypeOK, ApprovalTableTypeOK, RunTableTypeOK, WorktreesTypeOK,
        worktreeVars, clockVars, failureVars
  <2>5. local'[p].pc \notin ExecutePcs /\ Held(local[p])'
    BY <2>1 DEF Held, Idle, ExecutePcs
  <2> QED
    BY <1>0, <1>10, <2>1, <2>3, <2>4, <2>5, ProcessStep
    DEF ExecuteMark, Exists, worktreeVars, clockVars, failureVars
<1> QED
  BY <1>6, <1>7, <1>8, <1>9, <1>10 DEF Execute

-----------------------------------------------------------------------------
(* Errors                                                                  *)

(* Where an error leaves the process, and what it leaves alone.            *)
LEMMA FailureKeeps ==
  ASSUME Inv, NEW p \in Procs, Failure(p)
  PROVE  /\ UNCHANGED <<now, window, run, tip>>
         /\ local' \in [Procs -> Local]
         /\ \A q \in Procs : q # p => local'[q] = local[q]
         /\ local'[p].pc = "idle" \/ local'[p].pc = "poll"
         /\ crashes' \in 0 .. MaxCrashes /\ faults' \in 0 .. MaxFaults
         /\ cut' \in SUBSET Approvals /\ cut \subseteq cut'
<1>1. /\ UNCHANGED <<now, window, crashes>>
      /\ crashes' \in 0 .. MaxCrashes /\ faults' \in 0 .. MaxFaults
  BY WorkbenchAssumption DEF Failure, Inv, TypeOK
<1>2. UNCHANGED <<run, tip>>
  BY DEF Failure, StoreFails, DecideUnread, ExecuteUnread, MergeLands, worktreeVars
<1>3. PICK next : next \in Local /\ Goto(p, next) /\ next.pc \in {"idle", "poll"}
  <2>1. CASE Finish(p)
    BY <2>1, IdleType DEF Finish, Idle
  <2>2. CASE NextPoll(p, local[p].run)
    <3>1. PICK rest : rest = local[p].todo \ {local[p].run}
      OBVIOUS
    <3>2. rest \in SUBSET Runs
      BY <3>1 DEF Inv, TypeOK, Local
    <3>3. [Idle EXCEPT !.pc = "poll", !.todo = rest] \in Local
      BY <3>2, IdleType DEF Local, Idle
    <3>4. [Idle EXCEPT !.pc = "poll", !.todo = rest].pc = "poll" /\ Idle.pc = "idle"
      BY DEF Idle
    <3> QED
      BY <2>2, <3>1, <3>3, <3>4, IdleType DEF NextPoll
  <2> QED
    BY <2>1, <2>2 DEF Failure, StoreFails, DecideUnread, ExecuteUnread
<1>4. /\ local' \in [Procs -> Local] /\ local'[p] = next
      /\ \A q \in Procs : q # p => local'[q] = local[q]
  BY <1>3, GotoLocal DEF Inv
<1>5. local[p].pc \in {"record", "merge"} => local[p].appr \in Approvals
  BY DEF Inv, HeldInv, Held, ExecutePcs
<1>6. cut' \in SUBSET Approvals /\ cut \subseteq cut'
  BY <1>5
  DEF Failure, StoreFails, DecideUnread, ExecuteUnread, Unrecorded, At, Inv, TypeOK
<1> QED
  BY <1>1, <1>2, <1>3, <1>4, <1>6

LEMMA FailureStep == ASSUME Inv, NEW p \in Procs, Failure(p) PROVE Inv'
<1> DEFINE a == local[p].appr
<1>1. /\ UNCHANGED <<now, window, run, tip>>
      /\ local' \in [Procs -> Local]
      /\ \A q \in Procs : q # p => local'[q] = local[q]
      /\ local'[p].pc = "idle" \/ local'[p].pc = "poll"
      /\ crashes' \in 0 .. MaxCrashes /\ faults' \in 0 .. MaxFaults
      /\ cut' \in SUBSET Approvals
  BY FailureKeeps
<1>2. CASE StoreFails(p)
  <2>1. TypeOK'
    BY <1>1, <1>2
    DEF StoreFails, Inv, TypeOK, ApprovalTableTypeOK, RunTableTypeOK, WorktreesTypeOK,
        worktreeVars
  <2>2. local'[p].pc \notin ExecutePcs /\ Held(local[p])'
    BY <1>1 DEF ExecutePcs, Held
  <2>3. Rows' = Rows /\ \A b \in Branches : Exists(b) => Exists(b)'
    BY <1>1 DEF Rows, Exists
  <2> QED
    BY <1>1, <1>2, <2>1, <2>2, <2>3, ProcessStep DEF StoreFails
<1>3. CASE DecideUnread(p)
  <2>1. PICK via \in {"cli", "voice"} :
          DecideApproval(local[p].appr, local[p].verdict, local[p].at, via)
    BY <1>3 DEF DecideUnread
  <2> QED
    BY <1>1, <1>3, <2>1, DecidedStep DEF DecideUnread, Finish
<1>4. CASE ExecuteUnread(p)
  <2>1. /\ local[p].pc = "merge" /\ a \in Approvals /\ Executing(p, a)
        /\ MergeLands(Target(p)) /\ landed' = [landed EXCEPT ![a] = @ + 1]
        /\ UNCHANGED approval
    BY <1>4 DEF ExecuteUnread, At, Inv, HeldInv, Held, Executing, ExecutePcs
  <2>2. /\ approval[a] \in Row /\ landed[a] = 0
        /\ approval[a] = [approval[a] EXCEPT !.started = approval[a].started]
    BY <2>1 DEF Inv, ExecutorInv, TypeOK, ApprovalTableTypeOK, Row
  <2>3. approval[a].started = Never
    BY <2>1, <2>2 DEF Inv, ExecutionInWindow
  <2>4. landed' \in [Approvals -> Nat] /\ landed'[a] = 1
        /\ \A c \in Approvals : c # a => landed'[c] = landed[c]
    BY <2>1, <2>2 DEF Inv, TypeOK
  <2>5. WorktreesTypeOK'
    <3>1. Target(p) \in Branches
      BY <2>2 DEF Target, Row
    <3> QED
      BY <2>1, <3>1, MaxCommitsAssumption
      DEF MergeLands, IsFastMergeable, Exists, Reconsider, Ahead, WorktreesTypeOK,
          Inv, TypeOK, NoBranch
  <2>6. TypeOK'
    BY <1>1, <2>1, <2>4, <2>5 DEF Inv, TypeOK, ApprovalTableTypeOK, RunTableTypeOK
  <2>7. local'[p].pc = "idle"
    BY <1>1, <1>4, IdleType, GotoLocal DEF ExecuteUnread, Finish, Idle, Inv
  <2>8. "idle" \notin ExecutePcs
    BY DEF ExecutePcs
  <2> QED
    BY <1>1, <2>1, <2>2, <2>3, <2>4, <2>6, <2>7, <2>8, ExecutorStep
<1> QED
  BY <1>2, <1>3, <1>4 DEF Failure

-----------------------------------------------------------------------------
(* The clock, crashes, agents and the operator                             *)

(* Steps during which every handler stands still or is lost.               *)
LEMMA StillStep ==
  ASSUME Inv, TypeOK', UNCHANGED <<approval, run, landed>>, now <= now',
         local' = local \/ local' = [p \in Procs |-> Idle],
         \A b \in Branches : Exists(b) => Exists(b)'
  PROVE  Inv'
<1>1. now' \in Nat
  BY WorkbenchAssumption DEF TypeOK
<1>2. \A p \in Procs : \/ local'[p] = local[p]
                       \/ local'[p].pc \notin ExecutePcs /\ Held(local[p])'
  BY DEF Held, Idle, ExecutePcs
<1>3. HeldInv'
  <2>1. Rows' = Rows /\ \A r \in Rows : run'[r].branch = run[r].branch
    BY DEF Rows
  <2> QED
    BY <1>1, <1>2, <2>1, HeldStep
<1>4. ExecutorInv' /\ OneExecutor' /\ MergesAreApproved' /\ ExecutionInWindow'
  BY <1>1, <1>2, QuietStep
<1> QED
  BY <1>3, <1>4 DEF Inv

LEMMA TickStep == Inv /\ Tick => Inv'
<1> SUFFICES ASSUME Inv, Tick PROVE Inv'
  OBVIOUS
<1>1. now \in Nat
  BY NowType
<1>2. TypeOK'
  BY <1>1, WorkbenchAssumption
  DEF Tick, failureVars, Inv, TypeOK, ApprovalTableTypeOK, RunTableTypeOK, WorktreesTypeOK, worktreeVars
<1> QED
  BY <1>1, <1>2, StillStep DEF Tick, worktreeVars, Exists

LEMMA CrashStep == Inv /\ Crash => Inv'
<1> SUFFICES ASSUME Inv, Crash PROVE Inv'
  OBVIOUS
<1>1. now \in Nat
  BY NowType
<1>2. \A p \in Procs : Unrecorded(p) \subseteq Approvals
  BY DEF Unrecorded, At, Inv, HeldInv, Held, ExecutePcs
<1>3. cut' \in SUBSET Approvals
  BY <1>2 DEF Crash, Inv, TypeOK
<1>4. TypeOK'
  BY <1>3, WorkbenchAssumption, IdleType
  DEF Crash, Inv, TypeOK, ApprovalTableTypeOK, RunTableTypeOK, WorktreesTypeOK, worktreeVars
<1> QED
  BY <1>1, <1>4, StillStep DEF Crash, worktreeVars, Exists

LEMMA EnvironmentStep == Inv /\ Environment => Inv'
<1> SUFFICES ASSUME Inv, Environment PROVE Inv'
  OBVIOUS
<1>1. now \in Nat
  BY NowType
<1>2. run \in [Runs -> [status : RunStatuses, branch : Branches, started : Nat]]
  BY DEF Inv, TypeOK, RunTableTypeOK
<1>3. ASSUME UNCHANGED <<approval, run, local, landed, clockVars>>,
             WorktreesTypeOK', window' \in [Runs -> Windows],
             \A b \in Branches : Exists(b) => Exists(b)'
      PROVE  Inv'
  <2>1. TypeOK'
    BY <1>3 DEF Inv, TypeOK, ApprovalTableTypeOK, RunTableTypeOK, clockVars, failureVars
  <2> QED
    BY <1>1, <1>3, <2>1, StillStep DEF clockVars, failureVars
<1>4. ASSUME NEW r \in Runs, AgentCommit(r) PROVE Inv'
  <2>1. WorktreesTypeOK' /\ \A b \in Branches : Exists(b) => Exists(b)'
    BY <1>2, <1>4, MaxCommitsAssumption
    DEF AgentCommit, Commit, Exists, NoBranch, WorktreesTypeOK, Inv, TypeOK
  <2> QED
    BY <1>3, <1>4, <2>1 DEF AgentCommit, Inv, TypeOK
<1>5. ASSUME NEW r \in Runs, NEW exit \in {"exit0", "exit1"}, AgentExit(r, exit) PROVE Inv'
  BY <1>3, <1>5
  DEF AgentExit, Windows, Inv, TypeOK, WorktreesTypeOK, worktreeVars, Exists
<1>6. ASSUME NEW r \in Runs, WindowCloses(r) PROVE Inv'
  BY <1>3, <1>6
  DEF WindowCloses, Windows, Inv, TypeOK, WorktreesTypeOK, worktreeVars, Exists
<1>7. ASSUME NEW prj \in Projects, Operator(prj) PROVE Inv'
  <2>1. WorktreesTypeOK' /\ \A b \in Branches : Exists(b) => Exists(b)'
    BY <1>7 DEF Operator, OperatorCommit, OperatorAbortsMerge, Reconsider, Ahead, Exists,
               WorktreesTypeOK, Inv, TypeOK
  <2> QED
    BY <1>3, <1>7, <2>1 DEF Operator, Inv, TypeOK
<1> QED
  BY <1>4, <1>5, <1>6, <1>7 DEF Environment

-----------------------------------------------------------------------------
LEMMA NextInv == Inv /\ [Next]_vars => Inv'
<1> SUFFICES ASSUME Inv, [Next]_vars PROVE Inv'
  OBVIOUS
<1>1. CASE UNCHANGED vars
  BY <1>1
  DEF vars, worktreeVars, Inv, TypeOK, ApprovalTableTypeOK, RunTableTypeOK, WorktreesTypeOK,
      HeldInv, Held, Rows, Exists, ExecutorInv, Executing, Approved, OneExecutor,
      MergesAreApproved, ExecutionInWindow
<1>2. CASE Next
  BY <1>2, StartStep, PollStep, MergeBackStep, DecideStep, VoiceStep, ExecuteStep,
     FailureStep, ExpiryStep, TickStep, CrashStep, EnvironmentStep DEF Next
<1> QED
  BY <1>1, <1>2

(* The invariant, from which the safety theorems follow.                   *)
THEOREM Invariant == Spec => []Inv
<1> QED
  BY InitInv, NextInv, PTL DEF Spec

(* Every value stays in its type: a handler never works on a row, a run or *)
(* a branch that is not there.                                             *)
THEOREM TypeCorrect == Spec => []TypeOK
<1>1. Inv => TypeOK
  BY DEF Inv
<1> QED
  BY <1>1, Invariant, PTL

(* However many connections approve it, one handler executes an approval.  *)
THEOREM ExecutedByOne == Spec => []OneExecutor
<1>1. Inv => OneExecutor
  BY DEF Inv
<1> QED
  BY <1>1, Invariant, PTL

(* The live repository is merged into at most once per approval, and only  *)
(* for an approved one, through any interleaving, crash and clock.         *)
THEOREM OnlyApprovedMerges == Spec => []MergesAreApproved
<1>1. Inv => MergesAreApproved
  BY DEF Inv
<1> QED
  BY <1>1, Invariant, PTL

(* A recorded execution is of a merge that landed between the decision and *)
(* the expiry of its approval.                                             *)
THEOREM ExecutedInWindow == Spec => []ExecutionInWindow
<1>1. Inv => ExecutionInWindow
  BY DEF Inv
<1> QED
  BY <1>1, Invariant, PTL

-----------------------------------------------------------------------------
(* Refinement: each step of the workbench is one of the ledger's or leaves *)
(* every approval in its phase.                                            *)

LEMMA QuietPhase == UNCHANGED <<approval, landed>> => UNCHANGED Phase
BY DEF Phase

(* A row that never was approved has landed nothing.                       *)
LEMMA PhaseOfRow ==
  ASSUME Inv
  PROVE  /\ \A a \in Approvals : ~Approved(a) => landed[a] = 0
         /\ \A a \in Approvals : approval[a] \in Row /\ landed[a] \in {0, 1}
BY DEF Inv, MergesAreApproved, TypeOK, ApprovalTableTypeOK

LEMMA LedgerMergeBack ==
  ASSUME Inv, NEW p \in Proposers, MergeBack(p)
  PROVE  [Ledger!LedgerNext]_Phase
<1>1. ASSUME NEW r \in Runs, MergeBackDiff(p, r) PROVE UNCHANGED Phase
  BY <1>1, QuietPhase DEF MergeBackDiff
<1>2. ASSUME NEW a \in Approvals, MergeBackInsert(p, a) PROVE Ledger!Propose(a)
  <2>1. /\ approval[a].status = "absent" /\ approval'[a].status = "pending"
        /\ \A c \in Approvals \ {a} : approval'[c] = approval[c]
        /\ UNCHANGED landed
    BY <1>2, PhaseOfRow DEF MergeBackInsert, InsertApproval, AbsentRow, Inv, TypeOK, ApprovalTableTypeOK
  <2> QED
    BY <2>1, PhaseOfRow DEF Ledger!Propose, Ledger!Move, Phase, Approved
<1> QED
  BY <1>1, <1>2 DEF MergeBack, Ledger!LedgerNext

LEMMA LedgerVerdict ==
  ASSUME Inv, NEW p \in Procs, At(p, "decide"), UNCHANGED landed, NEW via,
         \/ UNCHANGED approval
         \/ DecideApproval(local[p].appr, local[p].verdict, local[p].at, via)
  PROVE  [Ledger!LedgerNext]_Phase
<1> DEFINE a == local[p].appr
<1>1. CASE UNCHANGED approval
  BY <1>1, QuietPhase
<1>2. CASE DecideApproval(a, local[p].verdict, local[p].at, via)
  <2>1. a \in Approvals /\ local[p].verdict \in Verdicts
    BY DEF At, Inv, HeldInv, Held
  <2>2. /\ approval[a].status = "pending" /\ approval'[a].status = local[p].verdict
        /\ \A c \in Approvals \ {a} : approval'[c] = approval[c]
    BY <1>2, <2>1, PhaseOfRow
    DEF DecideApproval, Pending, Inv, TypeOK, ApprovalTableTypeOK, Row
  <2>3. Ledger!Approve(a) \/ Ledger!Deny(a)
    BY <2>1, <2>2, PhaseOfRow
    DEF Ledger!Approve, Ledger!Deny, Ledger!Move, Phase, Approved, Verdicts
  <2> QED
    BY <2>1, <2>3 DEF Ledger!LedgerNext
<1> QED
  BY <1>1, <1>2

LEMMA LedgerDecide ==
  ASSUME Inv, NEW p \in Procs, Decide(p) \/ Voice(p)
  PROVE  [Ledger!LedgerNext]_Phase
<1>1. ASSUME NEW c \in Approvals, NEW verdict \in Verdicts,
             DecideFetch(p, c, verdict) \/ VoiceFetch(p, c, verdict)
      PROVE  UNCHANGED Phase
  BY <1>1, QuietPhase DEF DecideFetch, VoiceFetch
<1>2. CASE DecideStore(p) \/ VoiceStore(p)
  BY <1>2, LedgerVerdict DEF DecideStore, VoiceStore, DecideRefused
<1> QED
  BY <1>1, <1>2 DEF Decide, Voice

LEMMA LedgerExpiry == Inv /\ ExpirySweep => [Ledger!LedgerNext]_Phase
<1> SUFFICES ASSUME Inv, ExpirySweep PROVE Ledger!LedgerNext
  OBVIOUS
<1> DEFINE S == {a \in Approvals : Pending(a) /\ approval[a].expires <= now}
<1>1. \A a \in Approvals : approval'[a] = IF a \in S THEN [approval[a] EXCEPT !.status = "expired"]
                                                     ELSE approval[a]
  BY DEF ExpirySweep, ExpireApprovals
<1>2. \A a \in Approvals :
        approval'[a].status = IF a \in S THEN "expired" ELSE approval[a].status
  BY <1>1, PhaseOfRow DEF Row
<1>3. UNCHANGED landed
  BY DEF ExpirySweep
<1>4. Ledger!Expire(S)
  BY <1>2, <1>3, PhaseOfRow DEF Ledger!Expire, Phase, Pending, Approved
<1> QED
  BY <1>4 DEF Ledger!LedgerNext

LEMMA LedgerExecute ==
  ASSUME Inv, NEW p \in Deciders, Execute(p)
  PROVE  [Ledger!LedgerNext]_Phase
<1> DEFINE a == local[p].appr
<1>0. p \in Procs
  BY WorkbenchAssumption DEF Procs
<1>1. CASE ExecuteBegin(p) \/ ExecuteFind(p) \/ ExecuteMark(p)
  BY <1>1, QuietPhase DEF ExecuteBegin, ExecuteFind, ExecuteMark
<1>2. CASE ExecuteMerge(p) /\ UNCHANGED landed
  BY <1>2, QuietPhase DEF ExecuteMerge
<1>3. ASSUME ExecuteMerge(p), landed' = [landed EXCEPT ![a] = @ + 1]
      PROVE  Ledger!LedgerNext
  <2>1. a \in Approvals /\ Executing(p, a) /\ local[p].pc = "merge"
    BY <1>0, <1>3 DEF ExecuteMerge, At, Inv, HeldInv, Held, Executing, ExecutePcs
  <2>2. approval[a].status = "approved" /\ landed[a] = 0 /\ UNCHANGED approval
    BY <1>0, <1>3, <2>1 DEF ExecuteMerge, Inv, ExecutorInv, Approved
  <2>3. landed'[a] = 1 /\ \A c \in Approvals \ {a} : landed'[c] = landed[c]
    BY <1>3, <2>1, <2>2 DEF Inv, TypeOK
  <2>4. Ledger!Land(a)
    BY <2>1, <2>2, <2>3 DEF Ledger!Land, Ledger!Move, Phase
  <2> QED
    BY <2>1, <2>4 DEF Ledger!LedgerNext
<1>4. CASE ExecuteRecord(p)
  <2>1. \A c \in Approvals : approval'[c].status = approval[c].status
    BY <1>4, PhaseOfRow DEF ExecuteRecord, SetApprovalExecution, Inv, TypeOK, ApprovalTableTypeOK, Row
  <2>2. UNCHANGED landed
    BY <1>4 DEF ExecuteRecord
  <2> QED
    BY <2>1, <2>2 DEF Phase
<1> QED
  BY <1>1, <1>2, <1>3, <1>4 DEF Execute, ExecuteMerge

LEMMA LedgerFailure ==
  ASSUME Inv, NEW p \in Procs, Failure(p)
  PROVE  [Ledger!LedgerNext]_Phase
<1> DEFINE a == local[p].appr
<1>1. CASE StoreFails(p)
  BY <1>1, QuietPhase DEF StoreFails
<1>2. CASE DecideUnread(p)
  BY <1>2, LedgerVerdict DEF DecideUnread
<1>3. CASE ExecuteUnread(p)
  <2>1. a \in Approvals /\ Executing(p, a) /\ local[p].pc = "merge"
    BY <1>3 DEF ExecuteUnread, At, Inv, HeldInv, Held, Executing, ExecutePcs
  <2>2. approval[a].status = "approved" /\ landed[a] = 0 /\ UNCHANGED approval
    BY <1>3, <2>1 DEF ExecuteUnread, Inv, ExecutorInv, Approved
  <2>3. landed'[a] = 1 /\ \A c \in Approvals \ {a} : landed'[c] = landed[c]
    BY <1>3, <2>1, <2>2 DEF ExecuteUnread, Inv, TypeOK
  <2>4. Ledger!Land(a)
    BY <2>1, <2>2, <2>3 DEF Ledger!Land, Ledger!Move, Phase
  <2> QED
    BY <2>1, <2>4 DEF Ledger!LedgerNext
<1> QED
  BY <1>1, <1>2, <1>3 DEF Failure

LEMMA LedgerStep == Inv /\ [Next]_vars => [Ledger!LedgerNext]_Phase
<1> SUFFICES ASSUME Inv, [Next]_vars PROVE [Ledger!LedgerNext]_Phase
  OBVIOUS
<1>1. CASE UNCHANGED vars
  BY <1>1, QuietPhase DEF vars
<1>2. ASSUME NEW p \in Procs, Start(p) \/ Poll(p) PROVE UNCHANGED Phase
  BY <1>2, QuietPhase
  DEF Start, StartCreate, StartInsert, StartSend, Poll, PollList, PollLook, PollSettle
<1>3. CASE Tick \/ Crash \/ Environment
  BY <1>3, QuietPhase
  DEF Tick, Crash, Environment, AgentCommit, AgentExit, WindowCloses, Operator
<1>4. Starters \cup Listers \cup Deciders \cup {Sweep} \cup Voices \subseteq Procs
  BY WorkbenchAssumption DEF Procs
<1> QED
  BY <1>1, <1>2, <1>3, <1>4, LedgerMergeBack, LedgerDecide, LedgerExecute, LedgerFailure,
     LedgerExpiry DEF Next

(* The workbench implements the abstract approval service.                 *)
THEOREM Implementation == Spec => ImplementsLedger
<1>1. Init => Ledger!LedgerInit
  BY DEF Init, ApprovalTableInit, AbsentRow, Ledger!LedgerInit, Phase
<1> QED
  BY <1>1, LedgerStep, Invariant, PTL DEF Spec, ImplementsLedger, Ledger!LedgerSpec

(* A decision is final: no later decision, sweep or execution changes it.  *)
(* The abstract service leaves "denied", "expired" and "landed" for good   *)
(* and "approved" only by landing, and what has landed is approved.        *)
THEOREM DecidedOnce == Spec => DecisionIsFinal
<1>1. ASSUME Inv, Inv', [Ledger!LedgerNext]_Phase, NEW a \in Approvals,
             Decided(a) \/ approval[a].status = "expired"
      PROVE  approval'[a].status = approval[a].status
  <2>1. /\ Phase[a] = IF landed[a] = 0 THEN approval[a].status ELSE "landed"
        /\ Phase'[a] = IF landed'[a] = 0 THEN approval'[a].status ELSE "landed"
    BY DEF Phase
  <2>2. /\ ~Approved(a) => landed[a] = 0
        /\ landed'[a] # 0 => approval'[a].status = "approved"
        /\ approval'[a].status # "landed"
    <3>1. ~Approved(a) => landed[a] = 0
      BY <1>1, PhaseOfRow
    <3>2. (approval[a] \in Row /\ landed[a] \in Nat)'
      BY <1>1 DEF Inv, TypeOK, ApprovalTableTypeOK
    <3>3. landed'[a] # 0 => approval'[a].status = "approved"
      BY <1>1, <3>2 DEF Inv, MergesAreApproved, Approved
    <3> QED
      BY <3>1, <3>2, <3>3 DEF Row, Statuses, Verdicts
  <2>3. Phase[a] \in {"approved", "denied", "expired", "landed"}
    BY <1>1, <2>1 DEF Decided, Verdicts
  <2>4. \/ Phase'[a] = Phase[a]
        \/ Phase[a] = "approved" /\ Phase'[a] = "landed"
    <3>1. CASE UNCHANGED Phase
      BY <3>1
    <3>2. CASE Ledger!LedgerNext
      BY <2>3, <3>2
      DEF Ledger!LedgerNext, Ledger!Propose, Ledger!Approve, Ledger!Deny, Ledger!Land,
          Ledger!Expire, Ledger!Move, Phase
    <3> QED
      BY <1>1, <3>1, <3>2
  <2>5. approval[a].status \in {"approved", "denied", "expired"}
    BY <1>1 DEF Decided, Verdicts
  <2> QED
    BY <2>1, <2>2, <2>4, <2>5 DEF Approved
<1>2. Inv /\ Inv' /\ [Next]_vars =>
        [\A a \in Approvals :
           Decided(a) \/ approval[a].status = "expired"
             => approval'[a].status = approval[a].status]_vars
  BY <1>1, LedgerStep
<1> QED
  BY <1>2, Invariant, PTL DEF Spec, DecisionIsFinal

-----------------------------------------------------------------------------
(* Recording what landed                                                   *)

(* A step that lands nothing, takes no record back and leaves the process  *)
(* about to write one where it is keeps LandedIsRecorded.                  *)
LEMMA RecordQuiet ==
  ASSUME LandedIsRecorded, UNCHANGED landed, TypeOK,
         \A a \in Approvals : approval'[a].started = approval[a].started,
         cut \subseteq cut',
         \A p \in Procs : local[p].pc = "record" =>
           local'[p] = local[p] \/ local[p].appr \in cut'
  PROVE  LandedIsRecorded'
<1> SUFFICES ASSUME NEW a \in Approvals, landed'[a] = 1, approval'[a].started = Never,
                    a \notin cut'
             PROVE  \E p \in Procs : (At(p, "record") /\ Executing(p, a))'
  BY DEF LandedIsRecorded
<1>1. PICK p \in Procs : At(p, "record") /\ Executing(p, a)
  BY DEF LandedIsRecorded
<1> QED
  BY <1>1 DEF At, Executing

LEMMA RecordStep == Inv /\ LandedIsRecorded /\ [Next]_vars => LandedIsRecorded'
<1> SUFFICES ASSUME Inv, LandedIsRecorded, [Next]_vars PROVE LandedIsRecorded'
  OBVIOUS
<1>1. TypeOK
  BY DEF Inv
<1>2. ASSUME UNCHANGED <<landed, cut>>, NEW p \in Procs, local[p].pc # "record",
             \A q \in Procs \ {p} : local'[q] = local[q],
             \A a \in Approvals : approval'[a].started = approval[a].started
      PROVE  LandedIsRecorded'
  BY <1>1, <1>2, RecordQuiet
<1>3. ASSUME NEW p \in Procs, Start(p) \/ Poll(p) PROVE LandedIsRecorded'
  <2>1. UNCHANGED <<approval, landed, cut>>
    BY <1>3
    DEF Start, StartCreate, StartInsert, StartSend, Poll, PollList, PollLook, PollSettle, clockVars, failureVars
  <2>2. local[p].pc # "record"
    BY <1>3
    DEF Start, StartCreate, StartInsert, StartSend, Poll, PollList, PollLook, PollSettle, At
  <2>3. CASE Start(p)
    BY <1>1, <1>2, <2>1, <2>2, <2>3
    DEF Start, StartCreate, StartInsert, StartSend, Goto, Continue, Finish, TypeOK
  <2>4. CASE Poll(p)
    BY <1>1, <1>2, <2>1, <2>2, <2>4
    DEF Poll, PollList, PollLook, PollSettle, NextPoll, Goto, TypeOK
  <2> QED
    BY <1>3, <2>3, <2>4
<1>4. ASSUME NEW p \in Proposers, MergeBack(p) PROVE LandedIsRecorded'
  <2>1. p \in Procs
    BY WorkbenchAssumption DEF Procs
  <2>2. ASSUME NEW r \in Runs, MergeBackDiff(p, r) PROVE LandedIsRecorded'
    BY <1>1, <1>2, <2>1, <2>2 DEF MergeBackDiff, Goto, At, TypeOK, clockVars, failureVars
  <2>3. ASSUME NEW a \in Approvals, MergeBackInsert(p, a) PROVE LandedIsRecorded'
    <3>1. approval[a].status = "absent" /\ approval[a].started = Never
      BY <2>3 DEF MergeBackInsert, InsertApproval, Inv, ExecutionInWindow, MergesAreApproved, Approved
    <3>2. \A c \in Approvals : approval'[c].started = approval[c].started
      BY <1>1, <2>3, <3>1
      DEF MergeBackInsert, InsertApproval, AbsentRow, TypeOK, ApprovalTableTypeOK
    <3> QED
      BY <1>1, <1>2, <2>1, <2>3, <3>2 DEF MergeBackInsert, Finish, Goto, At, TypeOK, clockVars, failureVars
  <2> QED
    BY <1>4, <2>2, <2>3 DEF MergeBack
<1>5. ASSUME NEW p \in Procs, Decide(p) \/ Voice(p) PROVE LandedIsRecorded'
  <2>1. ASSUME NEW c \in Approvals, NEW verdict \in Verdicts,
               DecideFetch(p, c, verdict) \/ VoiceFetch(p, c, verdict)
        PROVE  LandedIsRecorded'
    BY <1>1, <1>2, <2>1 DEF DecideFetch, VoiceFetch, Goto, At, TypeOK, clockVars, failureVars
  <2>2. CASE DecideStore(p) \/ VoiceStore(p)
    <3>1. \A c \in Approvals : approval'[c].started = approval[c].started
      BY <1>1, <2>2
      DEF DecideStore, VoiceStore, DecideRefused, DecideApproval, TypeOK, ApprovalTableTypeOK, Row
    <3> QED
      BY <1>1, <1>2, <2>2, <3>1
      DEF DecideStore, VoiceStore, DecideRefused, Continue, Finish, Goto, At, TypeOK, clockVars, failureVars
  <2> QED
    BY <1>5, <2>1, <2>2 DEF Decide, Voice
<1>6. ASSUME NEW p \in Procs, Execute(p) PROVE LandedIsRecorded'
  <2> DEFINE a == local[p].appr
  <2>1. CASE ExecuteBegin(p) \/ ExecuteFind(p) \/ ExecuteMark(p)
    BY <1>1, <1>2, <2>1
    DEF ExecuteBegin, ExecuteFind, ExecuteMark, Finish, Goto, At, TypeOK, clockVars, failureVars
  <2>2. CASE ExecuteMerge(p) /\ UNCHANGED landed
    BY <1>1, <1>2, <2>2 DEF ExecuteMerge, Continue, Finish, Goto, At, TypeOK, clockVars, failureVars
  <2>3. ASSUME ExecuteMerge(p), landed' = [landed EXCEPT ![a] = @ + 1], Continue(p, "record")
        PROVE  LandedIsRecorded'
    <3>1. local[p].pc = "merge" /\ a \in Approvals /\ local[p] \in Local
      BY <1>1, <2>3 DEF ExecuteMerge, At, Inv, HeldInv, Held, ExecutePcs, TypeOK
    <3>2. /\ \A q \in Procs : q # p => local'[q] = local[q]
          /\ local'[p].pc = "record" /\ local'[p].appr = a
      BY <1>1, <2>3, <3>1 DEF Continue, TypeOK, Local
    <3>3. UNCHANGED <<approval, cut>> /\ \A c \in Approvals : c # a => landed'[c] = landed[c]
      BY <1>1, <2>3 DEF ExecuteMerge, clockVars, failureVars, TypeOK
    <3> SUFFICES ASSUME NEW c \in Approvals, landed'[c] = 1, approval'[c].started = Never,
                        c \notin cut'
                 PROVE  \E q \in Procs : (At(q, "record") /\ Executing(q, c))'
      BY DEF LandedIsRecorded
    <3>4. CASE c = a
      BY <3>2, <3>4 DEF At, Executing, ExecutePcs
    <3>5. CASE c # a
      <4>1. PICK q \in Procs : At(q, "record") /\ Executing(q, c)
        BY <3>3, <3>5 DEF LandedIsRecorded
      <4>2. q # p
        BY <3>1, <4>1 DEF At
      <4> QED
        BY <3>2, <4>1, <4>2 DEF At, Executing
    <3> QED
      BY <3>4, <3>5
  <2>4. CASE ExecuteRecord(p)
    <3>1. local[p].pc = "record" /\ a \in Approvals /\ local[p] \in Local
      BY <1>1, <2>4 DEF ExecuteRecord, At, Inv, HeldInv, Held, ExecutePcs, TypeOK
    <3>2. /\ approval'[a].started = local[p].at /\ local[p].at # Never
          /\ \A c \in Approvals : c # a => approval'[c] = approval[c]
      BY <1>1, <2>4, <3>1
      DEF ExecuteRecord, SetApprovalExecution, TypeOK, ApprovalTableTypeOK, Row, Local, Never
    <3>3. \A q \in Procs : q # p => local'[q] = local[q]
      BY <1>1, <2>4 DEF ExecuteRecord, Continue, TypeOK
    <3>4. UNCHANGED <<landed, cut>>
      BY <2>4 DEF ExecuteRecord, clockVars, failureVars
    <3> SUFFICES ASSUME NEW c \in Approvals, landed'[c] = 1, approval'[c].started = Never,
                        c \notin cut'
                 PROVE  \E q \in Procs : (At(q, "record") /\ Executing(q, c))'
      BY DEF LandedIsRecorded
    <3>5. c # a
      BY <3>2
    <3>6. PICK q \in Procs : At(q, "record") /\ Executing(q, c)
      BY <3>2, <3>4, <3>5 DEF LandedIsRecorded
    <3>7. q # p
      BY <3>5, <3>6 DEF Executing
    <3> QED
      BY <3>3, <3>6, <3>7 DEF At, Executing
  <2> QED
    BY <1>6, <2>1, <2>2, <2>3, <2>4 DEF Execute, ExecuteMerge
<1>7. CASE ExpirySweep
  <2>1. \A c \in Approvals : approval'[c].started = approval[c].started
    BY <1>1, <1>7 DEF ExpirySweep, ExpireApprovals, TypeOK, ApprovalTableTypeOK, Row
  <2> QED
    BY <1>1, <1>7, <2>1, RecordQuiet DEF ExpirySweep, clockVars, failureVars
<1>8. CASE Tick \/ Environment \/ UNCHANGED vars
  BY <1>1, <1>8, RecordQuiet
  DEF Tick, Environment, AgentCommit, AgentExit, WindowCloses, Operator, clockVars, failureVars, vars
<1>9. CASE Crash
  <2>1. \A p \in Procs : local[p].pc = "record" => local[p].appr \in cut'
    BY <1>9 DEF Crash, Unrecorded, At
  <2> QED
    BY <1>1, <1>9, <2>1, RecordQuiet DEF Crash
<1>11. ASSUME NEW p \in Procs, Failure(p) PROVE LandedIsRecorded'
  <2>1. \A q \in Procs : q # p => local'[q] = local[q]
    BY <1>11, FailureKeeps
  <2>2. CASE StoreFails(p)
    <3>1. cut \subseteq cut' /\ (local[p].pc = "record" => local[p].appr \in cut')
      BY <2>2 DEF StoreFails, Unrecorded, At
    <3> QED
      BY <1>1, <2>1, <2>2, <3>1, RecordQuiet DEF StoreFails
  <2>3. CASE DecideUnread(p)
    <3>1. \A c \in Approvals : approval'[c].started = approval[c].started
      BY <1>1, <2>3 DEF DecideUnread, DecideApproval, TypeOK, ApprovalTableTypeOK, Row
    <3>2. local[p].pc # "record"
      BY <2>3 DEF DecideUnread, At
    <3> QED
      BY <1>1, <2>1, <2>3, <3>1, <3>2, RecordQuiet DEF DecideUnread
  <2>4. CASE ExecuteUnread(p)
    <3>1. /\ local[p].pc = "merge" /\ UNCHANGED approval
          /\ cut' = cut \cup {local[p].appr}
          /\ \A c \in Approvals : c # local[p].appr => landed'[c] = landed[c]
      BY <1>1, <2>4 DEF ExecuteUnread, At, TypeOK
    <3> SUFFICES ASSUME NEW c \in Approvals, landed'[c] = 1, approval'[c].started = Never,
                        c \notin cut'
                 PROVE  \E q \in Procs : (At(q, "record") /\ Executing(q, c))'
      BY DEF LandedIsRecorded
    <3>2. PICK q \in Procs : At(q, "record") /\ Executing(q, c)
      BY <3>1 DEF LandedIsRecorded
    <3>3. q # p
      BY <3>1, <3>2 DEF At
    <3> QED
      BY <2>1, <3>2, <3>3 DEF At, Executing
  <2> QED
    BY <1>11, <2>2, <2>3, <2>4 DEF Failure
<1>10. Starters \cup Listers \cup Deciders \cup {Sweep} \cup Voices \subseteq Procs
  BY WorkbenchAssumption DEF Procs
<1> QED
  BY <1>3, <1>4, <1>5, <1>6, <1>7, <1>8, <1>9, <1>10, <1>11 DEF Next

(* A merge that landed is on record or about to be, unless its own handler *)
(* was stopped by a crash or an error: no interleaving loses the result.   *)
THEOREM RecordedUnlessCut == Spec => []LandedIsRecorded
<1>1. Init => LandedIsRecorded
  BY DEF Init, LandedIsRecorded
<1> QED
  BY <1>1, RecordStep, Invariant, PTL DEF Spec
-----------------------------------------------------------------------------
(* The branch of a done run.  A commit on it would come from the agent of  *)
(* a run that has this branch and is still working; so the argument needs  *)
(* to know that runs share no branch, and that a verdict of done is of an  *)
(* agent that left its window.                                             *)

(* From StartCreate on a run has its branch and its window to itself: the  *)
(* handler that starts it holds both until the row is inserted.            *)
OwnerInv ==
    /\ \A r, q \in Rows : run[r].branch = run[q].branch => r = q
    /\ \A r \in Rows : window[r] # "none"
    /\ \A r \in Runs : window[r] = "working" => r \in Rows
    /\ \A p \in Procs : At(p, "send") => local[p].run \in Rows
    /\ \A p \in Procs : At(p, "register") =>
         /\ window[local[p].run] # "none" /\ local[p].run \notin Rows
         /\ \A r \in Rows : run[r].branch # local[p].branch
         /\ \A q \in Procs :
              At(q, "register") /\ (\/ local[q].run = local[p].run
                                    \/ local[q].branch = local[p].branch) => q = p

Exited(r) == window[r] \in {"exit0", "gone"}

(* Done, as a status or as a verdict about to be written, is said only of  *)
(* an agent that exited; but for those that print the marker themselves.   *)
ExitInv ==
    /\ \A r \in Runs \ Quoters : run[r].status = "done" => Exited(r)
    /\ \A p \in Procs :
         At(p, "settle") /\ local[p].verdict = "done" /\ local[p].run \notin Quoters
           => Exited(local[p].run)

(* A window that was opened stays so, and no agent comes back to work.     *)
WindowsGoOn ==
    \A r \in Runs : /\ window[r] # "none" => window'[r] # "none"
                    /\ window'[r] = "working" => window[r] = "working"
                    /\ Exited(r) => Exited(r)'

LEMMA OwnerKept ==
  ASSUME Inv, OwnerInv, WindowsGoOn, Rows' = Rows,
         \A r \in Rows : run'[r].branch = run[r].branch,
         \A p \in Procs : \/ local'[p] = local[p]
                          \/ local'[p].pc \notin {"register", "send"}
  PROVE  OwnerInv'
<1>1. Rows \subseteq Runs
  BY DEF Rows
<1>2. \A p \in Procs : At(p, "register") => local[p].run \in Runs
  BY DEF Inv, HeldInv, Held, At
<1>3. ASSUME NEW p \in Procs, NEW step \in {"register", "send"}, At(p, step)'
      PROVE  At(p, step) /\ local'[p] = local[p]
  BY <1>3 DEF At
<1>4. ASSUME NEW p \in Procs, At(p, "register")'
      PROVE  (/\ window[local[p].run] # "none" /\ local[p].run \notin Rows
              /\ \A r \in Rows : run[r].branch # local[p].branch
              /\ \A q \in Procs :
                   At(q, "register") /\ (\/ local[q].run = local[p].run
                                         \/ local[q].branch = local[p].branch) => q = p)'
  BY <1>2, <1>3, <1>4 DEF OwnerInv, WindowsGoOn
<1>5. \A p \in Procs : At(p, "send")' => local'[p].run \in Rows'
  BY <1>3 DEF OwnerInv
<1>6. /\ \A r, q \in Rows' : run'[r].branch = run'[q].branch => r = q
      /\ \A r \in Rows' : window'[r] # "none"
      /\ \A r \in Runs : window'[r] = "working" => r \in Rows'
  BY <1>1 DEF OwnerInv, WindowsGoOn
<1> QED
  BY <1>4, <1>5, <1>6 DEF OwnerInv

LEMMA ExitKept ==
  ASSUME Inv, ExitInv, \A r \in Runs : Exited(r) => Exited(r)',
         \A r \in Runs : run'[r].status = "done" => run[r].status = "done",
         \A p \in Procs : local'[p] = local[p] \/ local'[p].pc # "settle"
  PROVE  ExitInv'
<1>1. \A p \in Procs : At(p, "settle") => local[p].run \in Runs
  BY DEF Inv, HeldInv, Held, At, Rows
<1>2. \A r \in Runs \ Quoters : run'[r].status = "done" => Exited(r)'
  BY DEF ExitInv
<1>3. ASSUME NEW p \in Procs, At(p, "settle")', local'[p].verdict = "done",
             local'[p].run \notin Quoters
      PROVE  Exited(local[p].run)'
  <2>1. local'[p] = local[p] /\ At(p, "settle")
    BY <1>3 DEF At
  <2>2. PICK r \in Runs : r = local[p].run
    BY <1>1, <2>1
  <2>3. Exited(r)'
    BY <1>3, <2>1, <2>2 DEF ExitInv
  <2> QED
    BY <2>1, <2>2, <2>3 DEF Exited
<1> QED
  BY <1>2, <1>3 DEF ExitInv

LEMMA StartOwns ==
  ASSUME Inv, OwnerInv, ExitInv, NEW p \in Starters, Start(p)
  PROVE  OwnerInv' /\ ExitInv'
<1>0. /\ p \in Procs /\ Rows \subseteq Runs
      /\ local \in [Procs -> Local] /\ window \in [Runs -> Windows]
      /\ run \in [Runs -> [status : RunStatuses, branch : Branches, started : Nat]]
  BY WorkbenchAssumption DEF Procs, Rows, Inv, TypeOK, RunTableTypeOK
<1>1. ASSUME NEW r \in Runs, NEW b \in Branches, StartCreate(p, r, b)
      PROVE  OwnerInv' /\ ExitInv'
  <2>1. CASE UNCHANGED <<window, local>>
    <3>1. WindowsGoOn /\ UNCHANGED run
      BY <1>1, <2>1 DEF StartCreate, WindowsGoOn, Exited
    <3> QED
      BY <2>1, <3>1, OwnerKept, ExitKept DEF WindowsGoOn, Rows
  <2>2. CASE /\ window' = [window EXCEPT ![r] = "shell"]
             /\ Goto(p, [Idle EXCEPT !.pc = "register", !.run = r, !.branch = b, !.at = now])
    <3>1. /\ window[r] = "none" /\ r \notin Rows /\ ~Exists(b) /\ UNCHANGED run
      BY <1>1 DEF StartCreate, CreateWorktree
    <3>2. /\ \A q \in Procs : q # p => local'[q] = local[q]
          /\ local'[p].pc = "register" /\ local'[p].run = r /\ local'[p].branch = b
      BY <1>0, <2>2 DEF Goto, Idle
    <3>3. /\ \A q \in Runs : q # r => window'[q] = window[q]
          /\ window'[r] = "shell"
      BY <1>0, <2>2
    <3>4. /\ \A q \in Rows : run[q].branch # b
          /\ \A q \in Procs : At(q, "register") => /\ local[q].branch # b
                                                   /\ local[q].run \in Runs \ {r}
      BY <3>1 DEF Inv, HeldInv, Held, At, OwnerInv
    <3>5. Rows' = Rows
      BY <3>1 DEF Rows
    <3>6. OwnerInv'
      <4>1. ASSUME NEW q \in Procs, At(q, "register")'
            PROVE  (/\ window[local[q].run] # "none" /\ local[q].run \notin Rows
                    /\ \A s \in Rows : run[s].branch # local[q].branch
                    /\ \A o \in Procs :
                         At(o, "register") /\ (\/ local[o].run = local[q].run
                                               \/ local[o].branch = local[q].branch) => o = q)'
        <5>1. CASE q = p
          BY <3>1, <3>2, <3>3, <3>4, <3>5, <5>1 DEF At
        <5>2. CASE q # p
          BY <4>1, <3>1, <3>2, <3>3, <3>4, <3>5, <5>2 DEF At, OwnerInv
        <5> QED
          BY <5>1, <5>2
      <4>2. \A q \in Procs : At(q, "send")' => local'[q].run \in Rows'
        BY <3>2, <3>5 DEF At, OwnerInv
      <4>3. /\ \A s, q \in Rows' : run'[s].branch = run'[q].branch => s = q
            /\ \A s \in Rows' : window'[s] # "none"
            /\ \A s \in Runs : window'[s] = "working" => s \in Rows'
        BY <1>0, <3>1, <3>3, <3>5 DEF OwnerInv
      <4> QED
        BY <4>1, <4>2, <4>3 DEF OwnerInv
    <3>7. ExitInv'
      <4>1. \A q \in Runs : Exited(q) => Exited(q)'
        BY <3>1, <3>3 DEF Exited
      <4>2. \A q \in Procs : local'[q] = local[q] \/ local'[q].pc # "settle"
        BY <3>2
      <4> QED
        BY <3>1, <4>1, <4>2, ExitKept
    <3> QED
      BY <3>6, <3>7
  <2> QED
    BY <1>1, <2>1, <2>2 DEF StartCreate
<1>2. ASSUME StartInsert(p) PROVE OwnerInv' /\ ExitInv'
  <2>1. PICK r, b : r = local[p].run /\ b = local[p].branch
    OBVIOUS
  <2>2. /\ r \in Runs \ Rows /\ UNCHANGED window /\ window[r] # "none"
        /\ \A q \in Rows : run[q].branch # b
        /\ \A q \in Procs : At(q, "register") /\ (local[q].run = r \/ local[q].branch = b) => q = p
    BY <1>0, <1>2, <2>1 DEF StartInsert, At, OwnerInv, Inv, HeldInv, Held
  <2>3. /\ \A q \in Procs : q # p => local'[q] = local[q]
        /\ local'[p].pc = "send" /\ local'[p].run = r
    BY <1>0, <1>2, <2>1 DEF StartInsert, Continue, Local
  <2>4. /\ \A q \in Runs : q # r => run'[q] = run[q]
        /\ run'[r].status = "running" /\ run'[r].branch = b
    BY <1>0, <1>2, <2>1, <2>2 DEF StartInsert, InsertAgentRun
  <2>5. Rows' = Rows \cup {r}
    BY <2>2, <2>4 DEF Rows
  <2>6. OwnerInv'
    <3>1. ASSUME NEW q \in Procs, At(q, "register")'
          PROVE  (/\ window[local[q].run] # "none" /\ local[q].run \notin Rows
                  /\ \A s \in Rows : run[s].branch # local[q].branch
                  /\ \A o \in Procs :
                       At(o, "register") /\ (\/ local[o].run = local[q].run
                                             \/ local[o].branch = local[q].branch) => o = q)'
      <4>1. q # p /\ local'[q] = local[q] /\ At(q, "register")
        BY <2>3, <3>1 DEF At
      <4>2. local[q].run # r /\ local[q].branch # b
        BY <2>2, <4>1
      <4>3. \A o \in Procs : At(o, "register")' => local'[o] = local[o] /\ At(o, "register")
        BY <2>3 DEF At
      <4>4. \A s \in Rows' : run'[s].branch # local'[q].branch
        BY <1>0, <2>2, <2>4, <2>5, <4>1, <4>2 DEF OwnerInv
      <4> QED
        BY <2>2, <2>5, <4>1, <4>2, <4>3, <4>4 DEF OwnerInv
    <3>2. \A q \in Procs : At(q, "send")' => local'[q].run \in Rows'
      BY <2>3, <2>5 DEF At, OwnerInv
    <3>3. \A s, q \in Rows' : run'[s].branch = run'[q].branch => s = q
      BY <1>0, <2>2, <2>4, <2>5 DEF OwnerInv
    <3>4. /\ \A s \in Rows' : window'[s] # "none"
          /\ \A s \in Runs : window'[s] = "working" => s \in Rows'
      BY <2>2, <2>5 DEF OwnerInv
    <3> QED
      BY <3>1, <3>2, <3>3, <3>4 DEF OwnerInv
  <2>7. ExitInv'
    <3>1. \A q \in Runs : Exited(q) => Exited(q)'
      BY <2>2 DEF Exited
    <3>2. \A q \in Runs : run'[q].status = "done" => run[q].status = "done"
      BY <2>4
    <3>3. \A q \in Procs : local'[q] = local[q] \/ local'[q].pc # "settle"
      BY <2>3
    <3> QED
      BY <3>1, <3>2, <3>3, ExitKept
  <2> QED
    BY <2>6, <2>7
<1>3. ASSUME StartSend(p) PROVE OwnerInv' /\ ExitInv'
  <2>1. PICK r : r = local[p].run
    OBVIOUS
  <2>2. r \in Rows /\ UNCHANGED run /\ Rows' = Rows
    BY <1>0, <1>3, <2>1 DEF StartSend, OwnerInv, Rows
  <2>3. \A q \in Procs : \/ local'[q] = local[q]
                         \/ local'[q].pc \notin {"register", "send", "settle"}
    BY <1>0, <1>3 DEF StartSend, Finish, Goto, Idle
  <2>4. \A q \in Runs : \/ window'[q] = window[q]
                        \/ q = r /\ window[q] = "shell" /\ window'[q] = "working"
    BY <1>0, <1>3, <2>1 DEF StartSend
  <2>5. ExitInv'
    BY <2>2, <2>3, <2>4, ExitKept DEF Exited
  <2>6. OwnerInv'
    <3>1. ASSUME NEW q \in Procs, NEW step \in {"register", "send"}, At(q, step)'
          PROVE  At(q, step) /\ local'[q] = local[q]
      BY <2>3, <3>1 DEF At
    <3>2. \A q \in Procs : At(q, "register") => local[q].run \in Runs
      BY DEF Inv, HeldInv, Held, At
    <3>3. ASSUME NEW q \in Procs, At(q, "register")'
          PROVE  (/\ window[local[q].run] # "none" /\ local[q].run \notin Rows
                  /\ \A s \in Rows : run[s].branch # local[q].branch
                  /\ \A o \in Procs :
                       At(o, "register") /\ (\/ local[o].run = local[q].run
                                             \/ local[o].branch = local[q].branch) => o = q)'
      BY <2>2, <2>4, <3>1, <3>2, <3>3 DEF OwnerInv
    <3>4. \A q \in Procs : At(q, "send")' => local'[q].run \in Rows'
      BY <2>2, <3>1 DEF OwnerInv
    <3>5. /\ \A s, q \in Rows' : run'[s].branch = run'[q].branch => s = q
          /\ \A s \in Rows' : window'[s] # "none"
          /\ \A s \in Runs : window'[s] = "working" => s \in Rows'
      BY <1>0, <2>2, <2>4 DEF OwnerInv
    <3> QED
      BY <3>3, <3>4, <3>5 DEF OwnerInv
  <2> QED
    BY <2>5, <2>6
<1> QED
  BY <1>1, <1>2, <1>3 DEF Start

LEMMA PollOwns ==
  ASSUME Inv, OwnerInv, ExitInv, NEW p \in Listers \cup {Sweep}, Poll(p)
  PROVE  OwnerInv' /\ ExitInv'
<1>0. /\ p \in Procs /\ Rows \subseteq Runs /\ local \in [Procs -> Local]
      /\ run \in [Runs -> [status : RunStatuses, branch : Branches, started : Nat]]
  BY WorkbenchAssumption DEF Procs, Rows, Inv, TypeOK, RunTableTypeOK
<1>1. UNCHANGED window /\ WindowsGoOn
  BY DEF Poll, PollList, PollLook, PollSettle, WindowsGoOn, Exited
<1>2. CASE PollList(p)
  <2>1. UNCHANGED run
    BY <1>2 DEF PollList
  <2>2. \A q \in Procs : \/ local'[q] = local[q]
                         \/ local'[q].pc \notin {"register", "send", "settle"}
    BY <1>0, <1>2 DEF PollList, Goto, Idle
  <2> QED
    BY <1>1, <2>1, <2>2, OwnerKept, ExitKept DEF Rows, WindowsGoOn
<1>3. ASSUME NEW r \in Runs, PollLook(p, r) PROVE OwnerInv' /\ ExitInv'
  <2>1. UNCHANGED run
    BY <1>3 DEF PollLook
  <2>2. CASE NextPoll(p, r)
    <3>1. \A q \in Procs : \/ local'[q] = local[q]
                           \/ local'[q].pc \notin {"register", "send", "settle"}
      BY <1>0, <2>2 DEF NextPoll, Goto, Idle
    <3> QED
      BY <1>1, <2>1, <3>1, OwnerKept, ExitKept DEF Rows, WindowsGoOn
  <2>3. ASSUME NEW reading \in Readings(r), reading # "running",
               local' = [local EXCEPT ![p].pc = "settle", ![p].run = r, ![p].verdict = reading]
        PROVE  OwnerInv' /\ ExitInv'
    <3>1. /\ \A q \in Procs : q # p => local'[q] = local[q]
          /\ local'[p].pc = "settle" /\ local'[p].run = r /\ local'[p].verdict = reading
      BY <1>0, <2>3 DEF Local
    <3>2. OwnerInv'
      <4>1. \A q \in Procs : \/ local'[q] = local[q]
                             \/ local'[q].pc \notin {"register", "send"}
        BY <3>1
      <4> QED
        BY <1>1, <2>1, <4>1, OwnerKept DEF Rows
    <3>3. reading = "done" /\ r \notin Quoters => Exited(r)'
      BY <1>1, <2>3 DEF Readings, Quoted, Exited
    <3>4. ASSUME NEW q \in Procs, At(q, "settle")', local'[q].verdict = "done",
                 local'[q].run \notin Quoters
          PROVE  Exited(local[q].run)'
      <4>1. CASE q = p
        BY <3>1, <3>3, <3>4, <4>1 DEF Exited
      <4>2. CASE q # p
        BY <1>1, <3>1, <3>4, <4>2 DEF Exited, ExitInv, At
      <4> QED
        BY <4>1, <4>2
    <3>5. \A q \in Runs \ Quoters : run'[q].status = "done" => Exited(q)'
      BY <1>1, <2>1 DEF ExitInv, Exited
    <3> QED
      BY <3>2, <3>4, <3>5 DEF ExitInv
  <2> QED
    BY <1>3, <2>2, <2>3 DEF PollLook
<1>4. CASE PollSettle(p)
  <2>1. PICK r, verdict : r = local[p].run /\ verdict = local[p].verdict
    OBVIOUS
  <2>2. /\ r \in Rows /\ verdict \in {"done", "failed"}
        /\ verdict = "done" /\ r \notin Quoters => Exited(r)
    BY <1>0, <1>4, <2>1 DEF PollSettle, At, Inv, HeldInv, Held, ExitInv
  <2>3. /\ \A q \in Runs : q # r => run'[q] = run[q]
        /\ run'[r].status = verdict /\ run'[r].branch = run[r].branch
    BY <1>0, <1>4, <2>1, <2>2 DEF PollSettle, UpdateAgentRunStatus
  <2>4. Rows' = Rows
    BY <2>2, <2>3 DEF Rows
  <2>5. \A q \in Procs : \/ local'[q] = local[q]
                         \/ local'[q].pc \notin {"register", "send", "settle"}
    BY <1>0, <1>4 DEF PollSettle, NextPoll, Goto, Idle
  <2>6. OwnerInv'
    BY <1>0, <1>1, <2>3, <2>4, <2>5, OwnerKept
  <2>7. \A q \in Runs \ Quoters : run'[q].status = "done" => Exited(q)'
    BY <1>1, <2>2, <2>3 DEF ExitInv, Exited
  <2>8. ASSUME NEW q \in Procs, At(q, "settle")', local'[q].verdict = "done",
               local'[q].run \notin Quoters
        PROVE  Exited(local[q].run)'
    BY <1>1, <2>5, <2>8 DEF Exited, ExitInv, At
  <2> QED
    BY <2>6, <2>7, <2>8 DEF ExitInv
<1> QED
  BY <1>2, <1>3, <1>4 DEF Poll

(* The other handlers, the clock, a crash and the environment start no     *)
(* run, and no window that they touch is entered again.                    *)
LEMMA OthersOwn ==
  ASSUME Inv, OwnerInv, ExitInv,
         \/ \E p \in Proposers : MergeBack(p)
         \/ \E p \in Deciders : Decide(p) \/ Execute(p)
         \/ \E p \in Voices : Voice(p)
         \/ \E p \in Procs : Failure(p)
         \/ ExpirySweep \/ Tick \/ Crash \/ Environment
         \/ UNCHANGED vars
  PROVE  OwnerInv' /\ ExitInv'
<1>0. /\ Proposers \cup Deciders \cup Voices \subseteq Procs /\ Rows \subseteq Runs
      /\ local \in [Procs -> Local] /\ window \in [Runs -> Windows]
      /\ run \in [Runs -> [status : RunStatuses, branch : Branches, started : Nat]]
  BY WorkbenchAssumption DEF Procs, Rows, Inv, TypeOK, RunTableTypeOK
<1>1. ASSUME WindowsGoOn, Rows' = Rows, \A r \in Rows : run'[r].branch = run[r].branch,
             \A r \in Runs : run'[r].status = "done" => run[r].status = "done",
             \A p \in Procs : \/ local'[p] = local[p]
                              \/ local'[p].pc \notin {"register", "send", "settle"}
      PROVE  OwnerInv' /\ ExitInv'
  <2>1. OwnerInv'
    BY <1>1, OwnerKept
  <2>2. ExitInv'
    BY <1>1, ExitKept DEF WindowsGoOn
  <2> QED
    BY <2>1, <2>2
<1>2. UNCHANGED window => WindowsGoOn
  BY DEF WindowsGoOn, Exited
<1>3. UNCHANGED run => /\ Rows' = Rows /\ \A r \in Rows : run'[r].branch = run[r].branch
                       /\ \A r \in Runs : run'[r].status = "done" => run[r].status = "done"
  BY DEF Rows
<1>4. ASSUME NEW p \in Proposers, MergeBack(p) PROVE OwnerInv' /\ ExitInv'
  <2>1. UNCHANGED <<run, window>>
    BY <1>4 DEF MergeBack, MergeBackDiff, MergeBackInsert
  <2>2. \A q \in Procs : \/ local'[q] = local[q]
                         \/ local'[q].pc \notin {"register", "send", "settle"}
    <3>1. ASSUME NEW r \in Runs, MergeBackDiff(p, r), NEW q \in Procs
          PROVE  local'[q] = local[q] \/ local'[q].pc = "propose"
      BY <1>0, <3>1 DEF MergeBackDiff, Goto, Idle
    <3>2. ASSUME NEW a \in Approvals, MergeBackInsert(p, a), NEW q \in Procs
          PROVE  local'[q] = local[q] \/ local'[q].pc = "idle"
      BY <1>0, <3>2 DEF MergeBackInsert, Finish, Goto, Idle
    <3> QED
      BY <1>4, <3>1, <3>2 DEF MergeBack
  <2> QED
    BY <1>1, <1>2, <1>3, <2>1, <2>2
<1>5. ASSUME NEW p \in Procs, Decide(p) \/ Voice(p) PROVE OwnerInv' /\ ExitInv'
  <2>1. UNCHANGED <<run, window>>
    BY <1>5 DEF Decide, Voice, DecideFetch, DecideStore, VoiceFetch, VoiceStore
  <2>2. \A q \in Procs : \/ local'[q] = local[q]
                         \/ local'[q].pc \notin {"register", "send", "settle"}
    <3>1. ASSUME NEW a \in Approvals, NEW verdict \in Verdicts,
                 DecideFetch(p, a, verdict) \/ VoiceFetch(p, a, verdict), NEW q \in Procs
          PROVE  local'[q] = local[q] \/ local'[q].pc = "decide"
      BY <1>0, <3>1 DEF DecideFetch, VoiceFetch, Goto, Idle
    <3>2. ASSUME DecideStore(p) \/ VoiceStore(p), NEW q \in Procs
          PROVE  local'[q] = local[q] \/ local'[q].pc \in {"begin", "idle"}
      BY <1>0, <3>2
      DEF DecideStore, VoiceStore, DecideRefused, Finish, Goto, Continue, Idle, Local
    <3> QED
      BY <1>5, <3>1, <3>2 DEF Decide, Voice
  <2> QED
    BY <1>1, <1>2, <1>3, <2>1, <2>2
<1>6. ASSUME NEW p \in Deciders, Execute(p) PROVE OwnerInv' /\ ExitInv'
  <2>1. UNCHANGED window
    BY <1>6 DEF Execute, ExecuteBegin, ExecuteMerge, ExecuteRecord, ExecuteFind, ExecuteMark
  <2>2. \A q \in Procs : \/ local'[q] = local[q]
                         \/ local'[q].pc \notin {"register", "send", "settle"}
    BY <1>0, <1>6 DEF Execute, ExecuteBegin, ExecuteMerge, ExecuteRecord, ExecuteFind,
                      ExecuteMark, Finish, Goto, Continue, Idle, Local
  <2>3. CASE ExecuteMark(p)
    <3>1. PICK r \in Rows : r = local[p].run
      BY <1>0, <2>3 DEF ExecuteMark, At, Inv, HeldInv, Held
    <3>2. /\ \A q \in Runs : q # r => run'[q] = run[q]
          /\ run'[r].status = "merged" /\ run'[r].branch = run[r].branch
      BY <1>0, <2>3, <3>1 DEF ExecuteMark, UpdateAgentRunStatus
    <3>3. Rows' = Rows
      BY <3>1, <3>2 DEF Rows
    <3> QED
      BY <1>0, <1>1, <1>2, <2>1, <2>2, <3>2, <3>3
  <2>4. CASE ~ExecuteMark(p)
    <3>1. UNCHANGED run
      BY <1>6, <2>4 DEF Execute, ExecuteBegin, ExecuteMerge, ExecuteRecord, ExecuteFind
    <3> QED
      BY <1>1, <1>2, <1>3, <2>1, <2>2, <3>1
  <2> QED
    BY <2>3, <2>4
<1>7. CASE ExpirySweep \/ Tick \/ UNCHANGED vars
  <2>1. UNCHANGED <<run, window, local>>
    BY <1>7 DEF ExpirySweep, Tick, vars
  <2> QED
    BY <1>1, <1>2, <1>3, <2>1
<1>8. CASE Crash
  <2>1. UNCHANGED <<run, window>> /\ \A p \in Procs : local'[p].pc = "idle"
    BY <1>8 DEF Crash, Idle
  <2> QED
    BY <1>1, <1>2, <1>3, <2>1
<1>9. CASE Environment
  <2>1. UNCHANGED <<run, local>>
    BY <1>9 DEF Environment, AgentCommit, AgentExit, WindowCloses, Operator
  <2>2. WindowsGoOn
    BY <1>0, <1>9
    DEF Environment, AgentCommit, AgentExit, WindowCloses, Operator, WindowsGoOn, Exited
  <2> QED
    BY <1>1, <1>3, <2>1, <2>2
<1>10. ASSUME NEW p \in Procs, Failure(p) PROVE OwnerInv' /\ ExitInv'
  <2>1. /\ UNCHANGED <<run, window>>
        /\ \A q \in Procs : \/ local'[q] = local[q]
                             \/ local'[q].pc \notin {"register", "send", "settle"}
    BY <1>10, FailureKeeps
  <2> QED
    BY <1>1, <1>2, <1>3, <2>1
<1> QED
  BY <1>0, <1>4, <1>5, <1>6, <1>7, <1>8, <1>9, <1>10

LEMMA OwnerInit == Init => OwnerInv /\ ExitInv
BY WorkbenchAssumption
DEF Init, RunTableInit, Rows, OwnerInv, ExitInv, At, Idle

LEMMA OwnerNext == Inv /\ OwnerInv /\ ExitInv /\ [Next]_vars => OwnerInv' /\ ExitInv'
<1> SUFFICES ASSUME Inv, OwnerInv, ExitInv, [Next]_vars PROVE OwnerInv' /\ ExitInv'
  OBVIOUS
<1>1. ASSUME NEW p \in Starters, Start(p) PROVE OwnerInv' /\ ExitInv'
  BY <1>1, StartOwns
<1>2. ASSUME NEW p \in Listers \cup {Sweep}, Poll(p) PROVE OwnerInv' /\ ExitInv'
  BY <1>2, PollOwns
<1> QED
  BY <1>1, <1>2, OthersOwn DEF Next

(* Only an agent moves a branch that exists, and it moves its own.         *)
LEMMA OnlyAgentsCommit ==
  ASSUME Inv, [Next]_vars, NEW b \in Branches, Exists(b)
  PROVE  \/ tip'[b] = tip[b]
         \/ \E q \in Runs : window[q] = "working" /\ run[q].branch = b
<1>0. /\ tip \in [Branches -> 0 .. MaxCommits \cup {NoBranch}]
      /\ run \in [Runs -> [status : RunStatuses, branch : Branches, started : Nat]]
  BY DEF Inv, TypeOK, WorktreesTypeOK, RunTableTypeOK
<1>1. ASSUME NEW p \in Starters, Start(p) PROVE tip'[b] = tip[b]
  BY <1>0, <1>1
  DEF Start, StartCreate, StartInsert, StartSend, CreateWorktree, worktreeVars
<1>2. ASSUME NEW p \in Procs, Poll(p) \/ MergeBack(p) \/ Decide(p) \/ Voice(p)
      PROVE  UNCHANGED tip
  BY <1>2
  DEF Poll, PollList, PollLook, PollSettle, MergeBack, MergeBackDiff, MergeBackInsert,
      Decide, DecideFetch, DecideStore, Voice, VoiceFetch, VoiceStore, worktreeVars
<1>3. ASSUME NEW p \in Deciders, Execute(p) PROVE UNCHANGED tip
  BY <1>3
  DEF Execute, ExecuteBegin, ExecuteMerge, ExecuteRecord, ExecuteFind, ExecuteMark,
      MergeLands, MergeStops, MergeRefused, worktreeVars
<1>4. ASSUME NEW r \in Runs, AgentCommit(r)
      PROVE  tip'[b] = tip[b] \/ (window[r] = "working" /\ run[r].branch = b)
  BY <1>0, <1>4 DEF AgentCommit, Commit
<1>5. ASSUME Environment, ~\E r \in Runs : AgentCommit(r) PROVE UNCHANGED tip
  BY <1>5
  DEF Environment, AgentExit, WindowCloses, Operator, OperatorCommit, OperatorAbortsMerge,
      worktreeVars
<1>6. ExpirySweep \/ Tick \/ Crash \/ UNCHANGED vars => UNCHANGED tip
  BY DEF ExpirySweep, Tick, Crash, vars, worktreeVars
<1>7. Listers \cup {Sweep} \cup Proposers \cup Deciders \cup Voices \subseteq Procs
  BY WorkbenchAssumption DEF Procs
<1>8. ASSUME NEW p \in Procs, Failure(p) PROVE UNCHANGED tip
  BY <1>8, FailureKeeps
<1> QED
  BY <1>1, <1>2, <1>3, <1>4, <1>5, <1>6, <1>7, <1>8 DEF Next

LEMMA StableStep ==
  ASSUME Inv, OwnerInv, ExitInv, [Next]_vars,
         NEW r \in Runs \ Quoters, run[r].status = "done"
  PROVE  tip'[run[r].branch] = tip[run[r].branch]
<1>1. r \in Rows /\ Exited(r) /\ run[r].branch \in Branches /\ Exists(run[r].branch)
  BY DEF Rows, ExitInv, Inv, HeldInv, TypeOK, RunTableTypeOK
<1>2. ASSUME NEW q \in Runs, window[q] = "working", run[q].branch = run[r].branch
      PROVE  FALSE
  <2>1. q \in Rows /\ q = r
    BY <1>1, <1>2 DEF OwnerInv
  <2> QED
    BY <1>1, <1>2, <2>1 DEF Exited
<1> QED
  BY <1>1, <1>2, OnlyAgentsCommit

(* Once a run is done its branch gets no further commit from an agent,     *)
(* unless the agent of that run prints the exit marker itself.             *)
THEOREM StableBranches == Spec => DoneBranchIsStable
<1>1. Inv /\ OwnerInv /\ ExitInv /\ [Next]_vars =>
        [\A r \in Runs \ Quoters :
           run[r].status = "done"
             => tip'[run[r].branch] = tip[run[r].branch]]_vars
  BY StableStep
<1> QED
  BY <1>1, OwnerInit, OwnerNext, Invariant, PTL DEF Spec, DoneBranchIsStable

-----------------------------------------------------------------------------
(* What lands is what was shown, where the agent had left by then: the     *)
(* merge takes the branch by name, and nobody moves it any more.           *)

(* The approval shows all that is on its branch, whose agent has exited.   *)
ShowsAll(a) ==
    /\ approval[a].status # "absent"
    /\ approval[a].shown = tip[approval[a].branch]
    /\ \E r \in Rows : run[r].branch = approval[a].branch /\ Exited(r)

(* No command rewrites what an approval is about.                          *)
LEMMA SubjectKept ==
  ASSUME Inv, [Next]_vars, NEW a \in Approvals, approval[a].status # "absent"
  PROVE  /\ approval'[a].status # "absent"
         /\ approval'[a].branch = approval[a].branch
         /\ approval'[a].shown = approval[a].shown
<1>0. approval \in [Approvals -> Row]
  BY DEF Inv, TypeOK, ApprovalTableTypeOK
<1>1. ASSUME NEW p \in Proposers, MergeBack(p)
      PROVE  approval'[a] = approval[a]
  BY <1>0, <1>1 DEF MergeBack, MergeBackDiff, MergeBackInsert, InsertApproval
<1>2. ASSUME NEW b \in Approvals, NEW verdict \in Verdicts, NEW at, NEW via,
             DecideApproval(b, verdict, at, via)
      PROVE  /\ approval'[a].status # "absent"
             /\ approval'[a].branch = approval[a].branch
             /\ approval'[a].shown = approval[a].shown
  BY <1>0, <1>2 DEF DecideApproval, Row, Verdicts
<1>3. ASSUME NEW p \in Deciders \cup Voices, Decide(p) \/ Voice(p)
      PROVE  /\ approval'[a].status # "absent"
             /\ approval'[a].branch = approval[a].branch
             /\ approval'[a].shown = approval[a].shown
  <2>1. p \in Procs
    BY WorkbenchAssumption DEF Procs
  <2>2. At(p, "decide") => local[p].appr \in Approvals /\ local[p].verdict \in Verdicts
    BY <2>1 DEF At, Inv, HeldInv, Held
  <2>3. \/ approval' = approval
        \/ At(p, "decide") /\ \E via \in {"cli", "voice"} :
             DecideApproval(local[p].appr, local[p].verdict, local[p].at, via)
    BY <1>3 DEF Decide, Voice, DecideFetch, DecideStore, DecideRefused, VoiceFetch, VoiceStore
  <2> QED
    BY <1>2, <2>2, <2>3
<1>4. ASSUME NEW p \in Deciders, Execute(p)
      PROVE  /\ approval'[a].status = approval[a].status
             /\ approval'[a].branch = approval[a].branch
             /\ approval'[a].shown = approval[a].shown
  <2>1. \/ approval' = approval
        \/ SetApprovalExecution(local[p].appr, local[p].at)
    BY <1>4 DEF Execute, ExecuteBegin, ExecuteMerge, ExecuteRecord, ExecuteFind, ExecuteMark
  <2> QED
    BY <1>0, <2>1 DEF SetApprovalExecution, Row
<1>5. ASSUME ExpirySweep
      PROVE  /\ approval'[a].status # "absent"
             /\ approval'[a].branch = approval[a].branch
             /\ approval'[a].shown = approval[a].shown
  BY <1>0, <1>5 DEF ExpirySweep, ExpireApprovals, Row
<1>6. ASSUME NEW p, Start(p) \/ Poll(p)
      PROVE  approval' = approval
  BY <1>6
  DEF Start, StartCreate, StartInsert, StartSend, Poll, PollList, PollLook, PollSettle
<1>7. Tick \/ Crash \/ Environment \/ UNCHANGED vars => approval' = approval
  BY DEF Tick, Crash, Environment, AgentCommit, AgentExit, WindowCloses, Operator, vars
<1>8. ASSUME NEW p \in Procs, Failure(p)
      PROVE  /\ approval'[a].status # "absent"
             /\ approval'[a].branch = approval[a].branch
             /\ approval'[a].shown = approval[a].shown
  <2>1. At(p, "decide") => local[p].appr \in Approvals /\ local[p].verdict \in Verdicts
    BY DEF At, Inv, HeldInv, Held
  <2>2. \/ approval' = approval
        \/ At(p, "decide") /\ \E via \in {"cli", "voice"} :
             DecideApproval(local[p].appr, local[p].verdict, local[p].at, via)
    BY <1>8 DEF Failure, StoreFails, DecideUnread, ExecuteUnread
  <2> QED
    BY <1>2, <2>1, <2>2
<1> QED
  BY <1>1, <1>3, <1>4, <1>5, <1>6, <1>7, <1>8 DEF Next

(* A row stays, with its branch.                                           *)
LEMMA RowKept ==
  ASSUME Inv, [Next]_vars, NEW r \in Rows
  PROVE  r \in Rows' /\ run'[r].branch = run[r].branch
<1>0. /\ run \in [Runs -> [status : RunStatuses, branch : Branches, started : Nat]]
      /\ r \in Runs
  BY DEF Inv, TypeOK, RunTableTypeOK, Rows
<1>1. ASSUME NEW q \in Rows, NEW status \in RunStatuses \ {"absent"},
             UpdateAgentRunStatus(q, status)
      PROVE  r \in Rows' /\ run'[r].branch = run[r].branch
  BY <1>0, <1>1 DEF UpdateAgentRunStatus, Rows
<1>2. UNCHANGED run => r \in Rows' /\ run'[r].branch = run[r].branch
  BY DEF Rows
<1>3. Starters \cup Listers \cup {Sweep} \cup Deciders \cup Proposers \cup Voices \subseteq Procs
  BY WorkbenchAssumption DEF Procs
<1>4. ASSUME NEW p \in Starters, Start(p)
      PROVE  r \in Rows' /\ run'[r].branch = run[r].branch
  <2>1. \/ UNCHANGED run
        \/ InsertAgentRun(local[p].run, local[p].branch, local[p].at)
    BY <1>4 DEF Start, StartCreate, StartInsert, StartSend
  <2> QED
    BY <1>0, <1>2, <2>1 DEF InsertAgentRun, Rows
<1>5. ASSUME NEW p \in Listers \cup {Sweep}, Poll(p)
      PROVE  r \in Rows' /\ run'[r].branch = run[r].branch
  <2>1. CASE PollSettle(p)
    <3>1. /\ local[p].run \in Rows /\ local[p].verdict \in RunStatuses \ {"absent"}
          /\ UpdateAgentRunStatus(local[p].run, local[p].verdict)
      BY <1>3, <2>1 DEF PollSettle, At, Inv, HeldInv, Held, RunStatuses
    <3> QED
      BY <1>1, <3>1
  <2>2. CASE ~PollSettle(p)
    BY <1>2, <1>5, <2>2 DEF Poll, PollList, PollLook
  <2> QED
    BY <2>1, <2>2
<1>6. ASSUME NEW p \in Deciders, Execute(p)
      PROVE  r \in Rows' /\ run'[r].branch = run[r].branch
  <2>1. CASE ExecuteMark(p)
    <3>1. local[p].run \in Rows /\ UpdateAgentRunStatus(local[p].run, "merged")
      BY <1>3, <2>1 DEF ExecuteMark, At, Inv, HeldInv, Held
    <3> QED
      BY <1>1, <3>1 DEF RunStatuses
  <2>2. CASE ~ExecuteMark(p)
    BY <1>2, <1>6, <2>2 DEF Execute, ExecuteBegin, ExecuteMerge, ExecuteRecord, ExecuteFind
  <2> QED
    BY <2>1, <2>2
<1>7. ASSUME NEW p, MergeBack(p) \/ Decide(p) \/ Voice(p)
      PROVE  UNCHANGED run
  BY <1>7
  DEF MergeBack, MergeBackDiff, MergeBackInsert, Decide, DecideFetch, DecideStore,
      Voice, VoiceFetch, VoiceStore
<1>8. ExpirySweep \/ Tick \/ Crash \/ Environment \/ UNCHANGED vars => UNCHANGED run
  BY DEF ExpirySweep, Tick, Crash, Environment, AgentCommit, AgentExit, WindowCloses,
         Operator, vars
<1>9. ASSUME NEW p \in Procs, Failure(p) PROVE UNCHANGED run
  BY <1>9, FailureKeeps
<1> QED
  BY <1>2, <1>4, <1>5, <1>6, <1>7, <1>8, <1>9 DEF Next

(* An agent that exited stays away.                                        *)
LEMMA ExitedKept ==
  ASSUME Inv, [Next]_vars, NEW r \in Runs, Exited(r)
  PROVE  Exited(r)'
<1>0. window \in [Runs -> Windows]
  BY DEF Inv, TypeOK
<1>1. UNCHANGED window => Exited(r)'
  BY DEF Exited
<1>2. ASSUME NEW p, Start(p) PROVE Exited(r)'
  BY <1>0, <1>2 DEF Start, StartCreate, StartInsert, StartSend, Exited
<1>3. ASSUME NEW p, Poll(p) \/ MergeBack(p) \/ Decide(p) \/ Execute(p) \/ Voice(p)
      PROVE  UNCHANGED window
  BY <1>3
  DEF Poll, PollList, PollLook, PollSettle, MergeBack, MergeBackDiff, MergeBackInsert,
      Decide, DecideFetch, DecideStore, Voice, VoiceFetch, VoiceStore,
      Execute, ExecuteBegin, ExecuteMerge, ExecuteRecord, ExecuteFind, ExecuteMark
<1>4. ExpirySweep \/ Tick \/ Crash \/ UNCHANGED vars => UNCHANGED window
  BY DEF ExpirySweep, Tick, Crash, vars
<1>5. Environment => Exited(r)'
  BY <1>0 DEF Environment, AgentCommit, AgentExit, WindowCloses, Operator, Exited
<1>6. ASSUME NEW p \in Procs, Failure(p) PROVE UNCHANGED window
  BY <1>6, FailureKeeps
<1> QED
  BY <1>1, <1>2, <1>3, <1>4, <1>5, <1>6 DEF Next

LEMMA ShowsAllKept ==
  ASSUME Inv, OwnerInv, [Next]_vars, NEW a \in Approvals, ShowsAll(a)
  PROVE  ShowsAll(a)'
<1>1. PICK r \in Rows : run[r].branch = approval[a].branch /\ Exited(r)
  BY DEF ShowsAll
<1>2. /\ approval'[a].status # "absent" /\ approval'[a].branch = approval[a].branch
      /\ approval'[a].shown = approval[a].shown
  BY SubjectKept DEF ShowsAll
<1>3. r \in Rows' /\ run'[r].branch = run[r].branch /\ Exited(r)'
  BY <1>1, RowKept, ExitedKept DEF Rows
<1>4. run[r].branch \in Branches /\ Exists(run[r].branch)
  BY DEF Inv, HeldInv, TypeOK, RunTableTypeOK, Rows
<1>5. ASSUME NEW q \in Runs, window[q] = "working", run[q].branch = run[r].branch
      PROVE  FALSE
  BY <1>1, <1>5 DEF OwnerInv, Exited
<1>6. tip'[run[r].branch] = tip[run[r].branch]
  BY <1>4, <1>5, OnlyAgentsCommit
<1> QED
  BY <1>1, <1>2, <1>3, <1>6 DEF ShowsAll

(* A merge takes what the branch has when it lands.                        *)
LEMMA LandsTip ==
  ASSUME Inv, [Next]_vars, NEW a \in Approvals, landed'[a] # landed[a]
  PROVE  merged'[approval[a].branch] = tip[approval[a].branch]
<1>0. /\ approval \in [Approvals -> Row] /\ landed \in [Approvals -> Nat]
      /\ merged \in [Branches -> 0 .. MaxCommits]
  BY DEF Inv, TypeOK, ApprovalTableTypeOK, WorktreesTypeOK
<1>1. approval[a].branch \in Branches
  BY <1>0 DEF Row
<1>2. ASSUME NEW p, \/ Start(p) \/ Poll(p) \/ MergeBack(p) \/ Decide(p) \/ Voice(p)
      PROVE  UNCHANGED landed
  BY <1>2
  DEF Start, StartCreate, StartInsert, StartSend, Poll, PollList, PollLook, PollSettle,
      MergeBack, MergeBackDiff, MergeBackInsert,
      Decide, DecideFetch, DecideStore, Voice, VoiceFetch, VoiceStore
<1>3. ExpirySweep \/ Tick \/ Crash \/ Environment \/ UNCHANGED vars => UNCHANGED landed
  BY DEF ExpirySweep, Tick, Crash, Environment, AgentCommit, AgentExit, WindowCloses,
         Operator, vars
<1>4. \/ \E p \in Deciders : Execute(p)
      \/ \E p \in Procs : Failure(p)
  BY <1>2, <1>3 DEF Next
<1>5. PICK p : /\ MergeLands(Target(p))
               /\ landed' = [landed EXCEPT ![local[p].appr] = @ + 1]
  BY <1>4
  DEF Execute, ExecuteBegin, ExecuteMerge, ExecuteRecord, ExecuteFind, ExecuteMark,
      Failure, StoreFails, DecideUnread, ExecuteUnread
<1>6. a = local[p].appr
  BY <1>0, <1>5
<1>7. merged' = [merged EXCEPT ![approval[a].branch] = tip[approval[a].branch]]
  BY <1>5, <1>6 DEF MergeLands, Target
<1> QED
  BY <1>0, <1>1, <1>7

(* From any moment on at which an approval shows all that is on its branch *)
(* and the agent has exited, a merge on its behalf lands what it shows.    *)
LandsAsShown ==
    \A a \in Approvals :
      [](ShowsAll(a) =>
           [][landed'[a] # landed[a]
                => merged'[approval[a].branch] = approval[a].shown]_vars)

\* Commits that go along unseen are those of an agent still at work.
THEOREM ShownIsMerged == Spec => LandsAsShown
<1> SUFFICES ASSUME NEW a \in Approvals
             PROVE  Spec => [](ShowsAll(a) =>
                                 [][landed'[a] # landed[a]
                                      => merged'[approval[a].branch] = approval[a].shown]_vars)
  BY DEF LandsAsShown
<1>1. Inv /\ OwnerInv /\ ShowsAll(a) /\ [Next]_vars => ShowsAll(a)'
  BY ShowsAllKept
<1>2. Inv /\ OwnerInv /\ ShowsAll(a) /\ [Next]_vars =>
        [landed'[a] # landed[a]
           => merged'[approval[a].branch] = approval[a].shown]_vars
  BY LandsTip DEF ShowsAll
<1> QED
  BY <1>1, <1>2, OwnerInit, OwnerNext, Invariant, PTL DEF Spec

-----------------------------------------------------------------------------
(* The run that is set to merged is looked up by the name of its branch.   *)

(* The handler that marks a run has looked its branch name up, and a run   *)
(* is merged only after an approval for a branch of that name has landed.  *)
NameInv ==
    /\ \A p \in Procs :
         At(p, "mark") => Slug(run[local[p].run].branch) = Slug(Target(p))
    /\ \A r \in Runs :
         run[r].status = "merged" =>
           \E a \in Approvals : /\ landed[a] = 1 /\ approval[a].status # "absent"
                                /\ Slug(approval[a].branch) = Slug(run[r].branch)

(* A merge that landed has landed.                                         *)
LEMMA LandedKept ==
  ASSUME Inv, Inv', [Next]_vars, NEW a \in Approvals, landed[a] = 1
  PROVE  landed'[a] = 1
<1>0. landed \in [Approvals -> Nat]
  BY DEF Inv, TypeOK
<1>1. ASSUME NEW p, \/ Start(p) \/ Poll(p) \/ MergeBack(p) \/ Decide(p) \/ Voice(p)
      PROVE  UNCHANGED landed
  BY <1>1
  DEF Start, StartCreate, StartInsert, StartSend, Poll, PollList, PollLook, PollSettle,
      MergeBack, MergeBackDiff, MergeBackInsert,
      Decide, DecideFetch, DecideStore, Voice, VoiceFetch, VoiceStore
<1>2. ExpirySweep \/ Tick \/ Crash \/ Environment \/ UNCHANGED vars => UNCHANGED landed
  BY DEF ExpirySweep, Tick, Crash, Environment, AgentCommit, AgentExit, WindowCloses,
         Operator, vars
<1>3. ASSUME NEW p \in Deciders, Execute(p)
      PROVE  UNCHANGED landed \/ landed' = [landed EXCEPT ![local[p].appr] = @ + 1]
  BY <1>3 DEF Execute, ExecuteBegin, ExecuteMerge, ExecuteRecord, ExecuteFind, ExecuteMark
<1>4. landed'[a] <= 1
  BY DEF Inv, MergesAreApproved
<1>5. ASSUME NEW p \in Procs, Failure(p)
      PROVE  UNCHANGED landed \/ landed' = [landed EXCEPT ![local[p].appr] = @ + 1]
  BY <1>5 DEF Failure, StoreFails, DecideUnread, ExecuteUnread
<1> QED
  BY <1>0, <1>1, <1>2, <1>3, <1>4, <1>5 DEF Next

(* Only the handler of an approval that landed sets a run to merged.       *)
LEMMA MarkedByName ==
  ASSUME Inv, NameInv, [Next]_vars, NEW r \in Runs,
         run'[r].status = "merged", run[r].status # "merged"
  PROVE  \E a \in Approvals : /\ landed[a] = 1 /\ approval[a].status # "absent"
                              /\ Slug(approval[a].branch) = Slug(run[r].branch)
<1>0. /\ run \in [Runs -> [status : RunStatuses, branch : Branches, started : Nat]]
      /\ Starters \cup Listers \cup {Sweep} \cup Deciders \subseteq Procs
  BY WorkbenchAssumption DEF Procs, Inv, TypeOK, RunTableTypeOK
<1>1. ASSUME NEW p, MergeBack(p) \/ Decide(p) \/ Voice(p)
      PROVE  FALSE
  BY <1>1
  DEF MergeBack, MergeBackDiff, MergeBackInsert, Decide, DecideFetch, DecideStore,
      Voice, VoiceFetch, VoiceStore
<1>2. ~(ExpirySweep \/ Tick \/ Crash \/ Environment \/ UNCHANGED vars)
  BY DEF ExpirySweep, Tick, Crash, Environment, AgentCommit, AgentExit, WindowCloses,
         Operator, vars
<1>3. ASSUME NEW p \in Starters, Start(p) PROVE FALSE
  <2>1. UNCHANGED run \/ InsertAgentRun(local[p].run, local[p].branch, local[p].at)
    BY <1>3 DEF Start, StartCreate, StartInsert, StartSend
  <2> QED
    BY <1>0, <2>1 DEF InsertAgentRun
<1>4. ASSUME NEW p \in Listers \cup {Sweep}, Poll(p) PROVE FALSE
  <2>1. /\ At(p, "settle") /\ UpdateAgentRunStatus(local[p].run, local[p].verdict)
    BY <1>4 DEF Poll, PollList, PollLook, PollSettle
  <2>2. local[p].verdict \in {"done", "failed"}
    BY <1>0, <2>1 DEF At, Inv, HeldInv, Held
  <2> QED
    BY <1>0, <2>1, <2>2 DEF UpdateAgentRunStatus
<1>11. ASSUME NEW p \in Procs, Failure(p) PROVE FALSE
  BY <1>11, FailureKeeps
<1>5. PICK p \in Deciders : Execute(p)
  BY <1>1, <1>2, <1>3, <1>4, <1>11 DEF Next
<1>6. At(p, "mark") /\ UpdateAgentRunStatus(local[p].run, "merged")
  BY <1>5 DEF Execute, ExecuteBegin, ExecuteMerge, ExecuteRecord, ExecuteFind, ExecuteMark
<1>7. r = local[p].run
  BY <1>0, <1>6 DEF UpdateAgentRunStatus
<1>8. local[p].appr \in Approvals /\ Executing(p, local[p].appr)
  BY <1>0, <1>6 DEF At, Inv, HeldInv, Held, Executing, ExecutePcs
<1>9. landed[local[p].appr] = 1 /\ approval[local[p].appr].status # "absent"
  BY <1>0, <1>6, <1>8 DEF Inv, ExecutorInv, Approved, At
<1>10. Slug(approval[local[p].appr].branch) = Slug(run[r].branch)
  BY <1>0, <1>6, <1>7 DEF NameInv, Target
<1> QED
  BY <1>8, <1>9, <1>10

(* Whoever is about to mark a run was so before, or has just found it.     *)
LEMMA FoundByName ==
  ASSUME Inv, [Next]_vars, NEW p \in Procs, At(p, "mark")'
  PROVE  \/ local'[p] = local[p]
         \/ /\ local'[p].appr = local[p].appr /\ local[p].pc = "find"
            /\ local'[p].run \in Rows /\ UNCHANGED run
            /\ Slug(run[local'[p].run].branch) = Slug(Target(p))
<1>0. local \in [Procs -> Local] /\ local'[p].pc = "mark"
  BY DEF Inv, TypeOK, At
<1>a. ASSUME NEW q, NEW state, state.pc # "mark", Goto(q, state) PROVE local'[p] = local[p]
  BY <1>0, <1>a DEF Goto
<1>b. ASSUME NEW q, NEW step, step # "mark", Continue(q, step)
      PROVE  local'[p] = local[p]
  BY <1>0, <1>b DEF Continue, Local
<1>c. ASSUME NEW q, Finish(q) PROVE local'[p] = local[p]
  BY <1>0, <1>c DEF Finish, Goto, Idle
<1>1. ASSUME NEW q, Start(q) \/ Poll(q) \/ MergeBack(q) PROVE local'[p] = local[p]
  <2>1. ASSUME NEW r \in Runs, NEW b \in Branches, StartCreate(q, r, b)
        PROVE  local'[p] = local[p]
    BY <1>0, <2>1 DEF StartCreate, Goto, Idle
  <2>2. StartInsert(q) \/ StartSend(q) => local'[p] = local[p]
    BY <1>b, <1>c DEF StartInsert, StartSend
  <2>3. ASSUME NEW r, NextPoll(q, r) PROVE local'[p] = local[p]
    BY <1>0, <2>3 DEF NextPoll, Goto, Idle
  <2>4. PollList(q) => local'[p] = local[p]
    BY <1>0 DEF PollList, Goto, Idle
  <2>5. ASSUME NEW r \in Runs, PollLook(q, r) PROVE local'[p] = local[p]
    BY <1>0, <2>3, <2>5 DEF PollLook, Local
  <2>6. PollSettle(q) => local'[p] = local[p]
    BY <2>3 DEF PollSettle
  <2>7. ASSUME NEW r \in Runs, MergeBackDiff(q, r) PROVE local'[p] = local[p]
    BY <1>0, <2>7 DEF MergeBackDiff, Goto, Idle
  <2>8. ASSUME NEW a \in Approvals, MergeBackInsert(q, a) PROVE local'[p] = local[p]
    BY <1>c, <2>8 DEF MergeBackInsert
  <2> QED
    BY <1>1, <2>1, <2>2, <2>4, <2>5, <2>6, <2>7, <2>8 DEF Start, Poll, MergeBack
<1>2. ASSUME NEW q, Decide(q) \/ Voice(q) PROVE local'[p] = local[p]
  <2>1. ASSUME NEW a \in Approvals, NEW verdict \in Verdicts,
               DecideFetch(q, a, verdict) \/ VoiceFetch(q, a, verdict)
        PROVE  local'[p] = local[p]
    BY <1>0, <2>1 DEF DecideFetch, VoiceFetch, Goto, Idle
  <2>2. DecideStore(q) \/ VoiceStore(q) => local'[p] = local[p]
    BY <1>b, <1>c DEF DecideStore, DecideRefused, VoiceStore
  <2> QED
    BY <1>2, <2>1, <2>2 DEF Decide, Voice
<1>3. ExpirySweep \/ Tick \/ Environment \/ UNCHANGED vars => local'[p] = local[p]
  BY DEF ExpirySweep, Tick, Environment, AgentCommit, AgentExit, WindowCloses, Operator, vars
<1>4. ~Crash
  BY <1>0 DEF Crash, Idle
<1>5. ASSUME NEW q \in Deciders, Execute(q), ~ExecuteFind(q) PROVE local'[p] = local[p]
  <2>1. ExecuteBegin(q) => local'[p] = local[p]
    BY <1>0, <1>c DEF ExecuteBegin, Local
  <2>2. ExecuteMerge(q) \/ ExecuteRecord(q) \/ ExecuteMark(q) => local'[p] = local[p]
    BY <1>b, <1>c DEF ExecuteMerge, ExecuteRecord, ExecuteMark
  <2> QED
    BY <1>5, <2>1, <2>2 DEF Execute
<1>6. ASSUME NEW q \in Deciders, ExecuteFind(q)
      PROVE  \/ local'[p] = local[p]
             \/ /\ local'[p].appr = local[p].appr /\ local[p].pc = "find"
                /\ local'[p].run \in Rows /\ UNCHANGED run
                /\ Slug(run[local'[p].run].branch) = Slug(Target(p))
  <2>1. CASE q # p
    BY <1>0, <1>6, <2>1 DEF ExecuteFind, Goto, Finish
  <2>2. CASE q = p
    <3>1. ~Finish(p)
      BY <1>0 DEF Finish, Goto, Idle
    <3>2. PICK r \in Rows : /\ Slug(run[r].branch) = Slug(Target(p))
                            /\ local' = [local EXCEPT ![p].pc = "mark", ![p].run = r]
      BY <1>6, <2>2, <3>1 DEF ExecuteFind
    <3>3. local[p] \in Local
      BY <1>0
    <3>4. local'[p] = [[local[p] EXCEPT !.pc = "mark"] EXCEPT !.run = r]
      BY <1>0, <3>2
    <3>5. local'[p].run = r /\ local'[p].appr = local[p].appr
      BY <3>3, <3>4 DEF Local
    <3>6. local[p].pc = "find" /\ UNCHANGED run
      BY <1>6, <2>2 DEF ExecuteFind, At
    <3> QED
      BY <3>2, <3>5, <3>6
  <2> QED
    BY <2>1, <2>2
<1>7. ASSUME NEW q \in Procs, Failure(q) PROVE local'[p] = local[p]
  BY <1>0, <1>7, FailureKeeps
<1> QED
  BY <1>1, <1>2, <1>3, <1>4, <1>5, <1>6, <1>7 DEF Next

(* A run is born running.                                                  *)
LEMMA MergedWasThere ==
  ASSUME Inv, [Next]_vars, NEW r \in Runs, run'[r].status = "merged"
  PROVE  r \in Rows
<1>0. /\ run \in [Runs -> [status : RunStatuses, branch : Branches, started : Nat]]
      /\ Starters \cup Listers \cup {Sweep} \cup Deciders \subseteq Procs
  BY WorkbenchAssumption DEF Procs, Inv, TypeOK, RunTableTypeOK
<1>1. ASSUME NEW q \in Rows, NEW status, UpdateAgentRunStatus(q, status) PROVE r \in Rows
  BY <1>0, <1>1 DEF UpdateAgentRunStatus, Rows
<1>2. UNCHANGED run => r \in Rows
  BY DEF Rows
<1>3. ASSUME NEW p, \/ MergeBack(p) \/ Decide(p) \/ Voice(p) \/ PollList(p)
                    \/ \E q \in Runs : PollLook(p, q)
      PROVE  UNCHANGED run
  BY <1>3
  DEF MergeBack, MergeBackDiff, MergeBackInsert, Decide, DecideFetch, DecideStore,
      Voice, VoiceFetch, VoiceStore, PollList, PollLook
<1>4. ExpirySweep \/ Tick \/ Crash \/ Environment \/ UNCHANGED vars => UNCHANGED run
  BY DEF ExpirySweep, Tick, Crash, Environment, AgentCommit, AgentExit, WindowCloses,
         Operator, vars
<1>5. ASSUME NEW p \in Starters, Start(p) PROVE r \in Rows
  <2>1. UNCHANGED run \/ InsertAgentRun(local[p].run, local[p].branch, local[p].at)
    BY <1>5 DEF Start, StartCreate, StartInsert, StartSend
  <2> QED
    BY <1>0, <1>2, <2>1 DEF InsertAgentRun, Rows
<1>6. ASSUME NEW p \in Listers \cup {Sweep}, PollSettle(p) PROVE r \in Rows
  BY <1>0, <1>1, <1>6 DEF PollSettle, At, Inv, HeldInv, Held
<1>7. ASSUME NEW p \in Deciders, Execute(p) PROVE r \in Rows
  <2>1. \/ UNCHANGED run
        \/ At(p, "mark") /\ UpdateAgentRunStatus(local[p].run, "merged")
    BY <1>7 DEF Execute, ExecuteBegin, ExecuteMerge, ExecuteRecord, ExecuteFind, ExecuteMark
  <2> QED
    BY <1>0, <1>1, <1>2, <2>1 DEF At, Inv, HeldInv, Held
<1>8. ASSUME NEW p \in Procs, Failure(p) PROVE UNCHANGED run
  BY <1>8, FailureKeeps
<1> QED
  BY <1>2, <1>3, <1>4, <1>5, <1>6, <1>7, <1>8 DEF Next, Poll

LEMMA NameNext == Inv /\ Inv' /\ NameInv /\ [Next]_vars => NameInv'
<1> SUFFICES ASSUME Inv, Inv', NameInv, [Next]_vars PROVE NameInv'
  OBVIOUS
<1>1. ASSUME NEW p \in Procs, At(p, "mark")'
      PROVE  Slug(run'[local'[p].run].branch) = Slug(approval'[local'[p].appr].branch)
  <2>1. CASE local'[p] = local[p]
    <3>1. At(p, "mark") /\ local[p].run \in Rows /\ local[p].appr \in Approvals
      BY <1>1, <2>1 DEF At, Inv, HeldInv, Held, ExecutePcs
    <3>2. approval[local[p].appr].status # "absent"
      BY <3>1 DEF At, Inv, ExecutorInv, Executing, ExecutePcs, Approved
    <3>3. approval'[local[p].appr].branch = approval[local[p].appr].branch
      BY <3>1, <3>2, SubjectKept
    <3>4. run'[local[p].run].branch = run[local[p].run].branch
      BY <3>1, RowKept
    <3> QED
      BY <2>1, <3>1, <3>3, <3>4 DEF NameInv, Target
  <2>2. CASE /\ local'[p].appr = local[p].appr /\ local[p].pc = "find"
             /\ local'[p].run \in Rows /\ UNCHANGED run
             /\ Slug(run[local'[p].run].branch) = Slug(Target(p))
    <3>1. local[p].appr \in Approvals
      BY <2>2 DEF Inv, HeldInv, Held, ExecutePcs
    <3>2. approval[local[p].appr].status # "absent"
      BY <2>2, <3>1 DEF Inv, ExecutorInv, Executing, ExecutePcs, Approved
    <3>3. approval'[local[p].appr].branch = approval[local[p].appr].branch
      BY <3>1, <3>2, SubjectKept
    <3> QED
      BY <2>2, <3>3 DEF Target
  <2> QED
    BY <1>1, <2>1, <2>2, FoundByName
<1>2. ASSUME NEW r \in Runs, run'[r].status = "merged"
      PROVE  \E a \in Approvals : /\ landed'[a] = 1 /\ approval'[a].status # "absent"
                                  /\ Slug(approval'[a].branch) = Slug(run'[r].branch)
  <2>1. PICK a \in Approvals : /\ landed[a] = 1 /\ approval[a].status # "absent"
                               /\ Slug(approval[a].branch) = Slug(run[r].branch)
    BY <1>2, MarkedByName DEF NameInv
  <2>2. r \in Rows
    BY <1>2, MergedWasThere
  <2> QED
    BY <2>1, <2>2, LandedKept, SubjectKept, RowKept
<1> QED
  BY <1>1, <1>2 DEF NameInv, Target

(* Rows of two runs never have one branch, nor so one worktree.            *)
BranchesAreOwn == \A r, q \in Rows : run[r].branch = run[q].branch => r = q

\* Whoever starts runs at the same time, with whatever names and faults.
THEOREM OwnBranches == Spec => []BranchesAreOwn
<1>1. OwnerInv => BranchesAreOwn
  BY DEF OwnerInv, BranchesAreOwn
<1> QED
  BY <1>1, OwnerInit, OwnerNext, Invariant, PTL DEF Spec

(* A merged run has the branch name of a merge that landed.                *)
MergedByName ==
    \A r \in Runs :
      run[r].status = "merged" =>
        \E a \in Approvals :
          landed[a] = 1 /\ Slug(approval[a].branch) = Slug(run[r].branch)

\* That is all a lookup by name can promise.
THEOREM NamesAreLanded == Spec => []MergedByName
<1>1. Init => NameInv
  BY DEF Init, RunTableInit, NameInv, At, Idle
<1>2. NameInv => MergedByName
  BY DEF NameInv, MergedByName
<1> QED
  BY <1>1, <1>2, NameNext, Invariant, PTL DEF Spec

\* Where there is one project that is enough: the run set to merged is the one whose
\* branch landed.
THEOREM MergedIsLanded ==
  ASSUME NEW prj, Projects = {prj}
  PROVE  Spec => [](\A r \in Runs :
                      run[r].status = "merged" =>
                        \E a \in Approvals :
                          landed[a] = 1 /\ approval[a].branch = run[r].branch)
<1>1. TypeOK /\ MergedByName =>
        \A r \in Runs :
          run[r].status = "merged" =>
            \E a \in Approvals : landed[a] = 1 /\ approval[a].branch = run[r].branch
  BY DEF TypeOK, RunTableTypeOK, ApprovalTableTypeOK, Row, MergedByName, Branches, Slug
<1> QED
  BY <1>1, TypeCorrect, NamesAreLanded, PTL
=============================================================================
