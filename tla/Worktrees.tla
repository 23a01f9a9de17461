----------------------------- MODULE Worktrees -----------------------------
(***************************************************************************)
(* What rat-workbench/src/worktree.rs asks of git.  Of a branch the model  *)
(* keeps how many commits it has (commit k contains the commits before     *)
(* it), how many of them the live branch contains, and whether a merge     *)
(* into the live HEAD would conflict; of a repository, whether a failed    *)
(* `git merge` left it in the middle of a merge.                           *)
(***************************************************************************)
EXTENDS Integers, WorkbenchIds

CONSTANT MaxCommits   \* bound: commits an agent makes on a branch

ASSUME MaxCommitsAssumption == MaxCommits \in Nat

VARIABLES tip,        \* commits on a branch, NoBranch while it does not exist
          merged,     \* commits of a branch the live HEAD contains
          conflict,   \* the branches that conflict with the live HEAD
          unfinished  \* projects whose live repository is mid-merge

worktreeVars == <<tip, merged, conflict, unfinished>>

NoBranch == -1

Exists(b) == tip[b] # NoBranch

WorktreesTypeOK ==
    /\ tip        \in [Branches -> 0 .. MaxCommits \cup {NoBranch}]
    /\ merged     \in [Branches -> 0 .. MaxCommits]
    /\ conflict   \in SUBSET Branches
    /\ unfinished \in SUBSET Projects

WorktreesInit ==
    /\ tip = [b \in Branches |-> NoBranch]
    /\ merged = [b \in Branches |-> 0]
    /\ conflict = {}
    /\ unfinished = {}

\* The branches of a project that have something to merge.
Ahead(p) == {b \in Branches : Project(b) = p /\ Exists(b) /\ tip[b] > merged[b]}

\* New history in project p decides anew which branches of `among` conflict.
Reconsider(p, among) ==
    \E c \in SUBSET among :
      conflict' = {b \in conflict : Project(b) # p} \cup c

-----------------------------------------------------------------------------
(* `git worktree add -b rato/<slug>` fails when the branch exists.         *)
CreateWorktree(b) ==
    /\ ~Exists(b)
    /\ tip' = [tip EXCEPT ![b] = 0]
    /\ UNCHANGED <<merged, conflict, unfinished>>

(* `git merge-tree --write-tree HEAD <branch>` looks at commits only: a    *)
(* dirty or half-merged working tree does not make it fail.                *)
IsFastMergeable(b) == Exists(b) /\ b \notin conflict

(* `git merge --no-ff <branch>` merges whatever the branch name denotes    *)
(* now.  Other branches of the project may conflict with the new HEAD.     *)
MergeLands(b) ==
    /\ IsFastMergeable(b)
    /\ Project(b) \notin unfinished
    /\ merged' = [merged EXCEPT ![b] = tip[b]]
    /\ Reconsider(Project(b), Ahead(Project(b)) \ {b})
    /\ UNCHANGED <<tip, unfinished>>

(* The merge stops at a conflict and the code does not abort it.           *)
MergeStops(b) ==
    /\ Exists(b) /\ b \in conflict
    /\ Project(b) \notin unfinished
    /\ unfinished' = unfinished \cup {Project(b)}
    /\ UNCHANGED <<tip, merged, conflict>>

(* git refuses to begin: local changes in the way, or a merge not yet      *)
(* concluded.  Nothing moves.                                              *)
MergeRefused(b) == UNCHANGED worktreeVars

-----------------------------------------------------------------------------
(* The agent's and the operator's own use of git.                          *)

Commit(b) ==
    /\ Exists(b) /\ tip[b] < MaxCommits
    /\ tip' = [tip EXCEPT ![b] = @ + 1]
    /\ \E c \in {{}, {b}} : conflict' = (conflict \ {b}) \cup c
    /\ UNCHANGED <<merged, unfinished>>

OperatorCommit(p) ==
    /\ Reconsider(p, Ahead(p))
    /\ UNCHANGED <<tip, merged, unfinished>>

OperatorAbortsMerge(p) ==
    /\ p \in unfinished
    /\ unfinished' = unfinished \ {p}
    /\ UNCHANGED <<tip, merged, conflict>>
=============================================================================
