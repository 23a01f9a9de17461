---------------------------- MODULE WorkbenchIds ----------------------------
(* The names the workbench modules share.                                  *)

CONSTANTS Projects,   \* projects, each a live git repository of the operator
          Slugs,      \* task titles, as title_to_slug spells them
          Runs,       \* ids of agent runs; a run's worktree has its name
          NoRun,      \* the worktree of an approval id not yet in use
          Approvals,  \* ids of approval rows
          NoApproval  \* what a process that handles no approval holds

ASSUME IdsAssumption ==
    /\ NoRun \notin Runs
    /\ NoApproval \notin Approvals
    /\ Projects # {} /\ Slugs # {}

\* Branch rato/<slug> of the repository of a project.
Branches == Projects \X Slugs

Project(b) == b[1]
Slug(b)    == b[2]

SomeBranch == CHOOSE b \in Branches : TRUE
=============================================================================
