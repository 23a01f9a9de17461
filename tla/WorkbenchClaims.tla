-------------------------- MODULE WorkbenchClaims --------------------------
(***************************************************************************)
(* What the documentation and the comments say of the workbench and the    *)
(* code does not keep.  Each run of this module checks one of them and     *)
(* ends in a counterexample; README.md tells the story of each.            *)
(***************************************************************************)
EXTENDS Workbench

(* A poll does nothing to a run in a terminal status (runner.rs:180), so a *)
(* merged run stays merged.  But the poll looks at the status of a row it  *)
(* has read, and writes after tmux and the store have answered.            *)
MergedRunStaysMerged ==
    [][\A r \in Runs :
         run[r].status = "merged" => run'[r].status = "merged"]_vars

(* On success the run associated with the approval is set to merged        *)
(* (runner.rs:346): a merged run is one whose branch landed.  But the run  *)
(* is looked up by branch name, which runs of two projects may share.      *)
MergedRunLanded ==
    \A r \in Runs :
      run[r].status = "merged" =>
        \E a \in Approvals : approval[a].branch = run[r].branch /\ landed[a] = 1
=============================================================================
