------------------------------ MODULE RunTable ------------------------------
(***************************************************************************)
(* The `agent_runs` table of rat-store, one operator per command of the    *)
(* store thread.  A row keeps its status, its branch and the start time    *)
(* the listings are ordered by.                                            *)
(***************************************************************************)
EXTENDS Integers, FiniteSets, WorkbenchIds

VARIABLE run          \* the table: one row per id, "absent" before INSERT

RunStatuses == {"absent", "running", "done", "failed", "merged"}

RunTableTypeOK ==
    run \in [Runs -> [status : RunStatuses, branch : Branches, started : Nat]]

RunTableInit ==
    run = [r \in Runs |-> [status  |-> "absent",
                           branch  |-> SomeBranch,
                           started |-> 0]]

Rows == {r \in Runs : run[r].status # "absent"}

Running(r) == run[r].status = "running"

-----------------------------------------------------------------------------
(* INSERT: a run is born running.                                          *)
InsertAgentRun(r, branch, started) ==
    /\ r \notin Rows
    /\ run' = [run EXCEPT ![r] = [status  |-> "running",
                                  branch  |-> branch,
                                  started |-> started]]

(* UPDATE by id, whatever status the row has by now.                       *)
UpdateAgentRunStatus(r, status) == run' = [run EXCEPT ![r].status = status]

\* A bug: ORDER BY started ASC.
OldestAgentRuns(n, S) ==
    /\ S \subseteq Rows
    /\ Cardinality(S) = IF Cardinality(Rows) < n THEN Cardinality(Rows) ELSE n
    /\ \A r \in S, newer \in Rows \ S : run[newer].started >= run[r].started

(* S may be the answer of SELECT ... ORDER BY started DESC LIMIT n: rows   *)
(* started at the same instant come in an order SQL leaves open.           *)
RecentAgentRuns(n, S) ==
    /\ S \subseteq Rows
    /\ Cardinality(S) = IF Cardinality(Rows) < n THEN Cardinality(Rows) ELSE n
    /\ \A r \in S, older \in Rows \ S : run[older].started <= run[r].started
=============================================================================
