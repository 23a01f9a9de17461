--------------------------- MODULE ApprovalTable ---------------------------
(***************************************************************************)
(* The `approvals` table of rat-store.  One thread owns the SQLite         *)
(* connection and takes commands from a channel, so each operator below,   *)
(* the body of one command, is atomic; what a handler does between two     *)
(* commands is not.                                                        *)
(*                                                                         *)
(* A row keeps what decisions and merges depend on: the status, the branch *)
(* and worktree of the payload, the branch tip the stored diff was taken   *)
(* from, the expiry, who decided and when, and when the recorded           *)
(* execution began.  Titles, reasons and diffs are left out.               *)
(***************************************************************************)
EXTENDS Integers, WorkbenchIds

VARIABLE approval     \* the table: one row per id, "absent" before INSERT

Verdicts == {"approved", "denied"}

Statuses == Verdicts \cup {"absent", "pending", "expired"}

Never == -1           \* SQL NULL in a column that holds a time

Row == [status    : Statuses,
        branch    : Branches,
        cwd       : Runs \cup {NoRun},
        shown     : Nat,
        expires   : Nat,
        via       : {"nobody", "cli", "voice"},
        decidedAt : Nat \cup {Never},
        started   : Nat \cup {Never}]

ApprovalTableTypeOK == approval \in [Approvals -> Row]

AbsentRow == [status |-> "absent", branch |-> SomeBranch,
              cwd |-> NoRun, shown |-> 0, expires |-> 0, via |-> "nobody",
              decidedAt |-> Never, started |-> Never]

ApprovalTableInit == approval = [a \in Approvals |-> AbsentRow]

Pending(a)  == approval[a].status = "pending"
Approved(a) == approval[a].status = "approved"
Decided(a)  == approval[a].status \in Verdicts

-----------------------------------------------------------------------------
(* INSERT: a fresh id, always born pending.                                *)
InsertApproval(a, branch, cwd, shown, expires) ==
    /\ approval[a].status = "absent"
    /\ approval' = [approval EXCEPT ![a] =
                      [AbsentRow EXCEPT !.status  = "pending",
                                        !.branch  = branch,
                                        !.cwd     = cwd,
                                        !.shown   = shown,
                                        !.expires = expires]]

\* A bug: the row is updated whatever its status is.
DecideUnchecked(a, verdict, at, via) ==
    approval' = [approval EXCEPT ![a].status    = verdict,
                                 ![a].decidedAt = at,
                                 ![a].via       = via]

(* The row must be pending, its expiry is not looked at.  A row in another *)
(* status is the InvalidState error, a step of the caller's.               *)
DecideApproval(a, verdict, at, via) ==
    /\ Pending(a)
    /\ approval' = [approval EXCEPT ![a].status    = verdict,
                                    ![a].decidedAt = at,
                                    ![a].via       = via]

(* An UPDATE by id that asks nothing of the row.                           *)
SetApprovalExecution(a, started) ==
    approval' = [approval EXCEPT ![a].started = started]

\* A bug: `expires_at < now - window` where `<= now` is meant.
ExpireNothing(now) == UNCHANGED approval

(* UPDATE ... WHERE status = 'pending' AND expires_at <= now               *)
ExpireApprovals(now) ==
    approval' = [a \in Approvals |->
                   IF Pending(a) /\ approval[a].expires <= now
                     THEN [approval[a] EXCEPT !.status = "expired"]
                     ELSE approval[a]]
=============================================================================
