--------------------------- MODULE ApprovalLedger ---------------------------
(***************************************************************************)
(* What the approval service promises, without connections, sweeps,        *)
(* tables or git: a proposal is decided once or expires, and only an       *)
(* approved one may act on the live repository, at most once.              *)
(*                                                                         *)
(* Workbench implements this specification, with `phase` read off the      *)
(* approvals table and the live repository's log.                          *)
(***************************************************************************)
CONSTANT Approvals

VARIABLE phase

Phases == {"absent", "pending", "approved", "denied", "expired", "landed"}

LedgerInit == phase = [a \in Approvals |-> "absent"]

Move(a, from, to) ==
    /\ phase[a] = from
    /\ phase' = [phase EXCEPT ![a] = to]

Propose(a) == Move(a, "absent", "pending")

Approve(a) == Move(a, "pending", "approved")

Deny(a)    == Move(a, "pending", "denied")

Land(a)    == Move(a, "approved", "landed")

\* One sweep expires every overdue proposal at once.
Expire(S) ==
    /\ \A a \in S : phase[a] = "pending"
    /\ phase' = [a \in Approvals |-> IF a \in S THEN "expired" ELSE phase[a]]

LedgerNext ==
    \/ \E a \in Approvals : Propose(a) \/ Approve(a) \/ Deny(a) \/ Land(a)
    \/ \E S \in SUBSET Approvals : Expire(S)

LedgerSpec == LedgerInit /\ [][LedgerNext]_phase
=============================================================================
