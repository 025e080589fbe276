--------------------------- MODULE MCApprovalSync --------------------------
(* Small instances of ApprovalSync: one leave and two handlers.                   *)
EXTENDS ApprovalSync, TLC

CONSTANTS r1, h1, h2, user, early

OneRequest == {r1}
TwoHandlers == {h1, h2}
Interchangeable == Permutations(Handlers)
OnePeriod == {early}
OneUser == [r \in OneRequest |-> user]
FirstDay == [p \in Periods |-> 1]
LastDay == [p \in Periods |-> 2]
OpsUntilApproved == {"submit", "cancel", "approve", "approve_conditional", "accept", "reject"}
Plain == {"APPROVED", "REJECTED"}
Verdicts == {"APPROVED", "REJECTED", "APPROVED_CONDITIONAL"}
OpsOfSubmission == {"submit", "approve", "reject", "approve_conditional"}
=============================================================================
