-------------------------- MODULE MCLeaveWorkflow --------------------------
(* Small instances of LeaveWorkflow: two requests of one user, and intervals of   *)
(* which two share a day; the calendar reaches the first day of the second.       *)
EXTENDS LeaveWorkflow, TLC

CONSTANTS r1, r2, h1, h2, user, early, late, apart

OneRequest == {r1}
TwoRequests == {r1, r2}
TwoHandlers == {h1, h2}
TwoPeriods == {early, late}
ThreePeriods == {early, late, apart}
OnlyLate == {late}
OneUser == [r \in TwoRequests |-> user]
FirstDay == [p \in Periods |-> CASE p = early -> 1 [] p = late -> 2 [] p = apart -> 4]
LastDay == [p \in Periods |-> CASE p = early -> 2 [] p = late -> 3 [] p = apart -> 4]
Interchangeable == Permutations(Handlers)
AllButReopenModify == AllOps \ {"reopen", "modify"}
=============================================================================
