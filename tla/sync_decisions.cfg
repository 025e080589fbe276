SPECIFICATION SyncSpec
CONSTANTS
    r1 = r1
    h1 = h1
    h2 = h2
    user = user
    early = early
    NoPeriod = NoPeriod
    Requests <- OneRequest
    Owner <- OneUser
    Periods <- OnePeriod
    First <- FirstDay
    Last <- LastDay
    Workless = {}
    MaxDay = 0
    ScalesBalance <- OneRequest
    RequiresApproval <- OneRequest
    Handlers <- TwoHandlers
    Ops <- OpsUntilApproved
    Direct = FALSE
    Answers <- Verdicts
    Lossy = TRUE
    MaxLate = 1
SYMMETRY Interchangeable
CHECK_DEADLOCK FALSE
INVARIANT SyncTypeOK
INVARIANT SubmittedHasApproval
INVARIANT ApprovedByDecision
PROPERTY LeavesKeepTheirWorkflow
