SPECIFICATION Spec
CONSTANTS
    r1 = r1
    r2 = r2
    h1 = h1
    h2 = h2
    Requests <- TwoRequests
    Days <- OneAndTwo
    Counted <- TwoRequests
    Handlers <- TwoHandlers
    LastMonth = 1
    Worked <- OneFull
    Policies <- DefaultPolicy
    Cent = 3
    Rate = 4
    MinDays = 15
    MaxRuns = 1
    MaxAmount = 6
CHECK_DEADLOCK FALSE
PROPERTY ApprovedIsReserved
