SPECIFICATION Spec
CONSTANTS
    r1 = r1
    r2 = r2
    h1 = h1
    h2 = h2
    user = user
    early = early
    late = late
    apart = apart
    NoPeriod = NoPeriod
    Requests <- TwoRequests
    Owner <- OneUser
    Periods <- ThreePeriods
    First <- FirstDay
    Last <- LastDay
    Workless <- OnlyLate
    MaxDay = 0
    ScalesBalance <- OneRequest
    RequiresApproval <- OneRequest
    Handlers <- TwoHandlers
    Ops <- AllButReopenModify
    Direct = FALSE
SYMMETRY Interchangeable
CHECK_DEADLOCK FALSE
INVARIANT ChargedForItsDates
INVARIANT NoDoubleBooking
