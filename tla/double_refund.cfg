SPECIFICATION Spec
CONSTANTS
    r1 = r1
    r2 = r2
    h1 = h1
    h2 = h2
    user = user
    early = early
    late = late
    apart = apart
    NoPeriod = NoPeriod
    Requests <- OneRequest
    Owner <- OneUser
    Periods <- TwoPeriods
    First <- FirstDay
    Last <- LastDay
    Workless = {}
    MaxDay = 0
    ScalesBalance <- OneRequest
    RequiresApproval <- OneRequest
    Handlers <- TwoHandlers
    Ops <- AllOps
    Direct = FALSE
CHECK_DEADLOCK FALSE
INVARIANT RefundOnce
