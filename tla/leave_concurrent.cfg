SPECIFICATION Spec
CONSTANTS
    r1 = r1
    r2 = r2
    h1 = h1
    h2 = h2
    user = user
    early = early
    late = late
    apart = apart
    NoPeriod = NoPeriod
    Requests <- OneRequest
    Owner <- OneUser
    Periods <- TwoPeriods
    First <- FirstDay
    Last <- LastDay
    Workless <- OnlyLate
    MaxDay = 2
    ScalesBalance <- OneRequest
    RequiresApproval <- OneRequest
    Handlers <- TwoHandlers
    Ops <- AllOps
    Direct = TRUE
CHECK_DEADLOCK FALSE
INVARIANT TypeOK
INVARIANT UsageOnce
INVARIANT ChargedWhenApproved
INVARIANT RefundAnswersCharge
INVARIANT LockedRefundOnce
INVARIANT UnracedRefundOnce
PROPERTY WithdrawalRefunds
INVARIANT FlagMatchesLedger
PROPERTY LedgerKeepsAccounts
