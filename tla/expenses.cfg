SPECIFICATION Spec
CONSTANTS
    t1 = t1
    r1 = r1
    h1 = h1
    h2 = h2
    short = short
    long = long
    NoTrip = NoTrip
    Trips <- OneTrip
    Reports <- OneReport
    Periods <- TwoPeriods
    First <- FirstDay
    Last <- LastDay
    Handlers <- TwoHandlers
    MaxApprovals = 2
SYMMETRY Interchangeable
CHECK_DEADLOCK FALSE
INVARIANT TypeOK
INVARIANT AllowancesOnce
INVARIANT ApprovedTripHasAllowances
INVARIANT LinkedTripExists
INVARIANT PaidWasApproved
INVARIANT AllowancesMatchDates
INVARIANT PaymentPerApproval
