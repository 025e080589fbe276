SPECIFICATION Spec
CONSTANTS
    r1 = r1
    r2 = r2
    h1 = h1
    h2 = h2
    Requests <- TwoRequests
    Days <- OneEach
    Counted <- TwoRequests
    Handlers <- TwoHandlers
    LastMonth = 2
    Worked <- FullThenShort
    Policies <- DefaultAndLax
    Cent = 3
    Rate = 4
    MinDays = 15
    MaxRuns = 1
    MaxAmount = 3
SYMMETRY Interchangeable
INVARIANT TypeOK
INVARIANT RecalculationWithinContract
INVARIANT AccrualsAgree
PROPERTY PendingIsCovered
