SPECIFICATION Spec
CONSTANTS
    ann = ann
    bob = bob
    eve = eve
    root = root
    h1 = h1
    h2 = h2
    Approvers <- ThreeApprovers
    Admins <- TwoAdmins
    Handlers <- TwoHandlers
    MaxRows = 4
SYMMETRY Interchangeable
CHECK_DEADLOCK FALSE
INVARIANT TypeOK
INVARIANT EngineQuorum
INVARIANT LevelComplete
INVARIANT DecidedInOrder
