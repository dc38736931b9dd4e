SPECIFICATION Spec
CONSTANTS
    n1 = n1
    n2 = n2
    n3 = n3
    Name <- MCName
    Content <- MCContent
    Act <- MCAct
    MaxSafe = 3
    MaxLinks = 3
    MaxEdits = 1
SYMMETRY ChainSymmetry
INVARIANTS
    TamperDiverges
    PinnedCommits
    PinnedAssertionsHold
    JourneyCovers
    RecurringBounded
CHECK_DEADLOCK FALSE
