SPECIFICATION Spec
CONSTANTS
    h1 = h1
    h2 = h2
    x1 = x1
    x2 = x2
    Receipt <- MCReceipt
    Issuer <- MCIssuer
    MaxLength = 3
    MaxEdits = 1
SYMMETRY RetentionSymmetry
INVARIANTS
    PinnedVerifyIsExact
    LegacyPinReachesBack
    AcceptedFromOrigin
    IssuedVerifies
CHECK_DEADLOCK FALSE
