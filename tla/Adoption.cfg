SPECIFICATION Spec
CONSTANTS
    Missing = Missing
    Submission <- MCSubmission
    Option <- MCOption
    MaxEdits = 1
INVARIANTS
    VerdictReproducible
    IssuedOnEvidence
    AnchorsTellApart
CHECK_DEADLOCK FALSE
