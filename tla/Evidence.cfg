SPECIFICATION Spec
CONSTANTS
    Word = "word"
    Foreign = {"ours", "theirs"}
    Theirs = "ours"
    Kind = {"record", "delegation", "revocation", "lifecycle"}
    Value <- MCValue
    MaxLinks = 3
    MaxEdits <- MCMaxEdits
INVARIANTS
    TypeOK
    RecordsPinned
    ChainsPinned
    LifecycleTraced
CHECK_DEADLOCK FALSE
