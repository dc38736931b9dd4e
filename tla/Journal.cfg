SPECIFICATION MCSpec
CONSTANTS
    c1 = c1
    c2 = c2
    r1 = r1
    execution = execution
    executionExtra = executionExtra
    behaviour = behaviour
    broken = broken
    NoConn = NoConn
    NoRecord = NoRecord
    MaxEntries = 2
    MaxKept = 3
    MaxEdits = 2
    Conn <- MCConn
    Reader <- MCReader
    Record <- MCRecord
    ValidRecord <- MCValid
    Ref <- MCRef
    Label <- MCLabel
    RefOf <- MCRefOf
    LabelOf <- MCLabelOf
INVARIANTS
    TypeOK
    JournalVerifies
    ReceiptsHold
    ReadersAgree
    PinnedVerifyIsExact
    UnpinnedVerifyIsAPrefix
PROPERTIES
    ImplementsAuditLog
    EveryCallEnds
CHECK_DEADLOCK FALSE
