SPECIFICATION Spec
CONSTANTS
    w = w
    aw = aw
    rd = rd
    Owner = "main"
    Behaviours = 0
    Verdict = {"ALLOW", "FLAG", "BLOCK"}
    Call <- AsyncCall
    KindOf <- AsyncKindOf
    ThreadOf <- AsyncThreadOf
INVARIANTS
    EveryCommittedWriteJournaled
CHECK_DEADLOCK FALSE
