SPECIFICATION MCSpec
CONSTANTS
    w = w
    aw = aw
    rd = rd
    Owner = "main"
    Behaviours = 2
    Verdict = {"ALLOW", "FLAG", "BLOCK"}
    Call <- PolicyCall
    KindOf <- PolicyKindOf
    ThreadOf <- PolicyThreadOf
    Deployment <- PolicyDeployment
    Request <- PolicyRequest
    DecisionRef <- PolicyDecisionRef
INVARIANTS
    NoUngovernedWrite
    DenialsOnRecord
    PolicyEnforced
    EvidenceInOrder
    SynchronousWritesJournaled
    ExecutionsJournaledOnce
CHECK_DEADLOCK FALSE
