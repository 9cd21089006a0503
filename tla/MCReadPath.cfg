SPECIFICATION FairReadSpec
CONSTANTS
    issuer1 = issuer1
    None = None
    Address = {issuer1}
    Version = {1, 2}
    Period = {0, 1}
    Targets <- MCTargets
    MaxAttempts = 2
    MaxCalls = 2
    MaxLines = 3
INVARIANTS
    CallBudget
PROPERTIES
    ImplementsReconciler
    ReadsEnd
    EventuallyIndexed
CHECK_DEADLOCK FALSE
