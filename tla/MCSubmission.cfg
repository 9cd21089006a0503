SPECIFICATION Spec
CONSTANTS
    k1 = k1
    k2 = k2
    None = None
    Snapshot <- MCSnapshot
    Options <- MCOptions
    ContractKey = k1
    Bps = 10
    NReserves = 2
    MaxReserve = 15
    CompareMax = 63
    R = 97
    U64Max = 1
    U128Max = 80
    MaxAttempts = 2
    MaxRuns = 2
INVARIANTS
    LedgerKeepsPolicy
    AuditExplainsLedger
    ReceiptsTruthful
    RefusalsFinal
PROPERTIES
    SoundRunsLand
CHECK_DEADLOCK FALSE
