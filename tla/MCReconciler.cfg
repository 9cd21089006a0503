SPECIFICATION ReconcilerSpec
CONSTANTS
    issuer1 = issuer1
    issuer2 = issuer2
    None = None
    Address = {issuer1, issuer2}
    Version = {1, 2}
    Period = {0, 1}
    Targets <- MCTargets
    MaxAttempts = 2
    MaxLines = 3
INVARIANTS
    IndexSound
    SnapshotsCatchUp
    SuccessMeansCaughtUp
    RetryDiscipline
CHECK_DEADLOCK FALSE
