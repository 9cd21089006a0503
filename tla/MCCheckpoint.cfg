SPECIFICATION CheckpointSpec
CONSTANTS
    process1 = process1
    process2 = process2
    issuer1 = issuer1
    issuer2 = issuer2
    contract1 = contract1
    contract2 = contract2
    Process = {process1, process2}
    Issuer = {issuer1, issuer2}
    Period = {1}
    Deployment = {contract1}
    None = None
    MaxSaves = 3
    MaxCrashes = 2
SYMMETRY MCSymmetry
INVARIANTS
    LoadFaithful
    SavedSurvives
CHECK_DEADLOCK FALSE
