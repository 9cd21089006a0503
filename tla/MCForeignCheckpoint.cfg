SPECIFICATION CheckpointSpec
CONSTANTS
    process1 = process1
    process2 = process2
    issuer1 = issuer1
    issuer2 = issuer2
    contract1 = contract1
    contract2 = contract2
    Process = {process1, process2}
    Issuer = {issuer1}
    Period = {1, 2}
    Deployment = {contract1, contract2}
    None = None
    MaxSaves = 1
    MaxCrashes = 1
SYMMETRY MCSymmetry
INVARIANTS
    StoreOfDeployment
CHECK_DEADLOCK FALSE
