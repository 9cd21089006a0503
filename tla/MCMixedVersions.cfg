SPECIFICATION ReconcilerSpec
CONSTANTS
    issuer1 = issuer1
    issuer2 = issuer2
    None = None
    Address = {issuer1}
    Version = {1, 2}
    Period = {0, 1}
    Targets <- MCOneTarget
    MaxAttempts = 2
    MaxLines = 2
PROPERTIES
    MissingMeansUnattested
