SPECIFICATION ProofSpec
CONSTANTS
    u1 = u1
    u2 = u2
    k1 = k1
    k2 = k2
    k3 = k3
    Padded = Padded
    None = None
    Nothing = Nothing
    P = 521
    BalLimit = 2
    NAssets = 3
    NPerAsset = 2
    PriceLimit = 4
    Candidate <- MCCandidate
    UserId = {u1, u2}
    NReserves = 2
    Depth = 2
    TreeCandidate <- MCTreeCandidate
    N_ASSETS_V3 = 1
    U64Max = 1
    U128Max = 2
    U256Max = 8
    Text <- MCText
    Edit <- MCEdit
    Q = 5
    VerificationKey = {k1, k2, k3}
    Setup <- MCSetup
    CustodianKey = {2, 3}
    Statement <- MCStatement
    Randomness <- MCRandomness
    Signals <- MCSignals
    Word = {2, 7}
    Tag = {0, 1, 2}
    MaxMade = 2
SYMMETRY Users
INVARIANTS
    TypeScriptMirrorsContract
CHECK_DEADLOCK FALSE
