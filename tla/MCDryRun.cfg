SPECIFICATION SystemSpec
CONSTANTS
    alice = alice
    holder = holder
    k3 = k3
    c1 = c1
    None = None
    Address = {alice}
    Holder = {alice, holder}
    VerificationKey = {k3}
    CustodianKey = {c1}
    Word = {2}
    SignalVector <- MCVectors
    IcLength <- MCIcLength
    Provable <- MCProvable
    Signed <- MCSigned
    R = 5
    U64Max = 1
    U128Max = 2
    MaxTime = 2
    MaxPublications = 1
    GuardConfig <- MCAnyConfig
    Amount <- MCAmount
    I128Max = 3
INVARIANTS
    DryRunMeansMintable
