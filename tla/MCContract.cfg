SPECIFICATION Spec
CONSTANTS
    alice = alice
    bob = bob
    k1 = k1
    k2 = k2
    k3 = k3
    c1 = c1
    c2 = c2
    None = None
    Address = {alice, bob}
    VerificationKey = {k1, k2, k3}
    CustodianKey = {c1, c2}
    Word = {2, 4}
    SignalVector <- MCVectors
    IcLength <- MCIcLength
    Provable <- MCProvable
    Signed <- MCSigned
    R = 5
    U64Max = 1
    U128Max = 2
    MaxTime = 1
    MaxPublications = 2
CONSTRAINT OneWorld
SYMMETRY Accounts
INVARIANTS
    TypeOK
    EnablementOrder
    RecordedStatementsProven
    IndexComplete
    EventLogReplays
    OracleBindingExact
    CustodianBindingSound
PROPERTIES
    AttestationsPermanent
    ImplementsLedger
    ImplementsIndex
