-------------------------- MODULE StellarisContract --------------------------
(***************************************************************************)
(* The Soroban attestation contract (contracts/stellaris/src): one action  *)
(* per entrypoint that writes storage.  A call that returns an error or    *)
(* panics on require_auth is rolled back by the host, so it is a           *)
(* stuttering step; the guard of an action is the conjunction of the       *)
(* checks its handler makes before its first write.                        *)
(*                                                                         *)
(* Public signals are sequences of 256-bit words, exactly as the contract  *)
(* receives them.  Groth16 and BLS are external: a proof verifies only if  *)
(* it was made for the key and for the field elements the words denote.    *)
(***************************************************************************)
EXTENDS Integers, Sequences, FiniteSets

CONSTANTS
    Address,          \* Soroban accounts: admins, issuers, oracles
    VerificationKey,  \* Groth16 verification keys
    CustodianKey,     \* BLS public keys
    None,             \* an absent storage entry
    Word,             \* the U256 words an oracle may publish
    SignalVector,     \* the pub_signals vectors callers may submit
    IcLength,         \* IcLength[k]: number of points in k's ic
    Provable,         \* Provable[k]: the statements that have a proof under k
    Signed,           \* Signed[pk]: the words the holder of pk has signed
    R,                \* order of the BLS12-381 scalar field
    U64Max, U128Max,  \* largest values of the contract's integer types
    MaxTime,          \* bound on the ledger clock
    MaxPublications   \* bound on the oracle's publications

Version == 1..3
Period == 0..U64Max
Field == 0..(R - 1)

(***************************************************************************)
(* DataKey::{Attest, AttestV2, AttestV3}(issuer, period), the version      *)
(* standing for the variant.                                               *)
(***************************************************************************)
DataKey == Version \X Address \X Period

ASSUME NumberAssumption ==
    /\ R \in Nat /\ U64Max \in Nat /\ U128Max \in Nat
    /\ MaxTime \in Nat /\ MaxPublications \in Nat
    /\ 1 <= U64Max /\ U64Max <= U128Max /\ U128Max < R

ASSUME SignalAssumption ==
    /\ SignalVector \subseteq Seq(Nat)
    /\ Word \subseteq Nat
    /\ DOMAIN Provable = VerificationKey
    /\ \A k \in VerificationKey : Provable[k] \subseteq Seq(Field)

ASSUME NoneAssumption ==
    None \notin Address \cup VerificationKey \cup CustodianKey \cup Nat

VARIABLES
    admin,             \* DataKey::Admin
    vk,                \* DataKey::{Vk, VkV2, VkV3}
    attest,            \* the stored attestations, by DataKey
    periods,           \* DataKey::Periods(issuer)
    oracle,            \* DataKey::Oracle
    oracleCommitment,  \* DataKey::OracleCommitment(period)
    custodian,         \* DataKey::Custodian
    events,            \* events published on the ledger, in order
    now,               \* env.ledger().timestamp()
    published,         \* history: the oracle's publications, in order
    custodians         \* history: every custodian key ever designated

configVars == <<admin, vk, oracle, oracleCommitment, custodian>>
bookVars == <<attest, periods, events>>
historyVars == <<published, custodians>>
vars == <<configVars, bookVars, historyVars, now>>

-----------------------------------------------------------------------------
(***************************************************************************)
(* Public signals (signals.rs).  In all three layouts the solvency flag is *)
(* the first signal and the period the last.                               *)
(***************************************************************************)
Arity == <<4, 5, 8>>
FlagSignals == <<{1}, {1}, {1, 4, 5, 6, 7}>>
AmountSignals == <<{3}, {4}, {}>>

PeriodOf(v, s) == s[Arity[v]]

(* Fault: liabilities are cast to u128 without the range check. *)
ParsesAnyAmount(v, s) ==
    /\ Len(s) = Arity[v]
    /\ \A j \in FlagSignals[v] : s[j] \in {0, 1}
    /\ s[Arity[v]] <= U64Max

(* parse_public_signals, parse_public_signals_v2 and _v3 return Ok. *)
WellFormed(v, s) ==
    /\ Len(s) = Arity[v]
    /\ \A j \in FlagSignals[v] : s[j] \in {0, 1}
    /\ \A j \in AmountSignals[v] : s[j] <= U128Max
    /\ s[Arity[v]] <= U64Max

(***************************************************************************)
(* Groth16: the pairing check sees each word only as a scalar, that is     *)
(* modulo R.  The proofs in existence are those of provable statements.    *)
(***************************************************************************)
Scalars(s) == [j \in DOMAIN s |-> s[j] % R]

Proof == UNION {[key : {k}, statement : Provable[k]] : k \in VerificationKey}

DispatchVerify(k, proof, s) ==
    /\ Len(s) + 1 = IcLength[k]
    /\ proof = [key |-> k, statement |-> Scalars(s)]

(* bls_sig.rs: a signature is over the raw bytes of the commitment. *)
Signature == UNION {[key : {pk}, message : Signed[pk]] : pk \in CustodianKey}

(* Fault: any signature made with the key is accepted. *)
VerifyKeyOnly(pk, sig, commitment) == sig.key = pk

VerifyCustodianSig(pk, sig, commitment) ==
    sig = [key |-> pk, message |-> commitment]

-----------------------------------------------------------------------------
(* types.rs: what each version stores for the signals s. *)
AttestationV1(issuer, s) ==
    [commitment |-> s[2], liabilities |-> s[3], solvent |-> TRUE,
     ledger_ts |-> now, period_id |-> PeriodOf(1, s), issuer |-> issuer]

AttestationV2(issuer, s) ==
    [reserve_commitment |-> s[2], liab_root |-> s[3], liab_total |-> s[4],
     solvent |-> TRUE,
     ledger_ts |-> now, period_id |-> PeriodOf(2, s), issuer |-> issuer]

OracleBound(s) == oracleCommitment[PeriodOf(3, s)] # None

AttestationV3(issuer, s, custodianBound) ==
    [aggregate_solvent |-> TRUE, reserve_commitment |-> s[2],
     price_commitment |-> s[3],
     asset_solvent |-> [a \in 1..4 |-> s[3 + a] = 1],
     oracle_bound |-> OracleBound(s), custodian_bound |-> custodianBound,
     ledger_ts |-> now, period_id |-> PeriodOf(3, s), issuer |-> issuer]

(* Fault: the replay check never finds anything. *)
NeverAttested(v, issuer, p) == FALSE

HasAttestation(v, issuer, p) == attest[<<v, issuer, p>>] # None

(* Faults: only the first period is listed; the list is newest first. *)
AppendOnce(issuer, p) ==
    periods' = IF periods[issuer] # << >> THEN periods
               ELSE [periods EXCEPT ![issuer] = <<p>>]
PrependPeriod(issuer, p) ==
    periods' = [periods EXCEPT ![issuer] = <<p>> \o @]

(* append_period: one list per issuer, shared by the three versions. *)
AppendPeriod(issuer, p) == periods' = [periods EXCEPT ![issuer] = Append(@, p)]

(* store_attestation*, append_period and publish_attested*_event. *)
Record(v, a) ==
    /\ attest' = [attest EXCEPT ![<<v, a.issuer, a.period_id>>] = a]
    /\ AppendPeriod(a.issuer, a.period_id)
    /\ events' = Append(events, [version |-> v, attestation |-> a])
    /\ UNCHANGED <<configVars, historyVars, now>>

-----------------------------------------------------------------------------
Init ==
    /\ admin = None
    /\ vk = [v \in Version |-> None]
    /\ attest = [d \in DataKey |-> None]
    /\ periods = [a \in Address |-> << >>]
    /\ oracle = None
    /\ oracleCommitment = [p \in Period |-> None]
    /\ custodian = None
    /\ events = << >>
    /\ now = 0
    /\ published = << >>
    /\ custodians = {}

(* initialize_once *)
InitializeOnce(adm) == admin = None /\ admin' = adm

(* init: unauthenticated, but only the first call succeeds. *)
Initialize(adm, k) ==
    /\ InitializeOnce(adm)
    /\ vk' = [vk EXCEPT ![1] = k]
    /\ UNCHANGED <<oracle, oracleCommitment, custodian, bookVars, historyVars, now>>

(* Faults: the admin is not required; the key may be registered again. *)
RegisterUnadministered(v, caller, k) ==
    /\ vk[v] = None
    /\ vk' = [vk EXCEPT ![v] = k]
    /\ UNCHANGED <<admin, oracle, oracleCommitment, custodian,
                   bookVars, historyVars, now>>
RotateKey(v, caller, k) ==
    /\ admin # None
    /\ caller = admin
    /\ vk' = [vk EXCEPT ![v] = k]
    /\ UNCHANGED <<admin, oracle, oracleCommitment, custodian,
                   bookVars, historyVars, now>>

(* What init_v2 and init_v3 share: the admin registers a key, once. *)
RegisterKey(v, caller, k) ==
    /\ admin # None
    /\ caller = admin
    /\ vk[v] = None
    /\ vk' = [vk EXCEPT ![v] = k]
    /\ UNCHANGED <<admin, oracle, oracleCommitment, custodian,
                   bookVars, historyVars, now>>

InitV2(caller, k) == RegisterKey(2, caller, k)

InitV3(caller, k) == RegisterKey(3, caller, k)

(* require_issuer_auth *)
RequireIssuerAuth(caller, issuer) == caller = issuer

(* Fault: a proven insolvency is recorded as solvent. *)
AcceptsInsolvent(v, caller, issuer, s, proof) ==
    /\ caller = issuer
    /\ vk[v] # None
    /\ WellFormed(v, s)
    /\ DispatchVerify(vk[v], proof, s)
    /\ ~HasAttestation(v, issuer, PeriodOf(v, s))

StellarisContractError ==
    {"NotInitialized", "AlreadyInitialized", "Unauthorized", "ProofInvalid", "NotSolvent",
     "PeriodAlreadyAttested", "BadPublicSignals", "BadProofEncoding", "BadLiabilityRoot",
     "WrongVerifierVersion", "OracleMismatch", "OracleNotConfigured",
     "CustodianNotConfigured", "CustodianSigInvalid"}

(* The first of the checks all four attest entrypoints make that fails,    *)
(* for an issuer that signed the call: types.rs, StellarisContractError.   *)
Answer(v, issuer, s, proof) ==
    IF vk[v] = None THEN "NotInitialized"
    ELSE IF ~WellFormed(v, s) THEN "BadPublicSignals"
    ELSE IF ~DispatchVerify(vk[v], proof, s) THEN "ProofInvalid"
    ELSE IF s[1] # 1 THEN "NotSolvent"
    ELSE IF HasAttestation(v, issuer, PeriodOf(v, s)) THEN "PeriodAlreadyAttested"
    ELSE "Ok"

Accepts(v, caller, issuer, s, proof) ==
    RequireIssuerAuth(caller, issuer) /\ Answer(v, issuer, s, proof) = "Ok"

Attest(caller, issuer, s, proof) ==
    /\ Accepts(1, caller, issuer, s, proof)
    /\ Record(1, AttestationV1(issuer, s))

AttestV2(caller, issuer, s, proof) ==
    /\ Accepts(2, caller, issuer, s, proof)
    /\ Record(2, AttestationV2(issuer, s))

(* Fault: a mismatch is not an error. *)
AdmitsAnyPrice(s) == TRUE

UnsignedV3(issuer, s) == AttestationV3(issuer, s, FALSE)
SignedV3(issuer, s) == AttestationV3(issuer, s, TRUE)

(* The price check: words are compared, not the scalars they denote. *)
OracleAdmits(s) == oracleCommitment[PeriodOf(3, s)] \in {None, s[3]}

(* Fault: the price is compared before the replay check. *)
AnswerV3PriceFirst(issuer, s, proof) ==
    IF vk[3] # None /\ WellFormed(3, s) /\ ~OracleAdmits(s) THEN "OracleMismatch"
    ELSE Answer(3, issuer, s, proof)

AnswerV3(issuer, s, proof) ==
    LET answer == Answer(3, issuer, s, proof)
    IN  IF answer # "Ok" THEN answer
        ELSE IF ~OracleAdmits(s) THEN "OracleMismatch" ELSE "Ok"

AnswerV3Signed(issuer, s, proof, sig) ==
    LET answer == Answer(3, issuer, s, proof)
    IN  IF answer # "Ok" THEN answer
        ELSE IF custodian = None THEN "CustodianNotConfigured"
        ELSE IF ~VerifyCustodianSig(custodian, sig, s[2]) THEN "CustodianSigInvalid"
        ELSE IF ~OracleAdmits(s) THEN "OracleMismatch" ELSE "Ok"

AttestV3(caller, issuer, s, proof) ==
    /\ RequireIssuerAuth(caller, issuer)
    /\ AnswerV3(issuer, s, proof) = "Ok"
    /\ Record(3, UnsignedV3(issuer, s))

AttestV3Signed(caller, issuer, s, proof, sig) ==
    /\ RequireIssuerAuth(caller, issuer)
    /\ AnswerV3Signed(issuer, s, proof, sig) = "Ok"
    /\ Record(3, SignedV3(issuer, s))

SetOracle(caller, o) ==
    /\ admin # None
    /\ caller = admin
    /\ oracle' = o
    /\ UNCHANGED <<admin, vk, oracleCommitment, custodian,
                   bookVars, historyVars, now>>

(* Publishing again overwrites, whether or not an attestation is bound. *)
PublishOracleCommitment(caller, p, c) ==
    /\ Len(published) < MaxPublications
    /\ oracle # None
    /\ caller = oracle
    /\ oracleCommitment' = [oracleCommitment EXCEPT ![p] = c]
    /\ published' = Append(published, [period |-> p, commitment |-> c,
                                       after |-> Len(events)])
    /\ UNCHANGED <<admin, vk, oracle, custodian, bookVars, custodians, now>>

SetCustodian(caller, pk) ==
    /\ admin # None
    /\ caller = admin
    /\ custodian' = pk
    /\ custodians' = custodians \cup {pk}
    /\ UNCHANGED <<admin, vk, oracle, oracleCommitment, bookVars, published, now>>

(* A ledger closes; its timestamp never goes back. *)
CloseLedger ==
    /\ now < MaxTime
    /\ now' = now + 1
    /\ UNCHANGED <<configVars, bookVars, historyVars>>

Next ==
    \/ \E adm \in Address, k \in VerificationKey : Initialize(adm, k)
    \/ \E caller \in Address, k \in VerificationKey :
          InitV2(caller, k) \/ InitV3(caller, k)
    \/ \E caller, issuer \in Address, s \in SignalVector, proof \in Proof :
          \/ Attest(caller, issuer, s, proof)
          \/ AttestV2(caller, issuer, s, proof)
          \/ AttestV3(caller, issuer, s, proof)
          \/ \E sig \in Signature : AttestV3Signed(caller, issuer, s, proof, sig)
    \/ \E caller, o \in Address : SetOracle(caller, o)
    \/ \E caller \in Address, p \in Period, c \in Word :
          PublishOracleCommitment(caller, p, c)
    \/ \E caller \in Address, pk \in CustodianKey : SetCustodian(caller, pk)
    \/ CloseLedger

Spec == Init /\ [][Next]_vars

-----------------------------------------------------------------------------
AttestationsV1 == [commitment : Nat, liabilities : 0..U128Max, solvent : {TRUE},
           ledger_ts : 0..MaxTime, period_id : Period, issuer : Address]

AttestationsV2 == [reserve_commitment : Nat, liab_root : Nat, liab_total : 0..U128Max,
             solvent : {TRUE},
             ledger_ts : 0..MaxTime, period_id : Period, issuer : Address]

AttestationsV3 == [aggregate_solvent : {TRUE}, reserve_commitment : Nat,
             price_commitment : Nat, asset_solvent : [1..4 -> BOOLEAN],
             oracle_bound : BOOLEAN, custodian_bound : BOOLEAN,
             ledger_ts : 0..MaxTime, period_id : Period, issuer : Address]

ASSUME AbsenceAssumption ==
    None \notin AttestationsV1 /\ None \notin AttestationsV2 /\ None \notin AttestationsV3

(* The values a version may store. *)
Stored(v) == CASE v = 1 -> AttestationsV1 [] v = 2 -> AttestationsV2 [] v = 3 -> AttestationsV3

(* Every storage entry has the type types.rs declares for it. *)
TypeOK ==
    /\ admin \in Address \cup {None}
    /\ vk \in [Version -> VerificationKey \cup {None}]
    /\ DOMAIN attest = DataKey
    /\ \A d \in DataKey : attest[d] \in Stored(d[1]) \cup {None}
    /\ periods \in [Address -> Seq(Period)]
    /\ oracle \in Address \cup {None}
    /\ oracleCommitment \in [Period -> Word \cup {None}]
    /\ custodian \in CustodianKey \cup {None}
    /\ events \in Seq([version : Version,
                       attestation : AttestationsV1 \cup AttestationsV2 \cup AttestationsV3])
    /\ now \in 0..MaxTime
    /\ published \in Seq([period : Period, commitment : Word, after : Nat])
    /\ custodians \subseteq CustodianKey

(* Each optional part is enabled only on top of the part it extends: keys  *)
(* for v2 and v3, the oracle and the custodian after init, attestations    *)
(* after their key, published prices after the oracle.  The entrypoints    *)
(* check only their own prerequisite; no call order may get around it.     *)
EnablementOrder ==
    /\ admin # None <=> vk[1] # None
    /\ \A v \in {2, 3} : vk[v] # None => admin # None
    /\ oracle # None \/ custodian # None => admin # None
    /\ \A p \in Period : oracleCommitment[p] # None => oracle # None
    /\ \A d \in DataKey : attest[d] # None => vk[d[1]] # None

Bit(b) == IF b THEN 1 ELSE 0

(* The statement a reader recovers from a stored attestation: the scalars  *)
(* it would pass to a verifier again.                                      *)
Statement(v, a) ==
    CASE v = 1 -> <<Bit(a.solvent), a.commitment % R, a.liabilities, a.period_id>>
      [] v = 2 -> <<Bit(a.solvent), a.reserve_commitment % R, a.liab_root % R,
                    a.liab_total, a.period_id>>
      [] v = 3 -> <<Bit(a.aggregate_solvent), a.reserve_commitment % R,
                    a.price_commitment % R,
                    Bit(a.asset_solvent[1]), Bit(a.asset_solvent[2]),
                    Bit(a.asset_solvent[3]), Bit(a.asset_solvent[4]), a.period_id>>

(* Whatever get_attestation* returns, now or later, is a statement that    *)
(* has a proof under the key get_vk* returns at that same moment, claims   *)
(* solvency, and is filed under its own issuer and period: no narrowing    *)
(* of a word, rotation of a key or mix-up of versions comes between.       *)
RecordedStatementsProven ==
    \A d \in DataKey : attest[d] # None =>
        /\ attest[d].issuer = d[2] /\ attest[d].period_id = d[3]
        /\ Statement(d[1], attest[d]) \in Provable[vk[d[1]]]
        /\ Statement(d[1], attest[d])[1] = 1

(* list_periods(issuer) names exactly the periods for which some version   *)
(* of some attestation can be read: v1, v2 and v3 share the list.          *)
PeriodsListed(issuer) == {periods[issuer][j] : j \in DOMAIN periods[issuer]}
IndexComplete ==
    \A issuer \in Address, p \in Period :
        p \in PeriodsListed(issuer)
            <=> \E v \in Version : attest[<<v, issuer, p>>] # None

EventKey(j) == <<events[j].version, events[j].attestation.issuer,
                 events[j].attestation.period_id>>

OwnEvents(issuer, n) == {j \in 1..n : events[j].attestation.issuer = issuer}

(* An indexer that replays the published events rebuilds the storage:      *)
(* every key is announced once, with the value stored under it; the n-th   *)
(* event of an issuer is the n-th entry of its list, and the list has no   *)
(* others; timestamps never decrease.                                      *)
EventLogReplays ==
    /\ \A d \in DataKey : attest[d] # None <=> \E j \in DOMAIN events : EventKey(j) = d
    /\ \A j \in DOMAIN events : attest[EventKey(j)] = events[j].attestation
    /\ \A j, k \in DOMAIN events : j < k =>
          /\ EventKey(j) # EventKey(k)
          /\ events[j].attestation.ledger_ts <= events[k].attestation.ledger_ts
    /\ \A issuer \in Address :
          Len(periods[issuer]) = Cardinality(OwnEvents(issuer, Len(events)))
    /\ \A j \in DOMAIN events :
          LET a == events[j].attestation
          IN  periods[a.issuer][Cardinality(OwnEvents(a.issuer, j))] = a.period_id

(* The publications for period p that were on the ledger when the event j  *)
(* was published.                                                          *)
PublishedBefore(p, j) == {n \in DOMAIN published : published[n].period = p
                                                   /\ published[n].after < j}

(* oracle_bound tells exactly whether the oracle had published a price for *)
(* the period when the v3 attestation was recorded, and then the attested  *)
(* price is the last one published before it -- whatever is published, by  *)
(* whichever oracle, afterwards.                                           *)
OracleBindingExact ==
    \A j \in DOMAIN events : events[j].version = 3 =>
        LET a == events[j].attestation
            prior == PublishedBefore(a.period_id, j)
        IN  /\ a.oracle_bound <=> prior # {}
            /\ a.oracle_bound => \E n \in prior :
                  /\ \A m \in prior : m <= n
                  /\ published[n].commitment = a.price_commitment

(* custodian_bound is never set on reserves that no custodian the admin    *)
(* ever designated has signed; later designations do not unset it.         *)
CustodianBindingSound ==
    \A issuer \in Address, p \in Period :
        LET a == attest[<<3, issuer, p>>]
        IN  a # None => (a.custodian_bound =>
                \E pk \in custodians : a.reserve_commitment \in Signed[pk])

(* A recorded attestation is never replaced or removed, and a key, once    *)
(* registered, never changes (PeriodAlreadyAttested, AlreadyInitialized).  *)
AttestationsPermanent ==
    [][/\ \A d \in DataKey : attest[d] # None => attest'[d] = attest[d]
       /\ \A v \in Version : vk[v] # None => vk'[v] = vk[v]]_vars

(* An issuer that is refused for its signals, its proof, its insolvency or *)
(* a replay need not try again: whatever is registered, attested,          *)
(* published or rotated later, the same call gets the same answer.  Only   *)
(* a missing setup, a price and a custodian's signature can be mended.     *)
FinalAnswer ==
    StellarisContractError \ {"NotInitialized", "OracleMismatch", "CustodianNotConfigured",
                              "CustodianSigInvalid"}

RefusalsStay ==
    [][\A issuer \in Address, s \in SignalVector, proof \in Proof :
         /\ LET answer == AnswerV3(issuer, s, proof)
            IN  answer \in FinalAnswer => AnswerV3(issuer, s, proof)' = answer
         /\ \A sig \in Signature :
               LET answer == AnswerV3Signed(issuer, s, proof, sig)
               IN  answer \in FinalAnswer => AnswerV3Signed(issuer, s, proof, sig)' = answer]_vars

(* The contract implements the append-only book of provable claims.        *)
Book == [d \in DataKey |-> IF attest[d] = None THEN None
                           ELSE Statement(d[1], attest[d])]

Ledger == INSTANCE SolvencyLedger WITH key <- vk, book <- Book

ImplementsLedger == Ledger!Spec

(* The contract implements the index that the client's registry reads:     *)
(* every attestation of any version adds one line and one list entry.      *)
Lines == {d \in DataKey : attest[d] # None}

Index == INSTANCE PeriodIndex WITH lines <- Lines

ImplementsIndex == Index!Spec

=============================================================================
