------------------------ MODULE StellarisContract_proofs ------------------------
(***************************************************************************)
(* Theorems about StellarisContract, for every set of accounts, keys,      *)
(* signal vectors and every bound.                                         *)
(***************************************************************************)
EXTENDS StellarisContract, SequenceTheorems, FiniteSetTheorems, TLAPS

(* The words of a well-formed vector are numbers, its period is a u64.     *)
LEMMA WordsOfWellFormed ==
    ASSUME NEW v \in Version, NEW s \in SignalVector, WellFormed(v, s)
    PROVE  /\ Len(s) = Arity[v]
           /\ DOMAIN s = 1..Arity[v]
           /\ \A j \in 1..Arity[v] : s[j] \in Nat
           /\ PeriodOf(v, s) \in Period
<1>1. s \in Seq(Nat) /\ Len(s) = Arity[v]
  BY SignalAssumption DEF WellFormed
<1>2. DOMAIN s = 1..Arity[v] /\ \A j \in 1..Arity[v] : s[j] \in Nat
  BY <1>1, LenProperties, ElementOfSeq
<1>3. Arity[v] \in 1..Arity[v]
  BY DEF Arity, Version
<1>4. s[Arity[v]] \in Nat /\ s[Arity[v]] <= U64Max
  BY <1>2, <1>3 DEF WellFormed
<1> QED
  BY <1>1, <1>2, <1>4, NumberAssumption DEF PeriodOf, Period

(* The well-formed vectors of a version yield values of its stored type.   *)
LEMMA StoredV1 ==
    ASSUME NEW issuer \in Address, NEW s \in SignalVector, WellFormed(1, s),
           now \in 0..MaxTime
    PROVE  AttestationV1(issuer, s) \in AttestationsV1
<1>1. s[2] \in Nat /\ s[3] \in Nat /\ PeriodOf(1, s) \in Period
  BY WordsOfWellFormed DEF Version, Arity
<1>2. s[3] <= U128Max
  BY DEF WellFormed, AmountSignals
<1> QED
  BY <1>1, <1>2, NumberAssumption DEF AttestationV1, AttestationsV1

(* A well-formed v2 vector makes a record of the declared type.           *)
LEMMA StoredV2 ==
    ASSUME NEW issuer \in Address, NEW s \in SignalVector, WellFormed(2, s),
           now \in 0..MaxTime
    PROVE  AttestationV2(issuer, s) \in AttestationsV2
<1>1. s[2] \in Nat /\ s[3] \in Nat /\ s[4] \in Nat /\ PeriodOf(2, s) \in Period
  BY WordsOfWellFormed DEF Version, Arity
<1>2. s[4] <= U128Max
  BY DEF WellFormed, AmountSignals
<1> QED
  BY <1>1, <1>2, NumberAssumption DEF AttestationV2, AttestationsV2

(* A well-formed v3 vector makes a record of the declared type, signed or not. *)
LEMMA StoredV3 ==
    ASSUME NEW issuer \in Address, NEW s \in SignalVector, WellFormed(3, s),
           now \in 0..MaxTime
    PROVE  /\ SignedV3(issuer, s) \in AttestationsV3
           /\ UnsignedV3(issuer, s) \in AttestationsV3
<1>1. s[2] \in Nat /\ s[3] \in Nat /\ PeriodOf(3, s) \in Period
  BY WordsOfWellFormed DEF Version, Arity
<1>2. [a \in 1..4 |-> s[3 + a] = 1] \in [1..4 -> BOOLEAN]
  OBVIOUS
<1>3. OracleBound(s) \in BOOLEAN
  BY DEF OracleBound
<1> QED
  BY <1>1, <1>2, <1>3 DEF SignedV3, UnsignedV3, AttestationV3, AttestationsV3

(* Recording a value of the right type under its own key keeps TypeOK.     *)
LEMMA RecordTypeOK ==
    ASSUME TypeOK, NEW v \in Version, NEW a \in Stored(v),
           a.issuer \in Address, a.period_id \in Period, Record(v, a)
    PROVE  TypeOK'
<1> DEFINE d == <<v, a.issuer, a.period_id>>
<1>1. d \in DataKey
  BY DEF DataKey
<1>2. DOMAIN attest' = DataKey /\ \A e \in DataKey : attest'[e] \in Stored(e[1]) \cup {None}
  BY <1>1 DEF TypeOK, Record
<1>3. periods' \in [Address -> Seq(Period)]
  BY DEF TypeOK, Record, AppendPeriod
<1>4. [version |-> v, attestation |-> a]
         \in [version : Version, attestation : AttestationsV1 \cup AttestationsV2 \cup AttestationsV3]
  BY DEF Stored, Version
<1>5. events' \in Seq([version : Version,
                       attestation : AttestationsV1 \cup AttestationsV2 \cup AttestationsV3])
  BY <1>4 DEF TypeOK, Record
<1> QED
  BY <1>2, <1>3, <1>5 DEF TypeOK, Record, configVars, historyVars

(* What an entrypoint of version v may store for the accepted vector s.    *)
NewValues(v, issuer, s) ==
    CASE v = 1 -> {AttestationV1(issuer, s)}
      [] v = 2 -> {AttestationV2(issuer, s)}
      [] v = 3 -> {UnsignedV3(issuer, s), SignedV3(issuer, s)}

AttestCall(caller, issuer, s, proof) ==
    \/ Attest(caller, issuer, s, proof)
    \/ AttestV2(caller, issuer, s, proof)
    \/ AttestV3(caller, issuer, s, proof)
    \/ \E sig \in Signature : AttestV3Signed(caller, issuer, s, proof, sig)

CustodianSigned(c) == custodian # None /\ c \in Signed[custodian]

Writes(v, a, caller, issuer, s, proof) ==
    /\ Accepts(v, caller, issuer, s, proof)
    /\ a \in NewValues(v, issuer, s)
    /\ a \in Stored(v)
    /\ a.issuer = issuer
    /\ a.period_id = PeriodOf(v, s)
    /\ v = 3 => OracleAdmits(s) /\ (a.custodian_bound => CustodianSigned(s[2]))
    /\ Record(v, a)

(* What a verified signature shows: the custodian signed the commitment.   *)
LEMMA VerifiedIsSigned ==
    ASSUME NEW c, NEW sig \in Signature, custodian # None,
           VerifyCustodianSig(custodian, sig, c)
    PROVE  CustodianSigned(c)
<1>1. PICK pk \in CustodianKey : sig \in [key : {pk}, message : Signed[pk]]
  BY DEF Signature
<1>2. sig.key = pk /\ sig.message \in Signed[pk]
  BY <1>1
<1>3. sig.key = custodian /\ sig.message = c
  BY DEF VerifyCustodianSig
<1> QED
  BY <1>2, <1>3 DEF CustodianSigned

(* The four attest entrypoints write through Record, with a value of the   *)
(* stored type made from an accepted vector, a price the oracle does not   *)
(* contradict, and a signature if the value says there is one.             *)
LEMMA AttestWrites ==
    ASSUME TypeOK, NEW caller \in Address, NEW issuer \in Address,
           NEW s \in SignalVector, NEW proof \in Proof,
           AttestCall(caller, issuer, s, proof)
    PROVE  \E v \in Version : \E a : Writes(v, a, caller, issuer, s, proof)
<1>1. now \in 0..MaxTime
  BY DEF TypeOK
<1>2. CASE Attest(caller, issuer, s, proof)
  <2> DEFINE a == AttestationV1(issuer, s)
  <2>1. WellFormed(1, s)
    BY <1>2 DEF Attest, Accepts, Answer, RequireIssuerAuth
  <2>2. a \in Stored(1)
    BY <1>1, <2>1, StoredV1 DEF Stored
  <2>3. a.issuer = issuer /\ a.period_id = PeriodOf(1, s)
    BY DEF AttestationV1
  <2>4. Writes(1, a, caller, issuer, s, proof)
    BY <1>2, <2>2, <2>3 DEF Attest, Writes, NewValues
  <2> QED
    BY <2>4 DEF Version
<1>3. CASE AttestV2(caller, issuer, s, proof)
  <2> DEFINE a == AttestationV2(issuer, s)
  <2>1. WellFormed(2, s)
    BY <1>3 DEF AttestV2, Accepts, Answer, RequireIssuerAuth
  <2>2. a \in Stored(2)
    BY <1>1, <2>1, StoredV2 DEF Stored
  <2>3. a.issuer = issuer /\ a.period_id = PeriodOf(2, s)
    BY DEF AttestationV2
  <2>4. Writes(2, a, caller, issuer, s, proof)
    BY <1>3, <2>2, <2>3 DEF AttestV2, Writes, NewValues
  <2> QED
    BY <2>4 DEF Version
<1>4. CASE AttestV3(caller, issuer, s, proof)
  <2> DEFINE a == UnsignedV3(issuer, s)
  <2>1. WellFormed(3, s)
    BY <1>4 DEF AttestV3, AnswerV3, Accepts, Answer, RequireIssuerAuth
  <2>2. a \in Stored(3)
    BY <1>1, <2>1, StoredV3 DEF Stored
  <2>3. a.issuer = issuer /\ a.period_id = PeriodOf(3, s)
    BY DEF UnsignedV3, SignedV3, AttestationV3
  <2>4. ~a.custodian_bound
    BY DEF UnsignedV3, AttestationV3
  <2>5. Accepts(3, caller, issuer, s, proof) /\ OracleAdmits(s) /\ Record(3, a)
    BY <1>4 DEF AttestV3, AnswerV3, Accepts
  <2>6. Writes(3, a, caller, issuer, s, proof)
    BY <2>2, <2>3, <2>4, <2>5 DEF Writes, NewValues
  <2> QED
    BY <2>6 DEF Version
<1>5. CASE \E sig \in Signature : AttestV3Signed(caller, issuer, s, proof, sig)
  <2> DEFINE a == SignedV3(issuer, s)
  <2>1. Accepts(3, caller, issuer, s, proof) /\ Record(3, a)
    BY <1>5 DEF AttestV3Signed, AnswerV3Signed, Accepts
  <2>2. WellFormed(3, s)
    BY <2>1 DEF Accepts, Answer, RequireIssuerAuth
  <2>3. a \in Stored(3)
    BY <1>1, <2>2, StoredV3 DEF Stored
  <2>4. a.issuer = issuer /\ a.period_id = PeriodOf(3, s)
    BY DEF UnsignedV3, SignedV3, AttestationV3
  <2>5. PICK sig \in Signature : AttestV3Signed(caller, issuer, s, proof, sig)
    BY <1>5
  <2>6. OracleAdmits(s) /\ custodian # None /\ VerifyCustodianSig(custodian, sig, s[2])
    BY <2>5 DEF AttestV3Signed, AnswerV3Signed
  <2>7. Writes(3, a, caller, issuer, s, proof)
    BY <2>1, <2>3, <2>4, <2>6, VerifiedIsSigned DEF Writes, NewValues
  <2> QED
    BY <2>7 DEF Version
<1> QED
  BY <1>2, <1>3, <1>4, <1>5 DEF AttestCall

(* No call can put a value of the wrong type in a storage entry.           *)
LEMMA TypeOKStep == TypeOK /\ [Next]_vars => TypeOK'
<1> SUFFICES ASSUME TypeOK, [Next]_vars PROVE TypeOK'
  OBVIOUS
<1>1. ASSUME NEW adm \in Address, NEW k \in VerificationKey, Initialize(adm, k)
      PROVE  TypeOK'
  BY <1>1 DEF TypeOK, Initialize, InitializeOnce, bookVars, historyVars, Version
<1>2. ASSUME NEW caller \in Address, NEW k \in VerificationKey,
             InitV2(caller, k) \/ InitV3(caller, k)
      PROVE  TypeOK'
  BY <1>2 DEF TypeOK, InitV2, InitV3, RegisterKey, bookVars, historyVars, Version
<1>3. ASSUME NEW caller \in Address, NEW issuer \in Address,
             NEW s \in SignalVector, NEW proof \in Proof,
             AttestCall(caller, issuer, s, proof)
      PROVE  TypeOK'
  <2>0. PICK v \in Version : \E a : Writes(v, a, caller, issuer, s, proof)
    BY <1>3, AttestWrites
  <2>1. PICK a : Writes(v, a, caller, issuer, s, proof)
    BY <2>0
  <2>2. PeriodOf(v, s) \in Period
    BY <2>1, WordsOfWellFormed DEF Writes, Accepts, Answer, RequireIssuerAuth
  <2> QED
    BY <2>1, <2>2, RecordTypeOK DEF Writes
<1>4. ASSUME NEW caller \in Address, NEW o \in Address, SetOracle(caller, o)
      PROVE  TypeOK'
  BY <1>4 DEF TypeOK, SetOracle, bookVars, historyVars
<1>5. ASSUME NEW caller \in Address, NEW p \in Period, NEW c \in Word,
             PublishOracleCommitment(caller, p, c)
      PROVE  TypeOK'
  <2>1. [period |-> p, commitment |-> c, after |-> Len(events)]
           \in [period : Period, commitment : Word, after : Nat]
    BY LenProperties DEF TypeOK
  <2>2. published' \in Seq([period : Period, commitment : Word, after : Nat])
    BY <1>5, <2>1 DEF TypeOK, PublishOracleCommitment
  <2> QED
    BY <1>5, <2>2 DEF TypeOK, PublishOracleCommitment, bookVars
<1>6. ASSUME NEW caller \in Address, NEW pk \in CustodianKey, SetCustodian(caller, pk)
      PROVE  TypeOK'
  BY <1>6 DEF TypeOK, SetCustodian, bookVars
<1>7. CASE CloseLedger
  BY <1>7, NumberAssumption DEF TypeOK, CloseLedger, configVars, bookVars, historyVars
<1>8. CASE UNCHANGED vars
  BY <1>8 DEF TypeOK, vars, configVars, bookVars, historyVars
<1> QED
  BY <1>1, <1>2, <1>3, <1>4, <1>5, <1>6, <1>7, <1>8 DEF Next, AttestCall

(* Type correctness: every storage entry of the contract always has the    *)
(* type types.rs declares, whatever is called in whatever order.           *)
THEOREM TypeCorrect == Spec => []TypeOK
<1>1. Init => TypeOK
  BY NumberAssumption, EmptySeq DEF Init, TypeOK, Version, DataKey
<1> QED
  BY <1>1, TypeOKStep, PTL DEF Spec

-----------------------------------------------------------------------------
(* Numbers below the field order are their own scalars.                    *)
LEMMA SmallScalar == \A n \in Nat : n <= U128Max => n % R = n
BY NumberAssumption

(* Flags, amounts and periods of a well-formed vector are below the field order. *)
LEMMA AmountsAndFlags ==
    ASSUME NEW v \in Version, NEW s \in SignalVector, WellFormed(v, s)
    PROVE  /\ \A j \in FlagSignals[v] : s[j] \in {0, 1} /\ s[j] % R = s[j]
           /\ \A j \in AmountSignals[v] \cup {Arity[v]} : s[j] % R = s[j]
<1>1. \A j \in FlagSignals[v] \cup AmountSignals[v] \cup {Arity[v]} : s[j] \in Nat
  BY WordsOfWellFormed DEF FlagSignals, AmountSignals, Arity, Version
<1>2. \A j \in FlagSignals[v] : s[j] <= U128Max
  BY NumberAssumption DEF WellFormed
<1>3. \A j \in AmountSignals[v] \cup {Arity[v]} : s[j] <= U128Max
  BY <1>1, NumberAssumption DEF WellFormed
<1> QED
  BY <1>1, <1>2, <1>3, SmallScalar DEF WellFormed

(* Nothing of a statement is lost on its way into storage: what a reader   *)
(* recovers from the new value are the scalars the proof was checked for.  *)
LEMMA StatementOfNewValue ==
    ASSUME NEW v \in Version, NEW issuer, NEW s \in SignalVector,
           WellFormed(v, s), s[1] = 1, NEW a \in NewValues(v, issuer, s)
    PROVE  Statement(v, a) = Scalars(s)
<1>1. DOMAIN s = 1..Arity[v] /\ \A j \in 1..Arity[v] : s[j] \in Nat
  BY WordsOfWellFormed
<1>2. CASE v = 1
  <2>1. a = AttestationV1(issuer, s)
    BY <1>2 DEF NewValues
  <2>2. Statement(v, a) = <<1, s[2] % R, s[3], s[4]>>
    BY <1>2, <2>1 DEF Statement, AttestationV1, Bit, PeriodOf, Arity
  <2>3. s[1] % R = 1 /\ s[3] % R = s[3] /\ s[4] % R = s[4]
    BY <1>2, AmountsAndFlags DEF FlagSignals, AmountSignals, Arity
  <2>4. Scalars(s) = [j \in 1..4 |-> s[j] % R]
    BY <1>1, <1>2 DEF Scalars, Arity
  <2> QED
    BY <2>2, <2>3, <2>4
<1>3. CASE v = 2
  <2>1. a = AttestationV2(issuer, s)
    BY <1>3 DEF NewValues
  <2>2. Statement(v, a) = <<1, s[2] % R, s[3] % R, s[4], s[5]>>
    BY <1>3, <2>1 DEF Statement, AttestationV2, Bit, PeriodOf, Arity
  <2>3. s[1] % R = 1 /\ s[4] % R = s[4] /\ s[5] % R = s[5]
    BY <1>3, AmountsAndFlags DEF FlagSignals, AmountSignals, Arity
  <2>4. Scalars(s) = [j \in 1..5 |-> s[j] % R]
    BY <1>1, <1>3 DEF Scalars, Arity
  <2> QED
    BY <2>2, <2>3, <2>4
<1>4. CASE v = 3
  <2>1. a \in {UnsignedV3(issuer, s), SignedV3(issuer, s)}
    BY <1>4 DEF NewValues
  <2>2. \A j \in 4..7 : s[j] \in {0, 1}
    BY <1>4 DEF WellFormed, FlagSignals
  <2>3. Statement(v, a) = <<1, s[2] % R, s[3] % R, s[4], s[5], s[6], s[7], s[8]>>
    <3>1. /\ a.aggregate_solvent = TRUE /\ a.reserve_commitment = s[2]
          /\ a.price_commitment = s[3] /\ a.period_id = s[8]
          /\ a.asset_solvent = [n \in 1..4 |-> s[3 + n] = 1]
      BY <2>1 DEF UnsignedV3, SignedV3, AttestationV3, PeriodOf, Arity
    <3>2. \A n \in 1..4 : Bit(a.asset_solvent[n]) = s[3 + n]
      <4> SUFFICES ASSUME NEW n \in 1..4 PROVE Bit(a.asset_solvent[n]) = s[3 + n]
        OBVIOUS
      <4>1. a.asset_solvent[n] <=> s[3 + n] = 1
        BY <3>1
      <4>2. 3 + n \in 4..7
        OBVIOUS
      <4> QED
        BY <2>2, <4>1, <4>2 DEF Bit
    <3>3. /\ Bit(a.aggregate_solvent) = 1
          /\ Bit(a.asset_solvent[1]) = s[4] /\ Bit(a.asset_solvent[2]) = s[5]
          /\ Bit(a.asset_solvent[3]) = s[6] /\ Bit(a.asset_solvent[4]) = s[7]
      BY <3>1, <3>2 DEF Bit
    <3> QED
      BY <1>4, <3>1, <3>3 DEF Statement
  <2>4. /\ s[1] % R = 1 /\ s[4] % R = s[4] /\ s[5] % R = s[5]
        /\ s[6] % R = s[6] /\ s[7] % R = s[7] /\ s[8] % R = s[8]
    BY <1>4, AmountsAndFlags DEF FlagSignals, AmountSignals, Arity
  <2>5. Scalars(s) = [j \in 1..8 |-> s[j] % R]
    BY <1>1, <1>4 DEF Scalars, Arity
  <2> QED
    BY <2>3, <2>4, <2>5
<1> QED
  BY <1>2, <1>3, <1>4 DEF Version

(* What a verified proof shows: the scalars are provable under the key.    *)
LEMMA VerifiedIsProvable ==
    ASSUME NEW k \in VerificationKey, NEW s, NEW proof \in Proof,
           DispatchVerify(k, proof, s)
    PROVE  Scalars(s) \in Provable[k]
<1>1. PICK j \in VerificationKey : proof \in [key : {j}, statement : Provable[j]]
  BY DEF Proof
<1>2. proof.key = j /\ proof.statement \in Provable[j]
  BY <1>1
<1>3. proof.key = k /\ proof.statement = Scalars(s)
  BY DEF DispatchVerify
<1> QED
  BY <1>2, <1>3

(* Hence every value an attest entrypoint stores is a provable claim of    *)
(* solvency under the registered key.                                      *)
LEMMA WritesProven ==
    ASSUME TypeOK, NEW v \in Version, NEW a, NEW caller, NEW issuer \in Address,
           NEW s \in SignalVector, NEW proof \in Proof,
           Writes(v, a, caller, issuer, s, proof)
    PROVE  /\ Statement(v, a) \in Provable[vk[v]]
           /\ Statement(v, a)[1] = 1
           /\ Statement(v, a) = Scalars(s)
<1>1. /\ vk[v] \in VerificationKey /\ WellFormed(v, s) /\ s[1] = 1
      /\ DispatchVerify(vk[v], proof, s) /\ a \in NewValues(v, issuer, s)
  BY DEF Writes, Accepts, Answer, RequireIssuerAuth, TypeOK
<1>2. Statement(v, a) = Scalars(s)
  BY <1>1, StatementOfNewValue
<1>3. Scalars(s)[1] = 1
  BY <1>1, AmountsAndFlags, WordsOfWellFormed
  DEF Scalars, FlagSignals, Arity, Version
<1> QED
  BY <1>1, <1>2, <1>3, VerifiedIsProvable

-----------------------------------------------------------------------------
(* No call order enables a part of the contract before what it rests on.   *)
LEMMA EnablementStep ==
    TypeOK /\ EnablementOrder /\ [Next]_vars => EnablementOrder'
<1> SUFFICES ASSUME TypeOK, EnablementOrder, [Next]_vars PROVE EnablementOrder'
  OBVIOUS
<1>1. ASSUME NEW adm \in Address, NEW k \in VerificationKey, Initialize(adm, k)
      PROVE  EnablementOrder'
  BY <1>1, NoneAssumption
  DEF EnablementOrder, Initialize, InitializeOnce, TypeOK, Version, DataKey, bookVars
<1>2. ASSUME NEW v \in {2, 3}, NEW caller \in Address, NEW k \in VerificationKey,
             RegisterKey(v, caller, k)
      PROVE  EnablementOrder'
  BY <1>2, NoneAssumption
  DEF EnablementOrder, RegisterKey, TypeOK, Version, DataKey, bookVars
<1>3. ASSUME NEW caller \in Address, NEW issuer \in Address,
             NEW s \in SignalVector, NEW proof \in Proof,
             AttestCall(caller, issuer, s, proof)
      PROVE  EnablementOrder'
  <2>0. PICK v \in Version : \E a : Writes(v, a, caller, issuer, s, proof)
    BY <1>3, AttestWrites
  <2>1. PICK a : Writes(v, a, caller, issuer, s, proof)
    BY <2>0
  <2>2. vk[v] # None /\ UNCHANGED configVars
    BY <2>1 DEF Writes, Accepts, Answer, RequireIssuerAuth, Record
  <2>3. \A d \in DataKey : d # <<v, issuer, PeriodOf(v, s)>> => attest'[d] = attest[d]
    BY <2>1 DEF Writes, Record, TypeOK
  <2> QED
    BY <2>2, <2>3 DEF EnablementOrder, configVars
<1>4. ASSUME NEW caller \in Address, NEW o \in Address, SetOracle(caller, o)
      PROVE  EnablementOrder'
  BY <1>4, NoneAssumption DEF EnablementOrder, SetOracle, bookVars
<1>5. ASSUME NEW caller \in Address, NEW p \in Period, NEW c \in Word,
             PublishOracleCommitment(caller, p, c)
      PROVE  EnablementOrder'
  BY <1>5 DEF EnablementOrder, PublishOracleCommitment, bookVars
<1>6. ASSUME NEW caller \in Address, NEW pk \in CustodianKey, SetCustodian(caller, pk)
      PROVE  EnablementOrder'
  BY <1>6 DEF EnablementOrder, SetCustodian, bookVars
<1>7. CASE CloseLedger
  BY <1>7 DEF EnablementOrder, CloseLedger, configVars, bookVars
<1>8. CASE UNCHANGED vars
  BY <1>8 DEF EnablementOrder, vars, configVars, bookVars
<1> QED
  BY <1>1, <1>2, <1>3, <1>4, <1>5, <1>6, <1>7, <1>8
  DEF Next, AttestCall, InitV2, InitV3

(* A step records one attestation, or registers one key in an empty slot   *)
(* and leaves the book alone, or changes neither keys nor book.            *)
LEMMA StepKinds ==
    ASSUME TypeOK, EnablementOrder, [Next]_vars
    PROVE  \/ \E caller \in Address, issuer \in Address, s \in SignalVector, proof \in Proof :
                \E v \in Version : \E a : Writes(v, a, caller, issuer, s, proof)
           \/ /\ UNCHANGED bookVars
              /\ \E v \in Version, k \in VerificationKey :
                    vk[v] = None /\ vk' = [vk EXCEPT ![v] = k]
           \/ UNCHANGED <<bookVars, vk>>
<1>1. ASSUME NEW adm \in Address, NEW k \in VerificationKey, Initialize(adm, k)
      PROVE  UNCHANGED bookVars /\ 1 \in Version /\ vk[1] = None /\ vk' = [vk EXCEPT ![1] = k]
  BY <1>1 DEF Initialize, InitializeOnce, EnablementOrder, Version
<1>2. ASSUME NEW v \in {2, 3}, NEW caller \in Address, NEW k \in VerificationKey,
             RegisterKey(v, caller, k)
      PROVE  UNCHANGED bookVars /\ v \in Version /\ vk[v] = None /\ vk' = [vk EXCEPT ![v] = k]
  BY <1>2 DEF RegisterKey, Version
<1>3. ASSUME NEW caller \in Address, NEW issuer \in Address,
             NEW s \in SignalVector, NEW proof \in Proof,
             AttestCall(caller, issuer, s, proof)
      PROVE  \E v \in Version : \E a : Writes(v, a, caller, issuer, s, proof)
  BY <1>3, AttestWrites
<1>4. ASSUME \/ \E caller, o \in Address : SetOracle(caller, o)
             \/ \E caller \in Address, p \in Period, c \in Word :
                   PublishOracleCommitment(caller, p, c)
             \/ \E caller \in Address, pk \in CustodianKey : SetCustodian(caller, pk)
             \/ CloseLedger
             \/ UNCHANGED vars
      PROVE  UNCHANGED <<bookVars, vk>>
  BY <1>4 DEF SetOracle, PublishOracleCommitment, SetCustodian, CloseLedger,
              configVars, bookVars, vars
<1> QED
  BY <1>1, <1>2, <1>3, <1>4 DEF Next, AttestCall, InitV2, InitV3

(* The ledger's clock never goes back. *)
LEMMA NeverBack == TypeOK /\ [Next]_vars => now <= now'
<1> SUFFICES ASSUME TypeOK, [Next]_vars PROVE now <= now'
  OBVIOUS
<1>1. now \in Nat
  BY NumberAssumption DEF TypeOK
<1>2. CASE CloseLedger
  BY <1>1, <1>2 DEF CloseLedger
<1>3. CASE ~CloseLedger
  <2>1. CASE UNCHANGED vars
    BY <1>1, <2>1 DEF vars
  <2>2. ASSUME NEW caller \in Address, NEW issuer \in Address,
               NEW s \in SignalVector, NEW proof \in Proof,
               AttestCall(caller, issuer, s, proof)
        PROVE  now' = now
    BY <2>2, AttestWrites DEF Writes, Record
  <2>3. CASE ~UNCHANGED vars
    <3>1. now' = now
      BY <1>3, <2>2, <2>3 DEF Next, AttestCall, Initialize, InitV2, InitV3, RegisterKey,
                              SetOracle, PublishOracleCommitment, SetCustodian
    <3> QED
      BY <1>1, <3>1
  <2> QED
    BY <1>1, <2>1, <2>3
<1> QED
  BY <1>2, <1>3

(* The value written is the only change to the book, under an empty key.   *)
LEMMA WritesOneLine ==
    ASSUME TypeOK, NEW v \in Version, NEW a, NEW caller, NEW issuer \in Address,
           NEW s \in SignalVector, NEW proof \in Proof,
           Writes(v, a, caller, issuer, s, proof)
    PROVE  /\ <<v, issuer, PeriodOf(v, s)>> \in DataKey
           /\ attest[<<v, issuer, PeriodOf(v, s)>>] = None
           /\ a # None
           /\ attest' = [attest EXCEPT ![<<v, issuer, PeriodOf(v, s)>>] = a]
           /\ periods' = [periods EXCEPT ![issuer] = Append(@, PeriodOf(v, s))]
           /\ vk' = vk
<1>1. PeriodOf(v, s) \in Period
  BY WordsOfWellFormed DEF Writes, Accepts, Answer, RequireIssuerAuth
<1>2. <<v, issuer, PeriodOf(v, s)>> \in DataKey
  BY <1>1 DEF DataKey
<1>3. a # None
  BY AbsenceAssumption DEF Writes, Stored, Version
<1> QED
  BY <1>2, <1>3 DEF Writes, Accepts, Answer, RequireIssuerAuth, HasAttestation, Record, AppendPeriod, configVars

(* No part of the contract is ever enabled before the part it extends.     *)
THEOREM Enablement == Spec => []EnablementOrder
<1>1. Init => EnablementOrder
  BY DEF Init, EnablementOrder, Version, DataKey
<1> QED
  BY <1>1, TypeCorrect, EnablementStep, PTL DEF Spec

(* An attestation once read is read for ever, and a key once registered is *)
(* the key of its version for ever.                                        *)
LEMMA PermanenceStep ==
    ASSUME TypeOK, EnablementOrder, [Next]_vars
    PROVE  /\ \A d \in DataKey : attest[d] # None => attest'[d] = attest[d]
           /\ \A v \in Version : vk[v] # None => vk'[v] = vk[v]
<1>1. ASSUME NEW v \in Version, NEW a, NEW caller \in Address, NEW issuer \in Address,
             NEW s \in SignalVector, NEW proof \in Proof,
             Writes(v, a, caller, issuer, s, proof)
      PROVE  /\ \A d \in DataKey : attest[d] # None => attest'[d] = attest[d]
             /\ vk' = vk
  BY <1>1, WritesOneLine DEF TypeOK
<1>2. ASSUME NEW v \in Version, NEW k \in VerificationKey, UNCHANGED bookVars,
             vk[v] = None, vk' = [vk EXCEPT ![v] = k]
      PROVE  /\ \A d \in DataKey : attest[d] # None => attest'[d] = attest[d]
             /\ \A w \in Version : vk[w] # None => vk'[w] = vk[w]
  BY <1>2 DEF TypeOK, bookVars
<1>3. CASE UNCHANGED <<bookVars, vk>>
  BY <1>3 DEF bookVars
<1> QED
  BY <1>1, <1>2, <1>3, StepKinds

(* Append-only storage: no call, in any order, replaces or removes an      *)
(* attestation or a verification key.                                      *)
THEOREM Permanence == Spec => AttestationsPermanent
<1>1. TypeOK /\ EnablementOrder /\ [Next]_vars
      => [/\ \A d \in DataKey : attest[d] # None => attest'[d] = attest[d]
          /\ \A v \in Version : vk[v] # None => vk'[v] = vk[v]]_vars
  BY PermanenceStep
<1> QED
  BY <1>1, TypeCorrect, Enablement, PTL DEF Spec, AttestationsPermanent

-----------------------------------------------------------------------------
(* The recorded statements stay proven: a new one is proven under its key, *)
(* an old one keeps the key it was proven under.                           *)
LEMMA ProvenStep ==
    TypeOK /\ EnablementOrder /\ RecordedStatementsProven /\ [Next]_vars
       => RecordedStatementsProven'
<1> SUFFICES ASSUME TypeOK, EnablementOrder, RecordedStatementsProven, [Next]_vars,
                    NEW d \in DataKey, attest'[d] # None
             PROVE  /\ attest'[d].issuer = d[2] /\ attest'[d].period_id = d[3]
                    /\ Statement(d[1], attest'[d]) \in Provable[vk'[d[1]]]
                    /\ Statement(d[1], attest'[d])[1] = 1
  BY DEF RecordedStatementsProven, Statement, Bit
<1>1. d[1] \in Version
  BY DEF DataKey
<1>2. CASE attest[d] # None
  <2>1. attest'[d] = attest[d]
    BY <1>2, PermanenceStep
  <2>2. vk[d[1]] # None
    BY <1>2 DEF EnablementOrder
  <2>3. vk'[d[1]] = vk[d[1]]
    BY <1>1, <2>2, PermanenceStep
  <2> QED
    BY <1>2, <2>1, <2>3 DEF RecordedStatementsProven
<1>3. CASE attest[d] = None
  <2>1. attest' # attest
    BY <1>3
  <2>0. PICK caller \in Address, issuer \in Address, s \in SignalVector,
             proof \in Proof, v \in Version : \E a : Writes(v, a, caller, issuer, s, proof)
    BY <2>1, StepKinds DEF bookVars
  <2>2. PICK a : Writes(v, a, caller, issuer, s, proof)
    BY <2>0
  <2>3. PICK e \in DataKey : /\ e = <<v, issuer, PeriodOf(v, s)>>
                           /\ attest' = [attest EXCEPT ![e] = a]
    <3>1. <<v, issuer, PeriodOf(v, s)>> \in DataKey
      BY <2>2, WritesOneLine
    <3>2. attest' = [attest EXCEPT ![<<v, issuer, PeriodOf(v, s)>>] = a]
      BY <2>2 DEF Writes, Record
    <3> QED
      BY <3>1, <3>2
  <2>4. \A x \in DataKey : x # e => attest'[x] = attest[x]
    BY <2>3 DEF TypeOK
  <2>5. d = e
    BY <1>3, <2>4
  <2>6. attest'[d] = a
    BY <2>3, <2>5 DEF TypeOK
  <2>7. vk' = vk
    BY <2>2, WritesOneLine
  <2>8. /\ Statement(v, a) \in Provable[vk[v]]
        /\ Statement(v, a)[1] = 1
    BY <2>2, WritesProven
  <2>9. a.issuer = issuer /\ a.period_id = PeriodOf(v, s)
    BY <2>2 DEF Writes
  <2> QED
    BY <2>3, <2>5, <2>6, <2>7, <2>8, <2>9
<1> QED
  BY <1>2, <1>3

(* Whatever can be read from the contract is a provable claim of solvency  *)
(* under the key registered now, filed under its own issuer and period.    *)
THEOREM RecordedProven == Spec => []RecordedStatementsProven
<1>1. Init => RecordedStatementsProven
  BY DEF Init, RecordedStatementsProven
<1> QED
  BY <1>1, TypeCorrect, Enablement, ProvenStep, PTL DEF Spec

-----------------------------------------------------------------------------
(* The period list of an issuer and the book grow by the same period.      *)
LEMMA IndexStep ==
    TypeOK /\ EnablementOrder /\ IndexComplete /\ [Next]_vars => IndexComplete'
<1> SUFFICES ASSUME TypeOK, EnablementOrder, IndexComplete, [Next]_vars
             PROVE  IndexComplete'
  OBVIOUS
<1>1. ASSUME NEW v \in Version, NEW a, NEW caller \in Address, NEW issuer \in Address,
             NEW s \in SignalVector, NEW proof \in Proof,
             Writes(v, a, caller, issuer, s, proof),
             NEW other \in Address, NEW p \in Period
      PROVE  p \in PeriodsListed(other)'
                <=> \E w \in Version : attest'[<<w, other, p>>] # None
  <2>1. PICK q \in Period : q = PeriodOf(v, s) /\ <<v, issuer, q>> \in DataKey
    BY <1>1, WordsOfWellFormed DEF Writes, Accepts, Answer, RequireIssuerAuth, DataKey
  <2>2. attest' = [attest EXCEPT ![<<v, issuer, q>>] = a] /\ a # None
    <3>1. a # None
      BY <1>1, WritesOneLine
    <3> QED
      BY <1>1, <2>1, <3>1 DEF Writes, Record
  <2>3. periods' = [periods EXCEPT ![issuer] = Append(@, q)]
    BY <1>1, <2>1 DEF Writes, Record, AppendPeriod
  <2>4. periods[issuer] \in Seq(Period) /\ periods[other] \in Seq(Period)
    BY DEF TypeOK
  <2>5. CASE other # issuer
    <3>1. PeriodsListed(other)' = PeriodsListed(other)
      BY <2>3, <2>5 DEF PeriodsListed, TypeOK
    <3>2. \A w \in Version : attest'[<<w, other, p>>] = attest[<<w, other, p>>]
      BY <2>2, <2>5 DEF TypeOK, DataKey
    <3> QED
      BY <3>1, <3>2 DEF IndexComplete
  <2>6. CASE other = issuer
    <3>1. periods'[issuer] = Append(periods[issuer], q)
      BY <2>3 DEF TypeOK
    <3>2. PeriodsListed(issuer)' = PeriodsListed(issuer) \cup {q}
      BY <2>4, <3>1, AppendProperties DEF PeriodsListed
    <3>3. \A w \in Version : attest'[<<w, issuer, p>>]
             = IF w = v /\ p = q THEN a ELSE attest[<<w, issuer, p>>]
      BY <2>1, <2>2 DEF TypeOK, DataKey
    <3>4. CASE p = q
      BY <2>2, <2>6, <3>2, <3>3, <3>4
    <3>5. CASE p # q
      BY <2>6, <3>2, <3>3, <3>5 DEF IndexComplete
    <3> QED
      BY <3>4, <3>5
  <2> QED
    BY <2>5, <2>6
<1>2. CASE UNCHANGED bookVars
  BY <1>2 DEF IndexComplete, PeriodsListed, bookVars
<1> QED
  BY <1>1, <1>2, StepKinds DEF IndexComplete

(* list_periods never misses a period that has an attestation, nor names   *)
(* one that has none.                                                      *)
THEOREM Indexed == Spec => []IndexComplete
<1>1. Init => IndexComplete
  <2> SUFFICES ASSUME Init, NEW issuer \in Address, NEW p \in Period
               PROVE  p \in PeriodsListed(issuer)
                         <=> \E v \in Version : attest[<<v, issuer, p>>] # None
    BY DEF IndexComplete
  <2>1. PeriodsListed(issuer) = {}
    BY DEF Init, PeriodsListed
  <2>2. \A v \in Version : attest[<<v, issuer, p>>] = None
    BY DEF Init, DataKey
  <2> QED
    BY <2>1, <2>2
<1> QED
  BY <1>1, TypeCorrect, Enablement, IndexStep, PTL DEF Spec

-----------------------------------------------------------------------------
(* A statement written for period p is a solvency claim for p.             *)
LEMMA WritesClaim ==
    ASSUME TypeOK, NEW v \in Version, NEW a, NEW caller, NEW issuer \in Address,
           NEW s \in SignalVector, NEW proof \in Proof,
           Writes(v, a, caller, issuer, s, proof)
    PROVE  Statement(v, a) \in Ledger!SolvencyClaims(vk[v], PeriodOf(v, s))
<1>1. WellFormed(v, s)
  BY DEF Writes, Accepts, Answer, RequireIssuerAuth
<1>2. /\ Statement(v, a) \in Provable[vk[v]]
      /\ Statement(v, a)[1] = 1
      /\ Statement(v, a) = Scalars(s)
  BY WritesProven
<1>3. DOMAIN s = 1..Arity[v]
  BY <1>1, WordsOfWellFormed
<1>4. Arity[v] \in Nat /\ Arity[v] \in 1..Arity[v]
  BY DEF Arity, Version
<1>5. Len(Scalars(s)) = Arity[v]
  BY <1>3, <1>4 DEF Scalars
<1>6. Scalars(s)[Arity[v]] = PeriodOf(v, s)
  BY <1>1, <1>3, <1>4, AmountsAndFlags DEF Scalars, PeriodOf
<1> QED
  BY <1>2, <1>5, <1>6 DEF Ledger!SolvencyClaims

(* Every call of the contract adopts a key, writes one line of the book,   *)
(* or leaves both alone.                                                   *)
LEMMA LedgerStep ==
    ASSUME TypeOK, EnablementOrder, [Next]_vars
    PROVE  [Ledger!Next]_<<vk, Book>>
<1>1. ASSUME NEW v \in Version, NEW a, NEW caller \in Address, NEW issuer \in Address,
             NEW s \in SignalVector, NEW proof \in Proof,
             Writes(v, a, caller, issuer, s, proof)
      PROVE  Ledger!Next
  <2>1. PICK p \in Period : p = PeriodOf(v, s) /\ <<v, issuer, p>> \in DataKey
    BY <1>1, WordsOfWellFormed DEF Writes, Accepts, Answer, RequireIssuerAuth, DataKey
  <2>2. vk[v] # None /\ attest[<<v, issuer, p>>] = None /\ a # None /\ vk' = vk
    <3>1. a # None /\ vk' = vk
      BY <1>1, WritesOneLine
    <3> QED
      BY <1>1, <2>1, <3>1 DEF Writes, Accepts, Answer, RequireIssuerAuth, HasAttestation
  <2>3. \A d \in DataKey : attest'[d] = IF d = <<v, issuer, p>> THEN a ELSE attest[d]
    BY <1>1, <2>1 DEF Writes, Record, TypeOK
  <2>4. Book[<<v, issuer, p>>] = None
    BY <2>1, <2>2 DEF Book
  <2>5. Book' = [Book EXCEPT ![<<v, issuer, p>>] = Statement(v, a)]
    <3>1. \A d \in DataKey : d # <<v, issuer, p>> => Book'[d] = Book[d]
      BY <2>3 DEF Book
    <3>2. Book'[<<v, issuer, p>>] = Statement(v, a)
      BY <2>1, <2>2, <2>3 DEF Book
    <3>3. Book = [d \in DataKey |-> Book[d]] /\ Book' = [d \in DataKey |-> Book'[d]]
      BY DEF Book
    <3> QED
      BY <2>1, <3>1, <3>2, <3>3
  <2>6. Statement(v, a) \in Ledger!SolvencyClaims(vk[v], p)
    BY <1>1, <2>1, WritesClaim
  <2>7. Ledger!WriteLine(v, issuer, p)
    BY <2>2, <2>4, <2>5, <2>6 DEF Ledger!WriteLine
  <2> QED
    BY <2>7 DEF Ledger!Next
<1>2. ASSUME NEW v \in Version, NEW k \in VerificationKey, UNCHANGED bookVars,
             vk[v] = None, vk' = [vk EXCEPT ![v] = k]
      PROVE  Ledger!Next
  <2>1. Book' = Book
    BY <1>2 DEF Book, bookVars
  <2>2. Ledger!AdoptKey(v, k)
    BY <1>2, <2>1 DEF Ledger!AdoptKey
  <2> QED
    BY <2>2 DEF Ledger!Next
<1>3. CASE UNCHANGED <<bookVars, vk>>
  BY <1>3 DEF Book, bookVars
<1> QED
  BY <1>1, <1>2, <1>3, StepKinds

(* The contract, with its oracle, custodian, events and clock hidden, is   *)
(* an append-only book of provable claims of solvency.                     *)
THEOREM Refinement == Spec => ImplementsLedger
<1>1. Init => Ledger!Init
  BY DEF Init, Ledger!Init, Book, Ledger!Line, DataKey
<1>2. TypeOK /\ EnablementOrder /\ [Next]_vars => [Ledger!Next]_<<vk, Book>>
  BY LedgerStep
<1> QED
  BY <1>1, <1>2, TypeCorrect, Enablement, PTL DEF Spec, ImplementsLedger, Ledger!Spec

(* An attestation adds one line to the index and one entry to the list of  *)
(* its issuer; every other call leaves the index alone.                    *)
LEMMA IndexLineStep ==
    ASSUME TypeOK, EnablementOrder, [Next]_vars
    PROVE  [Index!Next]_<<Lines, periods>>
<1>1. ASSUME NEW v \in Version, NEW a, NEW caller \in Address, NEW issuer \in Address,
             NEW s \in SignalVector, NEW proof \in Proof,
             Writes(v, a, caller, issuer, s, proof)
      PROVE  Index!Next
  <2>1. PICK p \in Period : p = PeriodOf(v, s) /\ <<v, issuer, p>> \in DataKey
    BY <1>1, WordsOfWellFormed DEF Writes, Accepts, Answer, RequireIssuerAuth, DataKey
  <2>2. attest[<<v, issuer, p>>] = None /\ a # None
    <3>1. a # None
      BY <1>1, WritesOneLine
    <3> QED
      BY <1>1, <2>1, <3>1 DEF Writes, Accepts, Answer, RequireIssuerAuth, HasAttestation
  <2>3. \A d \in DataKey : attest'[d] = IF d = <<v, issuer, p>> THEN a ELSE attest[d]
    BY <1>1, <2>1 DEF Writes, Record, TypeOK
  <2>4. Lines' = Lines \cup {<<v, issuer, p>>}
    BY <2>1, <2>2, <2>3 DEF Lines
  <2>5. periods' = [periods EXCEPT ![issuer] = Append(@, p)]
    BY <1>1, <2>1 DEF Writes, Record, AppendPeriod
  <2>6. Index!Attest(v, issuer, p)
    BY <2>2, <2>4, <2>5 DEF Index!Attest, Lines
  <2> QED
    BY <2>6 DEF Index!Next
<1>2. CASE UNCHANGED bookVars
  BY <1>2 DEF Lines, bookVars
<1> QED
  BY <1>1, <1>2, StepKinds

(* Seen through list_periods and the get_attestation calls only, the       *)
(* contract is the index that the client's registry is written against.    *)
THEOREM IndexRefinement == Spec => ImplementsIndex
<1>1. Init => Index!Init
  BY DEF Init, Index!Init, Lines, DataKey
<1>2. TypeOK /\ EnablementOrder /\ [Next]_vars => [Index!Next]_<<Lines, periods>>
  BY IndexLineStep
<1> QED
  BY <1>1, <1>2, TypeCorrect, Enablement, PTL DEF Spec, ImplementsIndex, Index!Spec

-----------------------------------------------------------------------------
(* The invariant behind CustodianBindingSound: the current custodian is    *)
(* among those ever designated.                                            *)
CustodianInv == CustodianBindingSound /\ (custodian # None => custodian \in custodians)

(* A designation adds to the custodians ever known; a v3 attestation that  *)
(* says it is signed was signed by the one designated then.                *)
LEMMA CustodianStep ==
    ASSUME TypeOK, CustodianInv, [Next]_vars
    PROVE  CustodianInv'
<1>1. ASSUME NEW v \in Version, NEW a, NEW caller \in Address, NEW issuer \in Address,
             NEW s \in SignalVector, NEW proof \in Proof,
             Writes(v, a, caller, issuer, s, proof)
      PROVE  CustodianInv'
  <2>1. custodian' = custodian /\ custodians' = custodians
    BY <1>1 DEF Writes, Record, configVars, historyVars
  <2>2. ASSUME NEW other \in Address, NEW p \in Period,
               attest'[<<3, other, p>>] # None, attest'[<<3, other, p>>].custodian_bound
        PROVE  \E pk \in custodians : attest'[<<3, other, p>>].reserve_commitment \in Signed[pk]
    <3>1. <<3, other, p>> \in DataKey
      BY DEF DataKey, Version
    <3>2. attest' = [attest EXCEPT ![<<v, issuer, PeriodOf(v, s)>>] = a]
      BY <1>1 DEF Writes, Record
    <3>3. CASE <<3, other, p>> = <<v, issuer, PeriodOf(v, s)>>
      <4>1. v = 3 /\ attest'[<<3, other, p>>] = a
        BY <3>1, <3>2, <3>3 DEF TypeOK
      <4>2. a.custodian_bound /\ a.reserve_commitment = s[2]
        BY <1>1, <2>2, <4>1 DEF Writes, NewValues, UnsignedV3, SignedV3, AttestationV3
      <4>3. CustodianSigned(s[2])
        BY <1>1, <4>1, <4>2 DEF Writes
      <4> QED
        BY <4>1, <4>2, <4>3 DEF CustodianSigned, CustodianInv
    <3>4. CASE <<3, other, p>> # <<v, issuer, PeriodOf(v, s)>>
      <4>1. attest'[<<3, other, p>>] = attest[<<3, other, p>>]
        BY <3>1, <3>2, <3>4 DEF TypeOK
      <4> QED
        BY <2>2, <4>1 DEF CustodianInv, CustodianBindingSound
    <3> QED
      BY <3>3, <3>4
  <2> QED
    BY <2>1, <2>2 DEF CustodianInv, CustodianBindingSound
<1>2. ASSUME NEW caller \in Address, NEW pk \in CustodianKey, SetCustodian(caller, pk)
      PROVE  CustodianInv'
  BY <1>2 DEF SetCustodian, bookVars, CustodianInv, CustodianBindingSound
<1>3. CASE UNCHANGED <<attest, custodian, custodians>>
  BY <1>3 DEF CustodianInv, CustodianBindingSound
<1>4. ASSUME NEW caller \in Address, NEW issuer \in Address,
             NEW s \in SignalVector, NEW proof \in Proof,
             AttestCall(caller, issuer, s, proof)
      PROVE  \E v \in Version : \E a : Writes(v, a, caller, issuer, s, proof)
  BY <1>4, AttestWrites
<1>5. ASSUME \/ \E adm \in Address, k \in VerificationKey : Initialize(adm, k)
             \/ \E caller \in Address, k \in VerificationKey :
                   InitV2(caller, k) \/ InitV3(caller, k)
             \/ \E caller, o \in Address : SetOracle(caller, o)
             \/ \E caller \in Address, p \in Period, c \in Word :
                   PublishOracleCommitment(caller, p, c)
             \/ CloseLedger
             \/ UNCHANGED vars
      PROVE  UNCHANGED <<attest, custodian, custodians>>
  BY <1>5 DEF Initialize, InitV2, InitV3, RegisterKey, SetOracle, PublishOracleCommitment,
              CloseLedger, configVars, bookVars, historyVars, vars
<1> QED
  BY <1>1, <1>2, <1>3, <1>4, <1>5 DEF Next, AttestCall

(* No attestation says it is custodian-bound unless some custodian that    *)
(* the admin designated has signed its reserves.                           *)
THEOREM CustodianBinding == Spec => []CustodianBindingSound
<1>1. Init => CustodianInv
  BY DEF Init, CustodianInv, CustodianBindingSound, DataKey, Version
<1>2. CustodianInv => CustodianBindingSound
  BY DEF CustodianInv
<1> QED
  BY <1>1, <1>2, TypeCorrect, CustodianStep, PTL DEF Spec

-----------------------------------------------------------------------------
Publications(p) == {n \in DOMAIN published : published[n].period = p}

LastPublished(p, n) == n \in Publications(p) /\ \A m \in Publications(p) : m <= n

(* The invariant behind OracleBindingExact: the commitment stored for a    *)
(* period is the last one published for it, and no publication is counted  *)
(* after an event that is still to come.                                   *)
OracleInv ==
    /\ \A n \in DOMAIN published : published[n].after <= Len(events)
    /\ \A p \in Period : oracleCommitment[p] = None => Publications(p) = {}
    /\ \A p \in Period : oracleCommitment[p] # None =>
          \E n \in DOMAIN published :
             LastPublished(p, n) /\ published[n].commitment = oracleCommitment[p]

BoundAt(a, prior) ==
    /\ a.oracle_bound <=> prior # {}
    /\ a.oracle_bound => \E n \in prior :
          (\A m \in prior : m <= n) /\ published[n].commitment = a.price_commitment

(* An event's flag stays right: it and the publications before it stay.    *)
LEMMA OracleStep ==
    ASSUME TypeOK, OracleInv, OracleBindingExact, [Next]_vars
    PROVE  OracleInv' /\ OracleBindingExact'
<1>1. ASSUME NEW v \in Version, NEW a, NEW caller \in Address, NEW issuer \in Address,
             NEW s \in SignalVector, NEW proof \in Proof,
             Writes(v, a, caller, issuer, s, proof)
      PROVE  OracleInv' /\ OracleBindingExact'
  <2> DEFINE e == [version |-> v, attestation |-> a]
  <2>1. /\ published' = published /\ oracleCommitment' = oracleCommitment
        /\ events' = Append(events, e)
    BY <1>1 DEF Writes, Record, configVars, historyVars
  <2>2. /\ Len(events') = Len(events) + 1 /\ Len(events) \in Nat
        /\ DOMAIN events' = DOMAIN events \cup {Len(events) + 1}
        /\ DOMAIN events = 1..Len(events)
        /\ events'[Len(events) + 1] = e
        /\ \A j \in DOMAIN events : events'[j] = events[j]
    BY <2>1, AppendProperties, LenProperties DEF TypeOK
  <2>3. \A n \in DOMAIN published : published[n].after \in Nat
    <3>1. published \in Seq([period : Period, commitment : Word, after : Nat])
      BY DEF TypeOK
    <3>2. \A n \in DOMAIN published :
             published[n] \in [period : Period, commitment : Word, after : Nat]
      BY <3>1, LenProperties, ElementOfSeq
    <3> QED
      BY <3>2
  <2>4. OracleInv'
    BY <2>1, <2>2, <2>3 DEF OracleInv, Publications, LastPublished
  <2>5. \A p, j : PublishedBefore(p, j)' = PublishedBefore(p, j)
    BY <2>1 DEF PublishedBefore
  <2>6. ASSUME NEW j \in DOMAIN events, events'[j].version = 3
        PROVE  BoundAt(events'[j].attestation,
                       PublishedBefore(events'[j].attestation.period_id, j))
    <3>1. events[j].version = 3 /\ events'[j] = events[j]
      BY <2>2, <2>6
    <3>2. BoundAt(events[j].attestation,
                  PublishedBefore(events[j].attestation.period_id, j))
      BY <2>6, <3>1 DEF OracleBindingExact, BoundAt
    <3> QED
      BY <3>1, <3>2
  <2>7. ASSUME v = 3
        PROVE  BoundAt(a, PublishedBefore(a.period_id, Len(events) + 1))
    <3>1. PICK p \in Period : p = PeriodOf(v, s) /\ a.period_id = p
      BY <1>1, WordsOfWellFormed DEF Writes, Accepts, Answer, RequireIssuerAuth
    <3>2. PublishedBefore(p, Len(events) + 1) = Publications(p)
      BY <2>2, <2>3 DEF OracleInv, PublishedBefore, Publications
    <3>3. a \in {UnsignedV3(issuer, s), SignedV3(issuer, s)} /\ OracleAdmits(s)
      BY <1>1, <2>7 DEF Writes, NewValues
    <3>4. /\ a.oracle_bound = (oracleCommitment[p] # None)
          /\ a.price_commitment = s[3]
          /\ oracleCommitment[p] \in {None, s[3]}
      BY <2>7, <3>1, <3>3
      DEF UnsignedV3, SignedV3, AttestationV3, OracleBound, OracleAdmits
    <3>5. CASE oracleCommitment[p] = None
      BY <3>1, <3>2, <3>4, <3>5 DEF OracleInv, BoundAt
    <3>6. CASE oracleCommitment[p] # None
      <4>1. PICK n \in DOMAIN published :
               LastPublished(p, n) /\ published[n].commitment = oracleCommitment[p]
        BY <3>6 DEF OracleInv
      <4> QED
        BY <3>1, <3>2, <3>4, <3>6, <4>1 DEF BoundAt, LastPublished
    <3> QED
      BY <3>5, <3>6
  <2>8. ASSUME NEW j \in DOMAIN events', events'[j].version = 3
        PROVE  BoundAt(events'[j].attestation,
                       PublishedBefore(events'[j].attestation.period_id, j))
    <3>1. CASE j \in DOMAIN events
      BY <2>6, <2>8, <3>1
    <3>2. CASE j = Len(events) + 1
      BY <2>2, <2>7, <2>8, <3>2
    <3> QED
      BY <2>2, <3>1, <3>2
  <2>9. OracleBindingExact'
    BY <2>1, <2>5, <2>8 DEF OracleBindingExact, BoundAt
  <2> QED
    BY <2>4, <2>9
<1>2. ASSUME NEW caller \in Address, NEW p \in Period, NEW c \in Word,
             PublishOracleCommitment(caller, p, c)
      PROVE  OracleInv' /\ OracleBindingExact'
  <2> DEFINE r == [period |-> p, commitment |-> c, after |-> Len(events)]
  <2>0. PICK last : last = Len(published) + 1
    OBVIOUS
  <2>1. /\ published' = Append(published, r) /\ events' = events
        /\ oracleCommitment' = [oracleCommitment EXCEPT ![p] = c]
    BY <1>2 DEF PublishOracleCommitment, bookVars
  <2>2. /\ DOMAIN published' = DOMAIN published \cup {last}
        /\ DOMAIN published = 1..Len(published) /\ Len(published) \in Nat
        /\ published'[last] = r
        /\ \A n \in DOMAIN published : published'[n] = published[n]
    BY <2>0, <2>1, AppendProperties, LenProperties, SMTT(30) DEF TypeOK
  <2>3. Len(events) \in Nat /\ DOMAIN events = 1..Len(events)
    BY LenProperties DEF TypeOK
  <2>4. c # None
    BY NoneAssumption, SignalAssumption
  <2>5. \A n \in DOMAIN published' : published'[n].after <= Len(events')
    BY <2>1, <2>2, <2>3 DEF OracleInv
  <2>6. /\ Publications(p)' = Publications(p) \cup {last}
        /\ \A q \in Period : q # p => Publications(q)' = Publications(q)
    BY <2>2 DEF Publications
  <2>7. LastPublished(p, last)' /\ published'[last].commitment = oracleCommitment'[p]
    <3>1. last \in Nat /\ \A m \in Publications(p) : m <= last
      BY <2>0, <2>2 DEF Publications
    <3>2. published'[last].commitment = c
      BY <2>2
    <3>3. oracleCommitment'[p] = c
      BY <2>1 DEF TypeOK
    <3> QED
      BY <2>2, <2>6, <3>1, <3>2, <3>3 DEF LastPublished
  <2>8. ASSUME NEW q \in Period, q # p
        PROVE  /\ oracleCommitment'[q] = oracleCommitment[q]
               /\ \A n \in DOMAIN published : LastPublished(q, n)' <=> LastPublished(q, n)
    BY <2>1, <2>6, <2>8 DEF LastPublished, TypeOK
  <2>9. OracleInv'
    <3>1. \A q \in Period : oracleCommitment'[q] = None => Publications(q)' = {}
      BY <2>1, <2>4, <2>6, <2>8 DEF OracleInv, TypeOK
    <3>2. ASSUME NEW q \in Period, oracleCommitment'[q] # None
          PROVE  \E n \in DOMAIN published' :
                    LastPublished(q, n)' /\ published'[n].commitment = oracleCommitment'[q]
      <4>1. CASE q = p
        BY <2>2, <2>7, <4>1
      <4>2. CASE q # p
        <5>1. PICK n \in DOMAIN published :
                 LastPublished(q, n) /\ published[n].commitment = oracleCommitment[q]
          BY <2>8, <3>2, <4>2 DEF OracleInv
        <5> QED
          BY <2>2, <2>8, <4>2, <5>1
      <4> QED
        BY <4>1, <4>2
    <3> QED
      BY <2>5, <3>1, <3>2 DEF OracleInv
  <2>10. \A q : \A j \in DOMAIN events : PublishedBefore(q, j)' = PublishedBefore(q, j)
    BY <2>2, <2>3 DEF PublishedBefore
  <2>11. \A q, j : \A n \in PublishedBefore(q, j) : published'[n] = published[n]
    BY <2>2 DEF PublishedBefore
  <2>12. OracleBindingExact'
    <3> SUFFICES ASSUME NEW j \in DOMAIN events, events[j].version = 3
                 PROVE  BoundAt(events[j].attestation,
                                PublishedBefore(events[j].attestation.period_id, j))'
      BY <2>1 DEF OracleBindingExact, BoundAt
    <3>1. BoundAt(events[j].attestation,
                  PublishedBefore(events[j].attestation.period_id, j))
      BY DEF OracleBindingExact, BoundAt
    <3> DEFINE a == events[j].attestation
               prior == PublishedBefore(a.period_id, j)
    <3>2. PublishedBefore(a.period_id, j)' = prior /\ a' = a
      BY <2>1, <2>10
    <3>3. \A n \in prior : published'[n] = published[n]
      BY <2>11
    <3> HIDE DEF a, prior
    <3> QED
      BY <2>1, <2>10, <3>1, <3>2, <3>3 DEF BoundAt, a, prior
  <2> QED
    BY <2>9, <2>12
<1>3. CASE UNCHANGED <<oracleCommitment, published, events>>
  BY <1>3 DEF OracleInv, OracleBindingExact, Publications, LastPublished, PublishedBefore
<1>4. ASSUME NEW caller \in Address, NEW issuer \in Address,
             NEW s \in SignalVector, NEW proof \in Proof,
             AttestCall(caller, issuer, s, proof)
      PROVE  \E v \in Version : \E a : Writes(v, a, caller, issuer, s, proof)
  BY <1>4, AttestWrites
<1>5. ASSUME \/ \E adm \in Address, k \in VerificationKey : Initialize(adm, k)
             \/ \E caller \in Address, k \in VerificationKey :
                   InitV2(caller, k) \/ InitV3(caller, k)
             \/ \E caller, o \in Address : SetOracle(caller, o)
             \/ \E caller \in Address, pk \in CustodianKey : SetCustodian(caller, pk)
             \/ CloseLedger
             \/ UNCHANGED vars
      PROVE  UNCHANGED <<oracleCommitment, published, events>>
  BY <1>5 DEF Initialize, InitV2, InitV3, RegisterKey, SetOracle, SetCustodian,
              CloseLedger, configVars, bookVars, historyVars, vars
<1> QED
  BY <1>1, <1>2, <1>3, <1>4, <1>5 DEF Next, AttestCall

(* oracle_bound says exactly whether a price had been published before the *)
(* attestation, and then which: whatever is published later, by whichever  *)
(* oracle.                                                                 *)
THEOREM OracleBinding == Spec => []OracleBindingExact
<1>1. Init => OracleInv /\ OracleBindingExact
  BY DEF Init, OracleInv, OracleBindingExact, Publications
<1> QED
  BY <1>1, TypeCorrect, OracleStep, PTL DEF Spec

-----------------------------------------------------------------------------
(* The invariant behind EventLogReplays: no event is from the future.      *)
EventInv ==
    EventLogReplays /\ \A j \in DOMAIN events : events[j].attestation.ledger_ts <= now

(* An event carries an attestation and the key that it is stored under.   *)
LEMMA EventTypes ==
    ASSUME TypeOK, NEW j \in DOMAIN events
    PROVE  /\ EventKey(j) \in DataKey
           /\ events[j].attestation.issuer \in Address
           /\ events[j].attestation.ledger_ts \in Nat
           /\ DOMAIN events = 1..Len(events) /\ Len(events) \in Nat
<1>1. events \in Seq([version : Version,
                      attestation : AttestationsV1 \cup AttestationsV2 \cup AttestationsV3])
  BY DEF TypeOK
<1>2. /\ events[j] \in [version : Version,
                        attestation : AttestationsV1 \cup AttestationsV2 \cup AttestationsV3]
      /\ DOMAIN events = 1..Len(events) /\ Len(events) \in Nat
  BY <1>1, LenProperties, ElementOfSeq
<1>3. events[j].version \in Version
  BY <1>2
<1>4. events[j].attestation \in AttestationsV1 \cup AttestationsV2 \cup AttestationsV3
  BY <1>2
<1>5. /\ events[j].attestation.issuer \in Address
      /\ events[j].attestation.period_id \in Period
      /\ events[j].attestation.ledger_ts \in 0..MaxTime
  BY <1>4 DEF AttestationsV1, AttestationsV2, AttestationsV3
<1> QED
  BY <1>2, <1>3, <1>5, NumberAssumption DEF EventKey, DataKey

(* Counting an issuer's events: an event of its own counts, so its number  *)
(* is at least one and at most that of all its events.                     *)
LEMMA OwnEventsCounted ==
    ASSUME NEW issuer, NEW n \in Nat
    PROVE  /\ IsFiniteSet(OwnEvents(issuer, n))
           /\ Cardinality(OwnEvents(issuer, n)) \in Nat
           /\ \A j \in 1..n :
                 /\ Cardinality(OwnEvents(issuer, j)) <= Cardinality(OwnEvents(issuer, n))
                 /\ Cardinality(OwnEvents(issuer, j)) \in Nat
                 /\ events[j].attestation.issuer = issuer
                       => Cardinality(OwnEvents(issuer, j)) >= 1
<1>1. ASSUME NEW k \in Nat
      PROVE  /\ IsFiniteSet(OwnEvents(issuer, k))
             /\ Cardinality(OwnEvents(issuer, k)) \in Nat
  <2>1. IsFiniteSet(1..k)
    BY FS_Interval
  <2>2. OwnEvents(issuer, k) \in SUBSET (1..k)
    BY DEF OwnEvents
  <2>3. IsFiniteSet(OwnEvents(issuer, k))
    BY <2>1, <2>2, FS_Subset
  <2> QED
    BY <2>3, FS_CardinalityType
<1>2. ASSUME NEW j \in 1..n
      PROVE  Cardinality(OwnEvents(issuer, j)) <= Cardinality(OwnEvents(issuer, n))
  <2>1. OwnEvents(issuer, j) \in SUBSET OwnEvents(issuer, n)
    BY DEF OwnEvents
  <2> QED
    BY <1>1, <2>1, FS_Subset
<1>3. ASSUME NEW j \in 1..n, events[j].attestation.issuer = issuer
      PROVE  Cardinality(OwnEvents(issuer, j)) >= 1
  <2>1. j \in OwnEvents(issuer, j)
    BY <1>3 DEF OwnEvents
  <2>2. Cardinality(OwnEvents(issuer, j)) # 0
    BY <1>1, <2>1, FS_EmptySet
  <2> QED
    BY <1>1, <2>2
<1> QED
  BY <1>1, <1>2, <1>3

(* What an attestation adds to the log is announced for the first time, at *)
(* the end of the log and of its issuer's list.                            *)
LEMMA EventStep ==
    ASSUME TypeOK, TypeOK', EnablementOrder, EventInv, [Next]_vars
    PROVE  EventInv'
<1>1. ASSUME NEW v \in Version, NEW a, NEW caller \in Address, NEW issuer \in Address,
             NEW s \in SignalVector, NEW proof \in Proof,
             Writes(v, a, caller, issuer, s, proof)
      PROVE  EventInv'
  <2>1. PICK p \in Period : p = PeriodOf(v, s) /\ <<v, issuer, p>> \in DataKey
    BY <1>1, WordsOfWellFormed DEF Writes, Accepts, Answer, RequireIssuerAuth, DataKey
  <2>2. PICK d \in DataKey : d = <<v, issuer, p>>
    BY <2>1
  <2>3. PICK n : n = Len(events) + 1
    OBVIOUS
  <2>4. /\ attest[d] = None /\ a # None
        /\ attest'[d] = a
        /\ \A e \in DataKey : e # d => attest'[e] = attest[e]
    <3>1. a # None
      BY <1>1, WritesOneLine
    <3>2. attest' = [attest EXCEPT ![d] = a]
      BY <1>1, <2>1, <2>2 DEF Writes, Record
    <3>3. attest[d] = None
      BY <1>1, <2>1, <2>2 DEF Writes, Accepts, Answer, RequireIssuerAuth, HasAttestation
    <3> QED
      BY <3>1, <3>2, <3>3 DEF TypeOK
  <2>5. /\ Len(events) \in Nat /\ Len(events') = n
        /\ DOMAIN events = 1..Len(events)
        /\ DOMAIN events' = DOMAIN events \cup {n} /\ n \notin DOMAIN events
        /\ events'[n] = [version |-> v, attestation |-> a]
        /\ \A j \in DOMAIN events : events'[j] = events[j]
    <3> DEFINE S == [version : Version,
                     attestation : AttestationsV1 \cup AttestationsV2 \cup AttestationsV3]
               e == [version |-> v, attestation |-> a]
    <3>1. events' = Append(events, e)
      BY <1>1 DEF Writes, Record
    <3>2. events \in Seq(S)
      BY DEF TypeOK
    <3>3. e \in S
      BY <1>1 DEF Writes, Stored, Version
    <3>4. /\ Len(events) \in Nat /\ DOMAIN events = 1..Len(events)
          /\ Len(events') = Len(events) + 1
          /\ DOMAIN events' = 1..(Len(events) + 1)
          /\ events'[Len(events) + 1] = e
          /\ \A j \in 1..Len(events) : events'[j] = events[j]
      <4> HIDE DEF S, e
      <4> QED
        BY <3>1, <3>2, <3>3, AppendProperties, LenProperties
    <3> QED
      BY <2>3, <3>4
  <2>6. now' = now /\ a.ledger_ts = now /\ a.issuer = issuer /\ a.period_id = p
    <3>1. a.ledger_ts = now
      BY <1>1 DEF Writes, NewValues, AttestationV1, AttestationV2, AttestationV3,
                  UnsignedV3, SignedV3, Version
    <3> QED
      BY <1>1, <2>1, <3>1 DEF Writes, Record
  <2>7. EventKey(n)' = d /\ \A j \in DOMAIN events : EventKey(j)' = EventKey(j)
    BY <2>2, <2>5, <2>6 DEF EventKey
  <2>8. \A j \in DOMAIN events : EventKey(j) # d /\ EventKey(j) \in DataKey
    BY <2>4, EventTypes DEF EventInv, EventLogReplays
  <2>9. \A e \in DataKey : attest'[e] # None <=> \E j \in DOMAIN events' : EventKey(j)' = e
    BY <2>4, <2>5, <2>7 DEF EventInv, EventLogReplays
  <2>10. \A j \in DOMAIN events' : attest'[EventKey(j)'] = events'[j].attestation
    BY <2>4, <2>5, <2>7, <2>8 DEF EventInv, EventLogReplays
  <2>11. \A j \in DOMAIN events' : events'[j].attestation.ledger_ts <= now'
    <3>1. now \in Nat
      BY NumberAssumption DEF TypeOK
    <3> QED
      BY <2>5, <2>6, <3>1 DEF EventInv
  <2>12. \A j, k \in DOMAIN events' : j < k =>
            /\ EventKey(j)' # EventKey(k)'
            /\ events'[j].attestation.ledger_ts <= events'[k].attestation.ledger_ts
    <3> SUFFICES ASSUME NEW j \in DOMAIN events', NEW k \in DOMAIN events', j < k
                 PROVE  /\ EventKey(j)' # EventKey(k)'
                        /\ events'[j].attestation.ledger_ts
                              <= events'[k].attestation.ledger_ts
      OBVIOUS
    <3>1. j \in DOMAIN events
      BY <2>3, <2>5
    <3>2. CASE k \in DOMAIN events
      BY <2>5, <2>7, <3>1, <3>2 DEF EventInv, EventLogReplays
    <3>3. CASE k = n
      BY <2>5, <2>6, <2>7, <2>8, <3>1, <3>3 DEF EventInv
    <3> QED
      BY <2>5, <3>2, <3>3
  <2>13. /\ periods' = [periods EXCEPT ![issuer] = Append(@, p)]
         /\ periods[issuer] \in Seq(Period)
    BY <1>1, <2>1 DEF Writes, Record, AppendPeriod, TypeOK
  <2>14. /\ periods'[issuer] = Append(periods[issuer], p)
         /\ \A other \in Address : other # issuer => periods'[other] = periods[other]
    BY <2>13 DEF TypeOK
  <2>15. /\ Len(periods'[issuer]) = Len(periods[issuer]) + 1
         /\ Len(periods[issuer]) \in Nat
         /\ periods'[issuer][Len(periods[issuer]) + 1] = p
         /\ \A j \in 1..Len(periods[issuer]) : periods'[issuer][j] = periods[issuer][j]
    BY <2>13, <2>14, AppendProperties, LenProperties
  <2>16. /\ \A other : \A j \in DOMAIN events : OwnEvents(other, j)' = OwnEvents(other, j)
         /\ \A other : other # issuer => OwnEvents(other, n)' = OwnEvents(other, Len(events))
         /\ OwnEvents(issuer, n)' = OwnEvents(issuer, Len(events)) \cup {n}
         /\ n \notin OwnEvents(issuer, Len(events))
    BY <2>3, <2>5, <2>6 DEF OwnEvents
  <2>17. Cardinality(OwnEvents(issuer, n)') = Cardinality(OwnEvents(issuer, Len(events))) + 1
    <3>1. IsFiniteSet(OwnEvents(issuer, Len(events)))
      BY <2>5, OwnEventsCounted
    <3>2. Cardinality(OwnEvents(issuer, Len(events)) \cup {n})
             = Cardinality(OwnEvents(issuer, Len(events))) + 1
      BY <2>16, <3>1, FS_AddElement
    <3> QED
      BY <2>16, <3>2
  <2>18. \A other \in Address :
            Len(periods'[other]) = Cardinality(OwnEvents(other, Len(events))')
    <3> SUFFICES ASSUME NEW other \in Address
                 PROVE  Len(periods'[other]) = Cardinality(OwnEvents(other, n)')
      BY <2>5
    <3>1. Len(periods[other]) = Cardinality(OwnEvents(other, Len(events)))
      BY DEF EventInv, EventLogReplays
    <3> QED
      BY <2>14, <2>15, <2>16, <2>17, <3>1
  <2>19. ASSUME NEW j \in DOMAIN events'
         PROVE  (periods[events[j].attestation.issuer]
                        [Cardinality(OwnEvents(events[j].attestation.issuer, j))]
                   = events[j].attestation.period_id)'
    <3>1. CASE j = n
      <4>1. Cardinality(OwnEvents(issuer, n)') = Len(periods[issuer]) + 1
        BY <2>17 DEF EventInv, EventLogReplays
      <4> QED
        BY <2>5, <2>6, <2>15, <3>1, <4>1
    <3>2. CASE j \in DOMAIN events
      <4>1. PICK other \in Address : other = events[j].attestation.issuer
        BY <3>2, EventTypes
      <4>2. PICK m : m = Cardinality(OwnEvents(other, j))
        OBVIOUS
      <4>3. m \in 1..Len(periods[other])
        <5>1. /\ m \in Nat /\ m >= 1
              /\ m <= Cardinality(OwnEvents(other, Len(events)))
          BY <2>5, <3>2, <4>1, <4>2, OwnEventsCounted
        <5>2. Len(periods[other]) = Cardinality(OwnEvents(other, Len(events)))
          BY DEF EventInv, EventLogReplays
        <5>3. Len(periods[other]) \in Nat
          BY LenProperties DEF TypeOK
        <5> QED
          BY <5>1, <5>2, <5>3
      <4>4. periods[other][m] = events[j].attestation.period_id
        BY <3>2, <4>1, <4>2 DEF EventInv, EventLogReplays
      <4>5. periods'[other][m] = periods[other][m]
        BY <2>14, <2>15, <4>3
      <4> QED
        BY <2>5, <2>16, <3>2, <4>1, <4>2, <4>4, <4>5
    <3> QED
      BY <2>5, <3>1, <3>2
  <2> QED
    BY <2>9, <2>10, <2>11, <2>12, <2>18, <2>19 DEF EventInv, EventLogReplays
<1>2. CASE UNCHANGED bookVars
  <2>1. attest' = attest /\ periods' = periods /\ events' = events
    BY <1>2 DEF bookVars
  <2>2. \A j \in DOMAIN events : events[j].attestation.ledger_ts <= now'
    <3>1. now \in Nat /\ now' \in Nat
      BY NumberAssumption DEF TypeOK
    <3> QED
      BY <3>1, NeverBack, EventTypes DEF EventInv
  <2>3. /\ \A j : EventKey(j)' = EventKey(j)
        /\ \A issuer, n : OwnEvents(issuer, n)' = OwnEvents(issuer, n)
    BY <2>1 DEF EventKey, OwnEvents
  <2> QED
    BY <2>1, <2>2, <2>3 DEF EventInv, EventLogReplays
<1> QED
  BY <1>1, <1>2, StepKinds

(* The invariant of the events holds always.                              *)
LEMMA EventsInvariant == Spec => []EventInv
<1>1. Init => EventInv
  <2> SUFFICES ASSUME Init PROVE EventInv
    OBVIOUS
  <2>1. DOMAIN events = {} /\ Len(events) = 0
    BY DEF Init
  <2>2. \A issuer \in Address : Len(periods[issuer]) = 0
    BY DEF Init
  <2>3. \A issuer : OwnEvents(issuer, 0) = {}
    BY DEF OwnEvents
  <2>4. Cardinality({}) = 0
    BY FS_EmptySet
  <2>5. \A d \in DataKey : attest[d] = None
    BY DEF Init
  <2> QED
    BY <2>1, <2>2, <2>3, <2>4, <2>5 DEF EventInv, EventLogReplays
<1> QED
  BY <1>1, TypeCorrect, Enablement, EventStep, PTL DEF Spec

(* Whoever replays the events has the storage: every attestation once, in  *)
(* the order of the period lists and of time.                              *)
THEOREM EventsReplay == Spec => []EventLogReplays
<1>1. EventInv => EventLogReplays
  BY DEF EventInv
<1> QED
  BY <1>1, EventsInvariant, PTL

-----------------------------------------------------------------------------
(* A refusal for signals, proof, insolvency or replay rests on what never  *)
(* changes: the vector, the registered key, a recorded attestation.        *)
LEMMA AnswerStays ==
    ASSUME TypeOK, EnablementOrder, [Next]_vars,
           NEW issuer \in Address, NEW s \in SignalVector, NEW proof \in Proof,
           Answer(3, issuer, s, proof) \in FinalAnswer
    PROVE  Answer(3, issuer, s, proof)' = Answer(3, issuer, s, proof)
<1>1. vk[3] # None
  BY DEF Answer, FinalAnswer
<1>2. vk'[3] = vk[3]
  BY <1>1, PermanenceStep DEF Version
<1>3. CASE ~WellFormed(3, s) \/ ~DispatchVerify(vk[3], proof, s) \/ s[1] # 1
  BY <1>1, <1>2, <1>3 DEF Answer
<1>4. CASE WellFormed(3, s) /\ DispatchVerify(vk[3], proof, s) /\ s[1] = 1
  <2>1. attest[<<3, issuer, PeriodOf(3, s)>>] # None
    BY <1>1, <1>4 DEF Answer, FinalAnswer, StellarisContractError, HasAttestation
  <2>2. <<3, issuer, PeriodOf(3, s)>> \in DataKey
    BY <1>4, WordsOfWellFormed DEF DataKey, Version
  <2>3. attest'[<<3, issuer, PeriodOf(3, s)>>] # None
    BY <2>1, <2>2, PermanenceStep
  <2> QED
    BY <1>1, <1>2, <1>4, <2>1, <2>3 DEF Answer, HasAttestation
<1> QED
  BY <1>3, <1>4

(* A final answer is an error of the checks that the two v3 calls share.  *)
LEMMA AnswerKinds ==
    ASSUME NEW issuer, NEW s, NEW proof
    PROVE  /\ "Ok" \notin FinalAnswer
           /\ AnswerV3(issuer, s, proof) \in FinalAnswer
                 => AnswerV3(issuer, s, proof) = Answer(3, issuer, s, proof)
           /\ \A sig : AnswerV3Signed(issuer, s, proof, sig) \in FinalAnswer
                 => AnswerV3Signed(issuer, s, proof, sig) = Answer(3, issuer, s, proof)
BY DEF AnswerV3, AnswerV3Signed, FinalAnswer, StellarisContractError

(* No step changes a final answer.                                        *)
LEMMA RefusalStep ==
    ASSUME TypeOK, EnablementOrder, [Next]_vars,
           NEW issuer \in Address, NEW s \in SignalVector, NEW proof \in Proof
    PROVE  /\ AnswerV3(issuer, s, proof) \in FinalAnswer
                 => AnswerV3(issuer, s, proof)' = AnswerV3(issuer, s, proof)
           /\ \A sig \in Signature :
                 AnswerV3Signed(issuer, s, proof, sig) \in FinalAnswer
                    => AnswerV3Signed(issuer, s, proof, sig)'
                          = AnswerV3Signed(issuer, s, proof, sig)
<1>1. ASSUME AnswerV3(issuer, s, proof) \in FinalAnswer
      PROVE  AnswerV3(issuer, s, proof)' = AnswerV3(issuer, s, proof)
  <2>1. Answer(3, issuer, s, proof)' = AnswerV3(issuer, s, proof)
    BY <1>1, AnswerKinds, AnswerStays
  <2>2. Answer(3, issuer, s, proof)' # "Ok"
    BY <1>1, <2>1, AnswerKinds
  <2> QED
    BY <2>1, <2>2 DEF AnswerV3
<1>2. ASSUME NEW sig \in Signature, AnswerV3Signed(issuer, s, proof, sig) \in FinalAnswer
      PROVE  AnswerV3Signed(issuer, s, proof, sig)' = AnswerV3Signed(issuer, s, proof, sig)
  <2>1. Answer(3, issuer, s, proof)' = AnswerV3Signed(issuer, s, proof, sig)
    BY <1>2, AnswerKinds, AnswerStays
  <2>2. Answer(3, issuer, s, proof)' # "Ok"
    BY <1>2, <2>1, AnswerKinds
  <2> QED
    BY <2>1, <2>2 DEF AnswerV3Signed
<1> QED
  BY <1>1, <1>2

(* An issuer that is refused for its signals, its proof, its insolvency or *)
(* a replay gets the same answer to the same call for ever.                *)
THEOREM RefusalsPermanent == Spec => RefusalsStay
<1>1. TypeOK /\ EnablementOrder /\ [Next]_vars
      => [\A issuer \in Address, s \in SignalVector, proof \in Proof :
            /\ LET answer == AnswerV3(issuer, s, proof)
               IN  answer \in FinalAnswer => AnswerV3(issuer, s, proof)' = answer
            /\ \A sig \in Signature :
                  LET answer == AnswerV3Signed(issuer, s, proof, sig)
                  IN  answer \in FinalAnswer
                         => AnswerV3Signed(issuer, s, proof, sig)' = answer]_vars
  BY RefusalStep
<1> QED
  BY <1>1, TypeCorrect, Enablement, PTL DEF Spec, RefusalsStay

=============================================================================
