--------------------------- MODULE SecureMint_proofs ---------------------------
(***************************************************************************)
(* Theorems about the token composed with the attestation contract, for    *)
(* every policy, every set of accounts and every amount.                   *)
(***************************************************************************)
EXTENDS SecureMint, StellarisContract_proofs, SumTheorems

(* Seen without the token, the composition is the contract alone.          *)
LEMMA Composition == SystemSpec => Spec
<1>1. SystemInit => Init
  BY DEF SystemInit
<1>2. [SystemNext]_systemVars => [Next]_vars
  BY DEF SystemNext, ContractStep, GuardStep, systemVars
<1> QED
  BY <1>1, <1>2, PTL DEF SystemSpec, Spec

(* What the contract's theorems say about the composition. *)
ContractInv ==
    /\ TypeOK /\ EnablementOrder /\ RecordedStatementsProven /\ EventInv

(* The attestation contract keeps its invariant under the token.          *)
LEMMA ContractHolds == SystemSpec => []ContractInv
<1>1. TypeOK /\ EnablementOrder /\ RecordedStatementsProven /\ EventInv => ContractInv
  BY DEF ContractInv
<1> QED
  BY <1>1, Composition, TypeCorrect, Enablement, RecordedProven, EventsInvariant, PTL

(* What the guard reads is an attestation of the period and issuer it      *)
(* asked for, recorded at the latest now, and proven.                      *)
LEMMA ReadableAttestation ==
    ASSUME ContractInv, NEW issuer \in Address, NEW p \in Period,
           attest[<<3, issuer, p>>] # None
    PROVE  /\ <<3, issuer, p>> \in DataKey
           /\ attest[<<3, issuer, p>>] \in AttestationsV3
           /\ attest[<<3, issuer, p>>].period_id = p
           /\ attest[<<3, issuer, p>>].ledger_ts <= now
           /\ Statement(3, attest[<<3, issuer, p>>]) \in Provable[vk[3]]
<1> DEFINE d == <<3, issuer, p>>
<1>1. d \in DataKey
  BY DEF DataKey, Version
<1>2. attest[d] \in AttestationsV3
  <2>1. attest[d] \in Stored(d[1])
    BY <1>1 DEF ContractInv, TypeOK
  <2> QED
    BY <2>1 DEF Stored
<1>3. /\ attest[d].period_id = d[3]
      /\ Statement(d[1], attest[d]) \in Provable[vk[d[1]]]
  BY <1>1 DEF ContractInv, RecordedStatementsProven
<1>4. attest[d].ledger_ts <= now
  <2>1. PICK j \in DOMAIN events : EventKey(j) = d
    BY <1>1 DEF ContractInv, EventInv, EventLogReplays
  <2>2. attest[d] = events[j].attestation
    BY <2>1 DEF ContractInv, EventInv, EventLogReplays
  <2> QED
    BY <2>2 DEF ContractInv, EventInv
<1> QED
  BY <1>1, <1>2, <1>3, <1>4

-----------------------------------------------------------------------------
(* The guard's storage: nothing is minted before init, and the policy and  *)
(* the period have their types afterwards.                                 *)
GuardTypes ==
    /\ config \in GuardConfig \cup {None}
    /\ config = None => mints = << >>
    /\ config # None => currentPeriod \in Period
    /\ mints \in Seq([to : Holder, amount : Amount, period : Period, at : Nat])

(* One mint's entitlement. *)
Backed(m) ==
    LET a == attest[<<3, config.issuer, m.period>>]
    IN  /\ a # None
        /\ a.ledger_ts <= m.at
        /\ config.max_age_secs > 0 => m.at - a.ledger_ts <= config.max_age_secs
        /\ config.require_oracle_bound => a.oracle_bound
        /\ config.require_custodian_bound => a.custodian_bound
        /\ Statement(3, a) \in Provable[vk[3]]

(* When the guard lets a mint pass, the attestation it read entitles it.   *)
LEMMA MintIsBacked ==
    ASSUME ContractInv, GuardTypes, config # None, Gate = "Ok",
           NEW m, m.period = currentPeriod, m.at = now
    PROVE  Backed(m)
<1> DEFINE a == attest[<<3, config.issuer, currentPeriod>>]
<1>1. config.issuer \in Address /\ currentPeriod \in Period
  BY ConfigAssumption DEF GuardTypes
<1>2. Guard!ReadAttestation = a
  BY <1>1 DEF Guard!ReadAttestation, GetAttestationV3
<1>3. a # None /\ Guard!EnforceGuard(a) = "Ok"
  BY <1>2 DEF Gate, Guard!CheckMintAllowed
<1>4. /\ ~Guard!TooOld(a)
      /\ config.require_oracle_bound => a.oracle_bound
      /\ config.require_custodian_bound => a.custodian_bound
  BY <1>3 DEF Guard!EnforceGuard
<1>5. /\ a \in AttestationsV3
      /\ a.ledger_ts <= now
      /\ Statement(3, a) \in Provable[vk[3]]
  BY <1>1, <1>3, ReadableAttestation
<1>6. config.max_age_secs > 0 => now - a.ledger_ts <= config.max_age_secs
  <2>1. config.max_age_secs \in Nat
    BY ConfigAssumption DEF GuardTypes
  <2>2. now \in 0..MaxTime
    BY DEF ContractInv, TypeOK
  <2>3. a.ledger_ts \in 0..MaxTime
    BY <1>5 DEF AttestationsV3
  <2> QED
    BY <1>4, <2>1, <2>2, <2>3, NumberAssumption DEF Guard!TooOld
<1> QED
  BY <1>3, <1>4, <1>5, <1>6 DEF Backed

(* A mint stays backed whatever the contract does later.                   *)
LEMMA StaysBacked ==
    ASSUME ContractInv, [Next]_vars, config' = config, config # None,
           GuardTypes, NEW m, m.period \in Period, Backed(m)
    PROVE  Backed(m)'
<1>1. <<3, config.issuer, m.period>> \in DataKey
  BY ConfigAssumption DEF GuardTypes, DataKey, Version
<1>2. attest'[<<3, config.issuer, m.period>>] = attest[<<3, config.issuer, m.period>>]
  BY <1>1, PermanenceStep DEF Backed, ContractInv
<1>3. vk'[3] = vk[3]
  <2>1. vk[3] # None
    BY <1>1 DEF Backed, ContractInv, EnablementOrder
  <2> QED
    BY <2>1, PermanenceStep DEF ContractInv, Version
<1>4. \A a : Statement(3, a)' = Statement(3, a)
  BY DEF Statement, Bit
<1> QED
  BY <1>2, <1>3, <1>4 DEF Backed

MintInv == GuardTypes /\ (config # None => \A j \in DOMAIN mints : Backed(mints[j]))

(* Every step keeps the invariant of the mints.                           *)
LEMMA MintStep ==
    ASSUME ContractInv, MintInv, [SystemNext]_systemVars
    PROVE  MintInv'
<1>0. [Next]_vars
  BY DEF SystemNext, ContractStep, GuardStep, systemVars
<1>1. ASSUME UNCHANGED guardVars
      PROVE  MintInv'
  <2>1. GuardTypes' /\ config' = config /\ mints' = mints
    BY <1>1 DEF MintInv, GuardTypes, guardVars
  <2>2. ASSUME config # None, NEW j \in DOMAIN mints
        PROVE  Backed(mints[j])'
    <3>1. mints[j] \in [to : Holder, amount : Amount, period : Period, at : Nat]
      BY LenProperties, ElementOfSeq DEF MintInv, GuardTypes
    <3>2. PICK m : m = mints[j] /\ m.period \in Period /\ Backed(m)
      BY <2>2, <3>1 DEF MintInv
    <3>3. Backed(m)'
      BY <1>0, <2>1, <2>2, <3>2, StaysBacked DEF MintInv
    <3> QED
      BY <2>1, <3>2, <3>3 DEF Backed
  <2> QED
    BY <2>1, <2>2 DEF MintInv
<1>2. ASSUME NEW c \in GuardConfig, NEW p \in Period, Guard!InitGuard(c, p), UNCHANGED vars
      PROVE  MintInv'
  <2>1. mints' = << >> /\ config' = c /\ currentPeriod' = p /\ c # None
    BY <1>2, ConfigAssumption DEF Guard!InitGuard, MintInv, GuardTypes
  <2> QED
    BY <2>1 DEF MintInv, GuardTypes
<1>3. ASSUME NEW caller \in Address, NEW p \in Period,
             Guard!SetCurrentPeriod(caller, p), UNCHANGED vars
      PROVE  MintInv'
  <2>1. config' = config /\ mints' = mints /\ currentPeriod' = p
    BY <1>3 DEF Guard!SetCurrentPeriod
  <2>2. UNCHANGED <<attest, vk>>
    BY <1>3 DEF vars, configVars, bookVars
  <2> QED
    BY <2>1, <2>2 DEF MintInv, GuardTypes, Backed, Statement, Bit
<1>4. ASSUME NEW caller \in Address, NEW to \in Holder, NEW amount \in Amount,
             Guard!Mint(caller, to, amount), UNCHANGED vars
      PROVE  MintInv'
  <2>1. PICK m : m = [to |-> to, amount |-> amount, period |-> currentPeriod, at |-> now]
    OBVIOUS
  <2>2. /\ config # None /\ config' = config /\ currentPeriod' = currentPeriod
        /\ mints' = Append(mints, m) /\ Guard!MintResult(to, amount) = "Ok"
    BY <1>4, <2>1 DEF Guard!Mint
  <2>3. UNCHANGED <<attest, vk>>
    BY <1>4 DEF vars, configVars, bookVars
  <2>4. Gate = "Ok"
    BY <2>2 DEF Guard!MintResult, Gate
  <2>5. Backed(m)
    BY <2>1, <2>2, <2>4, MintIsBacked DEF MintInv
  <2>6. m \in [to : Holder, amount : Amount, period : Period, at : Nat]
    BY <2>1, <2>2, NumberAssumption DEF MintInv, GuardTypes, ContractInv, TypeOK
  <2>7. /\ mints' \in Seq([to : Holder, amount : Amount, period : Period, at : Nat])
        /\ DOMAIN mints' = DOMAIN mints \cup {Len(mints) + 1}
        /\ mints'[Len(mints) + 1] = m
        /\ \A j \in DOMAIN mints : mints'[j] = mints[j]
    BY <2>2, <2>6, AppendProperties, LenProperties DEF MintInv, GuardTypes
  <2>8. \A x : Backed(x)' <=> Backed(x)
    BY <2>2, <2>3 DEF Backed, Statement, Bit
  <2>9. \A j \in DOMAIN mints' : Backed(mints'[j])
    BY <2>2, <2>5, <2>7 DEF MintInv
  <2>10. GuardTypes'
    BY <2>2, <2>7 DEF MintInv, GuardTypes
  <2>11. ASSUME NEW j \in DOMAIN mints'
         PROVE  Backed(mints[j])'
    <3>1. PICK x : x = mints'[j]
      OBVIOUS
    <3>2. Backed(x)'
      BY <2>8, <2>9, <3>1
    <3> QED
      BY <3>1, <3>2 DEF Backed
  <2> QED
    BY <2>10, <2>11 DEF MintInv
<1> QED
  BY <1>1, <1>2, <1>3, <1>4 DEF SystemNext, ContractStep, GuardStep, Guard!Next, systemVars

(* The invariant of the mints holds always.                               *)
LEMMA MintsInvariant == SystemSpec => []MintInv
<1>1. SystemInit => MintInv
  <2> SUFFICES ASSUME SystemInit PROVE MintInv
    OBVIOUS
  <2>1. config = None /\ mints = << >>
    BY DEF SystemInit, Guard!Init
  <2> QED
    BY <2>1 DEF MintInv, GuardTypes
<1> QED
  BY <1>1, MintStep, ContractHolds, PTL DEF SystemSpec

(* Every mint ever made is justified by what can be read on the ledger at  *)
(* any later time.                                                         *)
THEOREM IssuanceStaysBacked == SystemSpec => []IssuanceBacked
<1>1. MintInv => IssuanceBacked
  BY DEF MintInv, GuardTypes, IssuanceBacked, Backed
<1> QED
  BY <1>1, MintsInvariant, PTL

-----------------------------------------------------------------------------
(* The guard's judgement of one attestation changes only by its age.       *)
LEMMA JudgementFinal ==
    ASSUME NEW a, a \in AttestationsV3, config' = config, currentPeriod' = currentPeriod,
           now \in Nat, now' \in Nat, now <= now', MaxTime \in Nat,
           config.max_age_secs \in Nat
    PROVE  /\ Guard!EnforceGuard(a) = "Ok"
                 => Guard!EnforceGuard(a)' \in {"Ok", "StaleAttestationAge"}
           /\ Guard!EnforceGuard(a) # "Ok" => Guard!EnforceGuard(a)' # "Ok"
           /\ Guard!EnforceGuard(a)' # "NoAttestation"
<1>1. Guard!TooOld(a) => Guard!TooOld(a)'
  <2>1. a.ledger_ts \in 0..MaxTime
    BY DEF AttestationsV3
  <2> QED
    BY <2>1 DEF Guard!TooOld
<1> QED
  BY <1>1 DEF Guard!EnforceGuard

(* Within a period an open gate closes by age only, and one closed by what *)
(* is recorded stays closed.                                              *)
LEMMA GateStep ==
    ASSUME ContractInv, ContractInv', GuardTypes, [SystemNext]_systemVars,
           config # None, currentPeriod' = currentPeriod
    PROVE  /\ Gate = "Ok" => Gate' \in {"Ok", "StaleAttestationAge"}
           /\ Gate \notin {"Ok", "NoAttestation"} => Gate' \notin {"Ok", "NoAttestation"}
<1> DEFINE d == <<3, config.issuer, currentPeriod>>
<1>0. [Next]_vars
  BY DEF SystemNext, ContractStep, GuardStep, systemVars
<1>1. config' = config
  BY DEF SystemNext, ContractStep, GuardStep, Guard!Next, Guard!InitGuard,
         Guard!SetCurrentPeriod, Guard!Mint, guardVars, systemVars
<1>2. /\ config.issuer \in Address /\ currentPeriod \in Period
      /\ config.max_age_secs \in Nat
  BY ConfigAssumption DEF GuardTypes
<1>3. d \in DataKey
  BY <1>2 DEF DataKey, Version
<1>4. Guard!ReadAttestation = attest[d] /\ Guard!ReadAttestation' = attest'[d]
  BY <1>1, <1>2 DEF Guard!ReadAttestation, GetAttestationV3
<1>5. CASE attest[d] = None
  BY <1>4, <1>5 DEF Gate, Guard!CheckMintAllowed
<1>6. CASE attest[d] # None
  <2>1. PICK a : a = attest[d] /\ a \in AttestationsV3
    BY <1>2, <1>6, ReadableAttestation
  <2>2. attest'[d] = a
    BY <1>0, <1>3, <1>6, <2>1, PermanenceStep DEF ContractInv
  <2>3. Gate = Guard!EnforceGuard(a) /\ Gate' = Guard!EnforceGuard(a)'
    BY <1>1, <1>4, <1>6, <2>1, <2>2 DEF Gate, Guard!CheckMintAllowed, Guard!EnforceGuard,
                                        Guard!TooOld
  <2>4. now \in Nat /\ now' \in Nat /\ MaxTime \in Nat
    BY NumberAssumption DEF ContractInv, TypeOK
  <2>5. now <= now'
    BY <1>0, NeverBack DEF ContractInv
  <2> QED
    BY <1>1, <1>2, <2>1, <2>3, <2>4, <2>5, JudgementFinal
<1> QED
  BY <1>5, <1>6

(* Within a period an open gate closes only by age, and a gate closed by   *)
(* an attestation stays closed.                                            *)
THEOREM GateStaysDecided == SystemSpec => GateDecisionFinal
<1>1. ContractInv /\ ContractInv' /\ MintInv /\ [SystemNext]_systemVars
      => [(config # None /\ currentPeriod' = currentPeriod) =>
             /\ Gate = "Ok" => Gate' \in {"Ok", "StaleAttestationAge"}
             /\ Gate \notin {"Ok", "NoAttestation"}
                   => Gate' \notin {"Ok", "NoAttestation"}]_systemVars
  BY GateStep DEF MintInv
<1> QED
  BY <1>1, MintsInvariant, ContractHolds, PTL DEF SystemSpec, GateDecisionFinal

-----------------------------------------------------------------------------
(* A holder has no more than what was issued, and before init there is     *)
(* nothing: init resets the supply and leaves the balances.                *)
HoldingInv ==
    /\ supply \in Nat /\ balances \in [Holder -> Nat]
    /\ \A who \in Holder : balances[who] <= supply
    /\ config = None => supply = 0

(* Every step keeps what is known of single holdings.                     *)
LEMMA HoldingStep ==
    ASSUME HoldingInv, [SystemNext]_systemVars
    PROVE  HoldingInv'
<1>1. CASE UNCHANGED guardVars
  BY <1>1 DEF HoldingInv, guardVars
<1>2. ASSUME NEW c \in GuardConfig, NEW p \in Period, Guard!InitGuard(c, p)
      PROVE  HoldingInv'
  <2>1. config = None /\ supply' = 0 /\ balances' = balances /\ supply = 0
    BY <1>2 DEF Guard!InitGuard, HoldingInv
  <2> QED
    BY <2>1 DEF HoldingInv
<1>3. ASSUME NEW caller \in Address, NEW p \in Period, Guard!SetCurrentPeriod(caller, p)
      PROVE  HoldingInv'
  BY <1>3 DEF Guard!SetCurrentPeriod, HoldingInv
<1>4. ASSUME NEW caller \in Address, NEW to \in Holder, NEW amount \in Amount,
             Guard!Mint(caller, to, amount)
      PROVE  HoldingInv'
  <2>1. /\ config # None /\ config' = config /\ supply' = supply + amount
        /\ balances' = [balances EXCEPT ![to] = balances[to] + amount]
        /\ Guard!MintResult(to, amount) = "Ok"
    BY <1>4 DEF Guard!Mint, Guard!Credit
  <2>2. amount \in Nat
    <3>1. amount \in Int /\ ~(amount <= 0)
      BY <2>1, AmountAssumption DEF Guard!MintResult
    <3> QED
      BY <3>1
  <2> QED
    BY <2>1, <2>2 DEF HoldingInv
<1> QED
  BY <1>1, <1>2, <1>3, <1>4 DEF SystemNext, ContractStep, GuardStep, Guard!Next, systemVars

-----------------------------------------------------------------------------
(* What SupplyAccounted says, and what it needs of the mints to come:      *)
(* before init no holder has anything.                                     *)
AccountInv ==
    /\ HoldingInv
    /\ supply = SumOver(balances, Holder)
    /\ supply <= I128Max
    /\ config \in GuardConfig \cup {None}
    /\ config # None => ~Guard!ExceedsCap(supply)

(* One mint adds the same to the supply and to the sum of the balances.    *)
LEMMA MintAccounted ==
    ASSUME AccountInv, NEW to \in Holder, NEW amount \in Nat,
           balances' = [balances EXCEPT ![to] = balances[to] + amount]
    PROVE  SumOver(balances', Holder) = SumOver(balances, Holder) + amount
<1>1. /\ IsFiniteSet(Holder)
      /\ \A who \in Holder : balances[who] \in Int
      /\ \A who \in Holder : who # to => balances'[who] = balances[who]
      /\ balances'[to] = balances[to] + amount /\ balances'[to] \in Int
  BY HolderAssumption DEF AccountInv, HoldingInv
<1>2. SumOver(balances', Holder) =
         SumOver(balances, Holder) + (balances'[to] - balances[to])
  <2> DEFINE before == balances
             after == balances'
  <2> HIDE DEF before, after
  <2>1. /\ \A who \in Holder : before[who] \in Int
        /\ \A who \in Holder : who # to => after[who] = before[who]
        /\ after[to] \in Int
    BY <1>1 DEF before, after
  <2>2. SumOver(after, Holder) = SumOver(before, Holder) + (after[to] - before[to])
    BY <1>1, <2>1, SumUpdate
  <2> QED
    BY <2>2 DEF before, after
<1>3. balances'[to] - balances[to] = amount
  BY <1>1
<1> QED
  BY <1>2, <1>3

(* Every step keeps the supply the sum of the holdings.                   *)
LEMMA AccountStep ==
    ASSUME AccountInv, [SystemNext]_systemVars
    PROVE  AccountInv'
<1>0. HoldingInv'
  BY HoldingStep DEF AccountInv
<1>1. CASE UNCHANGED guardVars
  BY <1>0, <1>1 DEF AccountInv, guardVars, Guard!ExceedsCap
<1>2. ASSUME NEW c \in GuardConfig, NEW p \in Period, Guard!InitGuard(c, p)
      PROVE  AccountInv'
  <2>1. /\ config = None /\ config' = c /\ supply' = supply /\ supply = 0
        /\ balances' = balances
    BY <1>2 DEF Guard!InitGuard, AccountInv, HoldingInv
  <2>2. c.supply_cap \in Int
    BY ConfigAssumption
  <2>3. ~Guard!ExceedsCap(supply)'
    BY <2>1, <2>2 DEF Guard!ExceedsCap
  <2> QED
    BY <1>0, <2>1, <2>3 DEF AccountInv
<1>3. ASSUME NEW caller \in Address, NEW p \in Period, Guard!SetCurrentPeriod(caller, p)
      PROVE  AccountInv'
  BY <1>0, <1>3 DEF Guard!SetCurrentPeriod, AccountInv, Guard!ExceedsCap
<1>4. ASSUME NEW caller \in Address, NEW to \in Holder, NEW amount \in Amount,
             Guard!Mint(caller, to, amount)
      PROVE  AccountInv'
  <2>1. /\ config # None /\ config' = config /\ supply' = supply + amount
        /\ balances' = [balances EXCEPT ![to] = balances[to] + amount]
        /\ Guard!MintResult(to, amount) = "Ok"
    BY <1>4 DEF Guard!Mint, Guard!Credit
  <2>2. amount \in Int /\ ~(amount <= 0) /\ I128Max \in Nat
    BY <2>1, AmountAssumption DEF Guard!MintResult
  <2>3. amount \in Nat
    BY <2>2
  <2>4. supply' = SumOver(balances', Holder)
    BY <2>1, <2>3, MintAccounted DEF AccountInv
  <2>5. supply' <= I128Max
    <3>1. ~(supply + amount > I128Max) /\ supply \in Nat
      BY <2>1 DEF Guard!MintResult, AccountInv, HoldingInv
    <3> QED
      BY <2>1, <2>2, <3>1
  <2>6. ~Guard!ExceedsCap(supply)'
    BY <2>1 DEF Guard!MintResult, Guard!ExceedsCap
  <2> QED
    BY <1>0, <2>1, <2>4, <2>5, <2>6 DEF AccountInv
<1> QED
  BY <1>1, <1>2, <1>3, <1>4 DEF SystemNext, ContractStep, GuardStep, Guard!Next, systemVars

(* The supply is the sum of what the holders have, and an i128 and a       *)
(* configured cap hold it, however mints and rollovers interleave.         *)
THEOREM SupplyStaysAccounted == SystemSpec => []SupplyAccounted
<1>1. SystemInit => AccountInv
  <2> SUFFICES ASSUME SystemInit PROVE AccountInv
    OBVIOUS
  <2>1. config = None /\ supply = 0 /\ balances = [who \in Holder |-> 0]
    BY DEF SystemInit, Guard!Init
  <2>2. HoldingInv
    BY <2>1 DEF HoldingInv
  <2>3. SumOver(balances, Holder) = 0
    BY <2>1, HolderAssumption, SumOfZeros
  <2> QED
    BY <2>1, <2>2, <2>3, AmountAssumption DEF AccountInv
<1>2. AccountInv /\ [SystemNext]_systemVars => AccountInv'
  BY AccountStep
<1>3. AccountInv => SupplyAccounted
  <2> SUFFICES ASSUME AccountInv PROVE SupplyAccounted
    OBVIOUS
  <2>1. supply = MapThenSumSet(LAMBDA who : balances[who], Holder)
    BY DEF AccountInv, SumOver
  <2>2. supply \in 0..I128Max
    BY AmountAssumption DEF AccountInv, HoldingInv
  <2>3. \A who \in Holder : balances[who] \in 0..I128Max
    <3> TAKE who \in Holder
    <3>1. balances[who] \in Nat /\ balances[who] <= supply /\ supply \in Nat
          /\ supply <= I128Max /\ I128Max \in Nat
      BY AmountAssumption DEF AccountInv, HoldingInv
    <3> QED
      BY <3>1
  <2>4. config # None => ~Guard!ExceedsCap(supply)
    BY DEF AccountInv
  <2> QED
    BY <2>1, <2>2, <2>3, <2>4
       DEF SupplyAccounted, Guard!SupplyAccounted, MapThenSumSet, MapThenFoldSet,
           Guard!MapThenSumSet, Guard!MapThenFoldSet
<1> QED
  BY <1>1, <1>2, <1>3, PTL DEF SystemSpec

===============================================================================
