------------------------------ MODULE SecureMint ------------------------------
(***************************************************************************)
(* The token of MintGuard deployed against the contract of                 *)
(* StellarisContract: every call of either is one ledger transaction, and  *)
(* the calls of issuers, admin, oracle and token holders interleave.       *)
(***************************************************************************)
EXTENDS StellarisContract

CONSTANTS Holder, GuardConfig, Amount, I128Max

ASSUME AmountAssumption == I128Max \in Nat /\ Amount \subseteq Int

ASSUME HolderAssumption == IsFiniteSet(Holder)

ASSUME ConfigAssumption ==
    /\ None \notin GuardConfig /\ None \notin Period
    /\ \A c \in GuardConfig :
          /\ c.issuer \in Address
          /\ c.max_age_secs \in Nat /\ c.supply_cap \in Int
          /\ c.require_oracle_bound \in BOOLEAN
          /\ c.require_custodian_bound \in BOOLEAN

VARIABLES config, currentPeriod, supply, balances, mints

(* get_attestation_v3, the cross-contract read of the guard. *)
GetAttestationV3 == [q \in Address \X Period |-> attest[<<3, q[1], q[2]>>]]

Guard == INSTANCE MintGuard WITH attestV3 <- GetAttestationV3

guardVars == <<config, currentPeriod, supply, balances, mints>>
systemVars == <<vars, guardVars>>

SystemInit == Init /\ Guard!Init

ContractStep == Next /\ UNCHANGED guardVars

GuardStep == Guard!Next /\ UNCHANGED vars

SystemNext == ContractStep \/ GuardStep

SystemSpec == SystemInit /\ [][SystemNext]_systemVars

-----------------------------------------------------------------------------
(* check_mint_allowed, as a caller sees it. *)
Gate == Guard!CheckMintAllowed

(* MintGuard's account of the supply.                                      *)
SupplyAccounted == Guard!SupplyAccounted

(* Every mint ever made is still justified by what can be read on the      *)
(* ledger today: an attestation of the configured issuer for the mint's    *)
(* period, recorded before the mint, fresh when it happened, bound as the  *)
(* policy requires, and provable under the v3 key registered now.          *)
IssuanceBacked ==
    \A j \in DOMAIN mints :
        LET m == mints[j]
            a == attest[<<3, config.issuer, m.period>>]
        IN  /\ a # None
            /\ a.ledger_ts <= m.at
            /\ config.max_age_secs > 0 => m.at - a.ledger_ts <= config.max_age_secs
            /\ config.require_oracle_bound => a.oracle_bound
            /\ config.require_custodian_bound => a.custodian_bound
            /\ Statement(3, a) \in Provable[vk[3]]

(* Within a period the gate's decision is final: an attestation that is    *)
(* stale or not bound as required keeps the period closed until the next   *)
(* rollover (it cannot be replaced), and an open gate closes only by age.  *)
GateDecisionFinal ==
    [][(config # None /\ currentPeriod' = currentPeriod) =>
          /\ Gate = "Ok" => Gate' \in {"Ok", "StaleAttestationAge"}
          /\ Gate \notin {"Ok", "NoAttestation"} => Gate' \notin {"Ok", "NoAttestation"}]_systemVars

(* mint_guard.rs on check_mint_allowed: "Ok(()) if a mint for the current  *)
(* period would be ALLOWED right now".                                     *)
DryRunMeansMintable ==
    Gate = "Ok" =>
        \E to \in Holder, amount \in Amount : Guard!MintResult(to, amount) = "Ok"

(* test_mint_guard.rs, of a period that the guard advances to after mints  *)
(* in the one before: "no fresh attestation yet -> mint BLOCKED            *)
(* (StaleAttestationPeriod)".                                              *)
NotReattested ==
    /\ \E j \in DOMAIN mints : mints[j].period < currentPeriod
    /\ attest[<<3, config.issuer, currentPeriod>>] = None

RolloverIsStale == NotReattested => Gate = "StaleAttestationPeriod"

=============================================================================
