------------------------------ MODULE MintGuard ------------------------------
(***************************************************************************)
(* SolvencyGatedToken, the token whose mint is gated by a v3 attestation   *)
(* (contracts/mint-guard/src/lib.rs, and its in-crate copy                 *)
(* contracts/stellaris/src/mint_guard.rs, which its tests run).  The guard *)
(* only reads the attestation contract and the ledger clock: attestV3 and  *)
(* now belong to the environment, and SecureMint supplies them.            *)
(***************************************************************************)
EXTENDS Integers, Sequences, FiniteSetsExt

CONSTANTS
    Address, Period, None,
    Holder,        \* the accounts tokens are minted to
    GuardConfig,   \* the GuardConfig values init may be called with
    Amount,        \* the i128 amounts mint may be called with
    I128Max        \* largest i128

VARIABLES
    attestV3,       \* get_attestation_v3, by <<issuer, period>>
    now,            \* env.ledger().timestamp()
    config,         \* GuardKey::Config
    currentPeriod,  \* GuardKey::CurrentPeriod
    supply,         \* GuardKey::Supply
    balances,       \* GuardKey::Balance(who)
    mints           \* history: the successful mints, in order

guardVars == <<config, currentPeriod, supply, balances, mints>>

-----------------------------------------------------------------------------
ReadAttestation == attestV3[<<config.issuer, currentPeriod>>]

(* Fault: freshness is measured with a strict bound one second too late. *)
TooOldOffByOne(a) == config.max_age_secs > 0 /\ now - a.ledger_ts > config.max_age_secs + 1

(* An age below zero, a saturated subtraction in the code, is not too old. *)
TooOld(a) == config.max_age_secs > 0 /\ now - a.ledger_ts > config.max_age_secs

(* enforce_guard: the first requirement that the attestation a fails. *)
EnforceGuard(a) ==
    IF ~a.aggregate_solvent THEN "NotSolvent"
    ELSE IF a.period_id < currentPeriod THEN "StaleAttestationPeriod"
    ELSE IF TooOld(a) THEN "StaleAttestationAge"
    ELSE IF config.require_oracle_bound /\ ~a.oracle_bound
         THEN "OracleBindingRequired"
    ELSE IF config.require_custodian_bound /\ ~a.custodian_bound
         THEN "CustodianBindingRequired"
    ELSE "Ok"

(* check_mint_allowed *)
CheckMintAllowed ==
    IF config = None THEN "NotInitialized"
    ELSE IF ReadAttestation = None THEN "NoAttestation"
    ELSE EnforceGuard(ReadAttestation)

ExceedsCap(total) == config.supply_cap > 0 /\ total > config.supply_cap

(* What mint returns to its issuer; an error rolls the call back. *)
MintResult(to, amount) ==
    IF config = None THEN "NotInitialized"
    ELSE IF amount <= 0 THEN "InvalidAmount"
    ELSE IF CheckMintAllowed # "Ok" THEN CheckMintAllowed
    ELSE IF supply + amount > I128Max THEN "Overflow"
    ELSE IF ExceedsCap(supply + amount) THEN "SupplyCapExceeded"
    ELSE IF balances[to] + amount > I128Max THEN "Overflow"
    ELSE "Ok"

-----------------------------------------------------------------------------
Init ==
    /\ config = None
    /\ currentPeriod = None
    /\ supply = 0
    /\ balances = [who \in Holder |-> 0]
    /\ mints = << >>

(* init: unauthenticated, but only the first call succeeds. *)
InitGuard(c, p) ==
    /\ config = None
    /\ config' = c
    /\ currentPeriod' = p
    /\ supply' = 0
    /\ UNCHANGED <<balances, mints>>

SetCurrentPeriod(caller, p) ==
    /\ config # None
    /\ caller = config.issuer
    /\ p > currentPeriod
    /\ currentPeriod' = p
    /\ UNCHANGED <<config, supply, balances, mints>>

(* Fault: the new balance replaces the old one. *)
CreditOverwrites(to, amount) == balances' = [balances EXCEPT ![to] = amount]

Credit(to, amount) == balances' = [balances EXCEPT ![to] = @ + amount]

Mint(caller, to, amount) ==
    /\ config # None
    /\ caller = config.issuer
    /\ MintResult(to, amount) = "Ok"
    /\ supply' = supply + amount
    /\ Credit(to, amount)
    /\ mints' = Append(mints, [to |-> to, amount |-> amount,
                               period |-> currentPeriod, at |-> now])
    /\ UNCHANGED <<config, currentPeriod>>

Next ==
    \/ \E c \in GuardConfig, p \in Period : InitGuard(c, p)
    \/ \E caller \in Address, p \in Period : SetCurrentPeriod(caller, p)
    \/ \E caller \in Address, to \in Holder, amount \in Amount :
          Mint(caller, to, amount)

-----------------------------------------------------------------------------
(* The supply is what the holders have, and never leaves what an i128 and  *)
(* a configured cap allow, although mint writes the supply before it       *)
(* checks the balance.                                                     *)
SupplyAccounted ==
    /\ supply = MapThenSumSet(LAMBDA who : balances[who], Holder)
    /\ supply \in 0..I128Max
    /\ \A who \in Holder : balances[who] \in 0..I128Max
    /\ config # None => ~ExceedsCap(supply)

=============================================================================
