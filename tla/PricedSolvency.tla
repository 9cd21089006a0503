----------------------------- MODULE PricedSolvency -----------------------------
(***************************************************************************)
(* The v3 circuit (por_v3.circom), unrolled in the order of its loops: a   *)
(* prover who wants a proof assigns the private inputs one by one, each to *)
(* any field element, and a step exists where the constraints on what it   *)
(* assigns are satisfied.  The commitments bind the same signals and are   *)
(* left out.                                                               *)
(*                                                                         *)
(* exact* and honest are history: the same sums and comparisons over the   *)
(* integers.  No constraint reads them.                                    *)
(***************************************************************************)
EXTENDS CircuitComponents, Sequences

CONSTANTS
    NAssets, NPerAsset,   \* nAssets, nPerAsset
    PriceLimit,           \* 2^priceBits
    Candidate             \* the field elements that the prover tries

(* Fault: no headroom for the accounts of an asset. *)
NarrowAssetLimit == BalLimit

AssetLimit == 32 * BalLimit                  \* assetCmpBits = balBits + 5
AggLimit == 32 * (PriceLimit * BalLimit)     \* aggBits = priceBits + balBits + 5

(* The reserve matrix fits ReserveCommit, and the wider comparison is      *)
(* below the field order.                                                  *)
ASSUME SizeAssumption ==
    /\ {NAssets, NPerAsset, BalLimit, PriceLimit} \subseteq Nat \ {0}
    /\ NAssets * NPerAsset <= 16
    /\ 2 * AggLimit <= P
    /\ Candidate \subseteq Field
    /\ None \notin BOOLEAN

VARIABLES
    a,           \* assets done
    i,           \* accounts of the current asset done
    accA,        \* reserve sum of the current asset
    flags,       \* assetSolvent
    accPR, accPL,      \* priced reserves and liabilities of the assets done
    aggregate,   \* aggregateSolvent, once the proof is complete
    exactA, exactPR, exactPL, honest

acc == <<accA, accPR, accPL>>
exact == <<exactA, exactPR, exactPL>>
circuitVars == <<a, i, acc, flags, aggregate, exact, honest>>

Init ==
    /\ a = 0 /\ i = 0
    /\ accA = 0 /\ accPR = 0 /\ accPL = 0
    /\ flags = << >> /\ aggregate = None
    /\ exactA = 0 /\ exactPR = 0 /\ exactPL = 0 /\ honest = << >>

(* Fault: balances are not range-checked. *)
AnyAccount(x) ==
    /\ a < NAssets /\ i < NPerAsset
    /\ i' = i + 1
    /\ accA' = FieldAdd(accA, x)
    /\ exactA' = exactA + x
    /\ UNCHANGED <<a, flags, accPR, accPL, aggregate, exactPR, exactPL, honest>>

(* resRange[a][i], and accA += reserve[a][i] *)
Account(x) ==
    /\ a < NAssets /\ i < NPerAsset
    /\ RangeCheck(BalLimit, x)
    /\ i' = i + 1
    /\ accA' = FieldAdd(accA, x)
    /\ exactA' = exactA + x
    /\ UNCHANGED <<a, flags, accPR, accPL, aggregate, exactPR, exactPL, honest>>

(* Fault: the liabilities are not priced. *)
PricesReservesOnly(price, liability) ==
    /\ accPR' = FieldAdd(accPR, FieldMul(price, accA))
    /\ accPL' = FieldAdd(accPL, liability)
    /\ exactPR' = exactPR + price * exactA
    /\ exactPL' = exactPL + price * liability

(* pricedReserve[a], pricedLiab[a] *)
Priced(price, liability) ==
    /\ accPR' = FieldAdd(accPR, FieldMul(price, accA))
    /\ accPL' = FieldAdd(accPL, FieldMul(price, liability))
    /\ exactPR' = exactPR + price * exactA
    /\ exactPL' = exactPL + price * liability

(* Fault: a liability is not range-checked. *)
AnyLiability(price, liability) ==
    RangeCheck(PriceLimit, price) /\ GteSatisfiable(AssetLimit, accA, liability)

(* liabRange[a], priceRange[a] and the constraints inside assetGte[a] *)
AssetConstraints(price, liability) ==
    /\ RangeCheck(BalLimit, liability)
    /\ RangeCheck(PriceLimit, price)
    /\ GteSatisfiable(AssetLimit, accA, liability)

AssetFlag(liability) == GteOut(AssetLimit, accA, liability)

Asset(price, liability) ==
    /\ a < NAssets /\ i = NPerAsset
    /\ AssetConstraints(price, liability)
    /\ flags' = Append(flags, AssetFlag(liability))
    /\ honest' = Append(honest, exactA >= liability)
    /\ Priced(price, liability)
    /\ a' = a + 1 /\ i' = 0 /\ accA' = 0 /\ exactA' = 0
    /\ UNCHANGED aggregate

(* prCheck, plCheck and the constraints inside aggGte *)
AggregateConstraints ==
    /\ RangeCheck(AggLimit, accPR)
    /\ RangeCheck(AggLimit, accPL)
    /\ GteSatisfiable(AggLimit, accPR, accPL)

Aggregate ==
    /\ a = NAssets /\ aggregate = None
    /\ AggregateConstraints
    /\ aggregate' = GteOut(AggLimit, accPR, accPL)
    /\ UNCHANGED <<a, i, acc, flags, exact, honest>>

Next ==
    \/ \E x \in Candidate : Account(x)
    \/ \E price, liability \in Candidate : Asset(price, liability)
    \/ Aggregate

Spec == Init /\ [][Next]_circuitVars

-----------------------------------------------------------------------------
TypeOK ==
    /\ a \in 0..NAssets /\ i \in 0..NPerAsset
    /\ accA \in Field /\ accPR \in Field /\ accPL \in Field
    /\ exactA \in Nat /\ exactPR \in Nat /\ exactPL \in Nat
    /\ flags \in Seq(BOOLEAN) /\ honest \in Seq(BOOLEAN)
    /\ Len(flags) = a /\ Len(honest) = a
    /\ aggregate \in BOOLEAN \cup {None}

(* No assignment makes a sum wrap in the field: the accumulators hold the  *)
(* integer sums (the purpose of the range checks).                         *)
NoWraparound == accA = exactA /\ accPR = exactPR /\ accPL = exactPL

(* What a proof says is true of the integers, and a true statement never   *)
(* gets a proof of its contrary: every flag is the comparison it stands    *)
(* for.                                                                    *)
FlagsExact ==
    /\ flags = honest
    /\ aggregate # None => aggregate = (exactPR >= exactPL)

(* The two statements of a proof agree: if every asset is solvent, so is   *)
(* the aggregate, at any prices.                                           *)
AllAssetsMeansAggregate ==
    aggregate # None /\ (\A j \in DOMAIN flags : flags[j]) => aggregate

(* The bit widths suffice: whatever is summed so far, an asset can be      *)
(* compared at any price and liability in range, and after the last so can *)
(* the aggregates: no inputs in range are left without a proof.            *)
Complete ==
    /\ a < NAssets /\ i = NPerAsset =>
          \A price \in 0..(PriceLimit - 1), liability \in 0..(BalLimit - 1) :
              AssetConstraints(price, liability)
    /\ a = NAssets => AggregateConstraints
=================================================================================
