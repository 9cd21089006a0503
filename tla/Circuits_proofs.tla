---------------------------- MODULE Circuits_proofs ----------------------------
(***************************************************************************)
(* Proofs about the circuits, for every field order that they fit.  Of v3: *)
(* sums never wrap, flags are the integer comparisons, and inputs in range *)
(* always have a proof.  Of v2 and the inclusion circuit, for trees of     *)
(* every depth: what can be shown to be included was summed, what was      *)
(* summed can be shown to be included, and the reserves cover the users.   *)
(***************************************************************************)
EXTENDS PricedSolvency, LiabilityTree, SumTheorems, TLAPS


(* The most that one account, and one asset, can add to a priced sum.      *)
CellWorth == BalLimit * PriceLimit
AssetWorth == NPerAsset * CellWorth

(* The inductive invariant: no wrap-around, and bounds by the number of    *)
(* inputs summed so far.                                                   *)
Bounds ==
    /\ exactA <= i * BalLimit
    /\ exactPR <= a * AssetWorth
    /\ exactPL <= a * AssetWorth

AllSolvent == \A j \in DOMAIN flags : flags[j]

IInv ==
    /\ TypeOK
    /\ NoWraparound
    /\ Bounds
    /\ flags = honest
    /\ aggregate # None => a = NAssets /\ aggregate = (exactPR >= exactPL)
    /\ AllSolvent => exactPR >= exactPL

-----------------------------------------------------------------------------
(* Products of naturals grow with their factors.                          *)
LEMMA ProductMonotone ==
    ASSUME NEW x \in Nat, NEW y \in Nat, NEW u \in Nat, NEW v \in Nat, x <= u, y <= v
    PROVE  x * y \in Nat /\ x * y <= u * v
<1>1. x * y <= u * y  OBVIOUS
<1>2. u * y <= u * v  OBVIOUS
<1>3. x * y \in Nat /\ u * y \in Nat /\ u * v \in Nat  OBVIOUS
<1> QED  BY <1>1, <1>2, <1>3

(* A number below the field order is its own residue.                     *)
LEMMA SmallMod ==
    ASSUME NEW x \in Nat, x < P
    PROVE  x % P = x
BY OrderAssumption

(* circomlib's comparator is exact when its operands fit its width.        *)
LEMMA GteExact ==
    ASSUME NEW limit \in Nat, NEW x \in Nat, NEW y \in Nat,
           x < limit, y < limit, 2 * limit <= P
    PROVE  GteSatisfiable(limit, x, y) /\ GteOut(limit, x, y) = (x >= y)
<1>1. y + limit - (x + 1) \in Nat /\ y + limit - (x + 1) < 2 * limit
    OBVIOUS
<1>2. Difference(limit, x, y) = y + limit - (x + 1)
    BY <1>1, SmallMod, OrderAssumption DEF Difference
<1>3. (y + limit - (x + 1) < limit) = (x >= y)
    OBVIOUS
<1> QED  BY <1>1, <1>2, <1>3 DEF GteSatisfiable, GteOut

(* One more summand adds its bound once more.                             *)
LEMMA Successor ==
    ASSUME NEW n \in Nat, NEW u \in Nat
    PROVE  n * u \in Nat /\ (n + 1) * u = n * u + u
OBVIOUS

(* What the sizes come to.                                                 *)
LEMMA Sizes ==
    /\ CellWorth \in Nat \ {0} /\ BalLimit <= CellWorth
    /\ AggLimit = 32 * CellWorth /\ 64 * CellWorth <= P
    /\ AssetWorth \in Nat /\ CellWorth <= AssetWorth
    /\ NPerAsset * BalLimit \in Nat /\ NPerAsset * BalLimit <= 16 * BalLimit
    /\ PriceLimit * (NPerAsset * BalLimit) = AssetWorth
    /\ NAssets * AssetWorth \in Nat /\ NAssets * AssetWorth <= 16 * CellWorth
<1>0. /\ NAssets \in Nat \ {0} /\ NPerAsset \in Nat \ {0} /\ NAssets * NPerAsset <= 16
      /\ BalLimit \in Nat \ {0} /\ PriceLimit \in Nat \ {0} /\ 2 * AggLimit <= P
    BY SizeAssumption
<1>1. CellWorth \in Nat \ {0} /\ BalLimit <= CellWorth  BY <1>0 DEF CellWorth
<1>2. AggLimit = 32 * CellWorth  BY <1>0 DEF AggLimit, CellWorth
<1>3. 64 * CellWorth <= P  BY <1>0, <1>1, <1>2, OrderAssumption
<1>4. AssetWorth \in Nat /\ CellWorth <= AssetWorth  BY <1>0, <1>1 DEF AssetWorth
<1>5. NPerAsset <= NAssets * NPerAsset /\ NAssets * NPerAsset \in Nat  BY <1>0
<1>6. NPerAsset <= 16  BY <1>0, <1>5
<1>7. NPerAsset * BalLimit \in Nat /\ NPerAsset * BalLimit <= 16 * BalLimit
    BY <1>0, <1>6, ProductMonotone
<1>8. PriceLimit * (NPerAsset * BalLimit) = AssetWorth
    BY <1>0 DEF AssetWorth, CellWorth
<1>9. NAssets * AssetWorth = (NAssets * NPerAsset) * CellWorth
    BY <1>0, <1>1 DEF AssetWorth
<1>10. /\ (NAssets * NPerAsset) * CellWorth \in Nat
       /\ (NAssets * NPerAsset) * CellWorth <= 16 * CellWorth
    BY <1>0, <1>1, <1>5, ProductMonotone
<1> QED  BY <1>1, <1>2, <1>3, <1>4, <1>7, <1>8, <1>9, <1>10

(* The bounds, without the counters: everything fits the comparators.      *)
LEMMA Fits ==
    ASSUME IInv
    PROVE  /\ exactA <= 16 * BalLimit /\ exactA <= NPerAsset * BalLimit
           /\ exactPR <= 16 * CellWorth /\ exactPL <= 16 * CellWorth
<1>1. /\ a \in Nat /\ a <= NAssets /\ i \in Nat /\ i <= NPerAsset
      /\ NAssets \in Nat /\ NPerAsset \in Nat /\ BalLimit \in Nat
    BY SizeAssumption DEF IInv, TypeOK
<1>2. i * BalLimit \in Nat /\ i * BalLimit <= NPerAsset * BalLimit
    BY <1>1, ProductMonotone
<1>3. a * AssetWorth \in Nat /\ a * AssetWorth <= NAssets * AssetWorth
    BY <1>1, Sizes, ProductMonotone
<1>4. exactA \in Nat /\ exactPR \in Nat /\ exactPL \in Nat  BY DEF IInv, TypeOK
<1>5. exactA <= i * BalLimit /\ exactPR <= a * AssetWorth /\ exactPL <= a * AssetWorth
    BY DEF IInv, Bounds
<1> QED  BY <1>1, <1>2, <1>3, <1>4, <1>5, Sizes

-----------------------------------------------------------------------------
(* Every accumulator starts at zero.                                      *)
LEMMA InitIInv == Init => IInv
<1> SUFFICES ASSUME Init PROVE IInv
    OBVIOUS
<1>1. NAssets \in Nat /\ NPerAsset \in Nat /\ BalLimit \in Nat /\ AssetWorth \in Nat
    BY SizeAssumption, Sizes
<1>2. TypeOK  BY <1>1, OrderAssumption DEF Init, TypeOK, Field
<1>3. NoWraparound  BY DEF Init, NoWraparound
<1>4. Bounds  BY <1>1 DEF Init, Bounds
<1>5. exactPR >= exactPL  BY DEF Init
<1> QED  BY <1>2, <1>3, <1>4, <1>5 DEF Init, IInv

(* The final comparison is satisfiable and exact. *)
LEMMA AggregateExact ==
    ASSUME IInv
    PROVE  /\ AggregateConstraints
           /\ GteOut(AggLimit, accPR, accPL) = (exactPR >= exactPL)
<1>1. /\ exactPR \in Nat /\ exactPL \in Nat /\ accPR = exactPR /\ accPL = exactPL
    BY DEF IInv, TypeOK, NoWraparound
<1>2. AggLimit \in Nat /\ 2 * AggLimit <= P
    BY Sizes, SizeAssumption
<1>3. exactPR < AggLimit /\ exactPL < AggLimit
    BY <1>1, Fits, Sizes
<1> QED  BY <1>1, <1>2, <1>3, GteExact DEF AggregateConstraints, RangeCheck

(* An asset's comparison is satisfiable and exact for a liability in range.*)
LEMMA AssetExact ==
    ASSUME IInv, NEW liability \in Nat, liability < BalLimit
    PROVE  /\ GteSatisfiable(AssetLimit, accA, liability)
           /\ AssetFlag(liability) = (exactA >= liability)
<1>0. BalLimit \in Nat \ {0} /\ accA = exactA /\ exactA \in Nat
    BY SizeAssumption DEF IInv, TypeOK, NoWraparound
<1>1. exactA < AssetLimit /\ liability < AssetLimit /\ AssetLimit \in Nat
    BY <1>0, Fits DEF AssetLimit
<1>2. 2 * AssetLimit <= P
    <2>1. BalLimit <= CellWorth /\ 64 * CellWorth <= P /\ CellWorth \in Nat  BY Sizes
    <2> QED  BY <1>0, <2>1, OrderAssumption DEF AssetLimit
<1> QED  BY <1>0, <1>1, <1>2, GteExact DEF AssetFlag

(* An account adds a range-checked balance to its asset.                  *)
LEMMA AccountKeepsIInv ==
    ASSUME IInv, NEW x \in Candidate, Account(x)
    PROVE  IInv'
<1>0. BalLimit \in Nat \ {0} /\ NPerAsset \in Nat \ {0} /\ P \in Nat \ {0}
    BY SizeAssumption, OrderAssumption
<1>1. x \in Nat /\ x < BalLimit
    BY SizeAssumption, OrderAssumption DEF Field, Account, RangeCheck
<1>2. exactA \in Nat /\ exactA + x \in Nat /\ exactA + x < P
    <2>1. exactA <= 16 * BalLimit  BY Fits
    <2>2. BalLimit <= CellWorth /\ 64 * CellWorth <= P /\ CellWorth \in Nat  BY Sizes
    <2>3. exactA \in Nat  BY DEF IInv, TypeOK
    <2> QED  BY <1>0, <1>1, <2>1, <2>2, <2>3
<1>3. FieldAdd(accA, x) = exactA + x
    <2>1. (exactA + x) % P = exactA + x  BY <1>2, SmallMod
    <2>2. accA = exactA  BY DEF IInv, NoWraparound
    <2> QED  BY <2>1, <2>2 DEF FieldAdd
<1>4. exactA + x <= (i + 1) * BalLimit
    <2>1. i \in Nat /\ BalLimit \in Nat  BY <1>0 DEF IInv, TypeOK
    <2>2. i * BalLimit \in Nat /\ (i + 1) * BalLimit = i * BalLimit + BalLimit
        BY <2>1, Successor
    <2>3. exactA \in Nat /\ exactA <= i * BalLimit  BY DEF IInv, TypeOK, Bounds
    <2> QED  BY <1>1, <2>1, <2>2, <2>3
<1>5. TypeOK'  BY <1>0, <1>2, <1>3 DEF IInv, TypeOK, Account, Field
<1>6. NoWraparound' /\ Bounds'
    BY <1>3, <1>4 DEF IInv, NoWraparound, Bounds, Account
<1> QED  BY <1>5, <1>6 DEF IInv, AllSolvent, Account

(* An asset's worth is added to both aggregates, and its flag compared.   *)
LEMMA AssetKeepsIInv ==
    ASSUME IInv, NEW price \in Candidate, NEW liability \in Candidate,
           Asset(price, liability)
    PROVE  IInv'
<1> USE SizeAssumption, OrderAssumption
<1>1. /\ price \in Nat /\ price < PriceLimit
      /\ liability \in Nat /\ liability < BalLimit
    BY DEF Field, Asset, AssetConstraints, RangeCheck
<1>2. /\ exactA \in Nat /\ exactPR \in Nat /\ exactPL \in Nat /\ a \in Nat
      /\ a + 1 <= NAssets
    BY DEF IInv, TypeOK, Asset
<1>3. /\ price * exactA \in Nat /\ price * exactA <= AssetWorth
      /\ price * liability \in Nat /\ price * liability <= AssetWorth
    <2>1. price * exactA \in Nat /\ price * exactA <= PriceLimit * (NPerAsset * BalLimit)
        BY <1>1, <1>2, Fits, Sizes, ProductMonotone
    <2>2. price * liability \in Nat /\ price * liability <= PriceLimit * BalLimit
        BY <1>1, ProductMonotone
    <2>3. PriceLimit * BalLimit = CellWorth  BY DEF CellWorth
    <2> QED  BY <2>1, <2>2, <2>3, Sizes
<1>4. /\ exactPR + price * exactA <= (a + 1) * AssetWorth
      /\ exactPL + price * liability <= (a + 1) * AssetWorth
    <2>1. a * AssetWorth \in Nat /\ (a + 1) * AssetWorth = a * AssetWorth + AssetWorth
        BY <1>2, Sizes, Successor
    <2>2. exactPR <= a * AssetWorth /\ exactPL <= a * AssetWorth  BY DEF IInv, Bounds
    <2> QED  BY <1>2, <1>3, <2>1, <2>2, Sizes
<1>5. (a + 1) * AssetWorth < P
    <2>1. (a + 1) * AssetWorth \in Nat /\ (a + 1) * AssetWorth <= NAssets * AssetWorth
        BY <1>2, Sizes, ProductMonotone
    <2>2. NAssets * AssetWorth <= 16 * CellWorth /\ 64 * CellWorth <= P /\ CellWorth \in Nat \ {0}  BY Sizes
    <2>3. NAssets * AssetWorth \in Nat  BY Sizes
    <2> QED  BY <2>1, <2>2, <2>3
<1>6. (a + 1) * AssetWorth \in Nat  BY <1>2, Sizes
<1>7. /\ FieldMul(price, accA) = price * exactA
      /\ FieldMul(price, liability) = price * liability
    BY <1>2, <1>3, <1>4, <1>5, <1>6, SmallMod DEF FieldMul, IInv, NoWraparound
<1>8. /\ FieldAdd(accPR, FieldMul(price, accA)) = exactPR + price * exactA
      /\ FieldAdd(accPL, FieldMul(price, liability)) = exactPL + price * liability
    BY <1>2, <1>3, <1>4, <1>5, <1>6, <1>7, SmallMod DEF FieldAdd, IInv, NoWraparound
<1>9. AssetFlag(liability) = (exactA >= liability)
    BY <1>1, AssetExact
<1>10. /\ flags' = honest' /\ flags' \in Seq(BOOLEAN) /\ Len(flags') = a + 1
    <2>1. flags' = Append(flags, AssetFlag(liability)) /\ honest' = Append(honest, exactA >= liability)
        BY DEF Asset
    <2>2. flags = honest /\ flags \in Seq(BOOLEAN) /\ Len(flags) = a
        BY DEF IInv, TypeOK
    <2>3. AssetFlag(liability) \in BOOLEAN
        BY <1>1, <1>2, <1>9
    <2>4. flags' \in Seq(BOOLEAN) /\ Len(flags') = a + 1
        BY <2>1, <2>2, <2>3
    <2> QED  BY <1>9, <2>1, <2>2, <2>4
<1>11. /\ accPR' = exactPR + price * exactA /\ exactPR' = exactPR + price * exactA
       /\ accPL' = exactPL + price * liability /\ exactPL' = exactPL + price * liability
    BY <1>8 DEF Asset, Priced
<1>12. /\ accPR' \in Field /\ accPL' \in Field /\ exactPR' \in Nat /\ exactPL' \in Nat
    BY <1>2, <1>3, <1>4, <1>5, <1>6, <1>11 DEF Field
<1>13. /\ a' = a + 1 /\ i' = 0 /\ accA' = 0 /\ exactA' = 0 /\ aggregate' = aggregate
    BY DEF Asset
<1>14. aggregate = None
    BY <1>2, <1>13 DEF IInv
<1>15. TypeOK'
    BY <1>2, <1>10, <1>12, <1>13, <1>14
    DEF TypeOK, Field
<1>16. Bounds'
    BY <1>4, <1>11, <1>13, Sizes DEF Bounds
<1>17. AllSolvent' => exactPR' >= exactPL'
    <2> SUFFICES ASSUME AllSolvent' PROVE exactPR' >= exactPL'
        OBVIOUS
    <2>1. flags \in Seq(BOOLEAN) /\ flags' = Append(flags, AssetFlag(liability))
        BY DEF IInv, TypeOK, Asset
    <2>2. AllSolvent /\ AssetFlag(liability)
        <3>1. flags'[Len(flags) + 1] = AssetFlag(liability)
              /\ Len(flags) + 1 \in DOMAIN flags'
            BY <2>1
        <3>2. \A j \in DOMAIN flags : j \in DOMAIN flags' /\ flags'[j] = flags[j]
            BY <2>1
        <3> QED  BY <3>1, <3>2 DEF AllSolvent
    <2>3. exactPR >= exactPL  BY <2>2 DEF IInv
    <2>4. liability <= exactA  BY <1>1, <1>2, <1>9, <2>2
    <2>5. price * liability <= price * exactA
        BY <1>1, <1>2, <2>4, ProductMonotone
    <2> QED  BY <1>2, <1>3, <1>11, <2>3, <2>5
<1> QED  BY <1>10, <1>11, <1>13, <1>14, <1>15, <1>16, <1>17 DEF IInv, NoWraparound

(* The comparison of the aggregates changes no accumulator.               *)
LEMMA AggregateKeepsIInv ==
    ASSUME IInv, Aggregate
    PROVE  IInv'
<1>1. aggregate' = (exactPR >= exactPL)
    BY AggregateExact DEF Aggregate, IInv, NoWraparound
<1>2. TypeOK' /\ NoWraparound' /\ Bounds' /\ flags' = honest' /\ a' = NAssets
    BY <1>1 DEF IInv, TypeOK, NoWraparound, Bounds, Aggregate, acc, exact
<1>3. AllSolvent' => exactPR' >= exactPL'
    BY DEF IInv, AllSolvent, Aggregate, exact
<1> QED  BY <1>1, <1>2, <1>3 DEF IInv, Aggregate, exact

(* Every step of the circuit keeps the invariant.                         *)
LEMMA InductiveStep == IInv /\ [Next]_circuitVars => IInv'
<1> SUFFICES ASSUME IInv, [Next]_circuitVars PROVE IInv'
    OBVIOUS
<1>1. CASE \E x \in Candidate : Account(x)
    BY <1>1, AccountKeepsIInv
<1>2. CASE \E price, liability \in Candidate : Asset(price, liability)
    BY <1>2, AssetKeepsIInv
<1>3. CASE Aggregate
    BY <1>3, AggregateKeepsIInv
<1>4. CASE UNCHANGED circuitVars
    BY <1>4 DEF circuitVars, acc, exact, IInv, TypeOK, NoWraparound, Bounds, AllSolvent
<1> QED  BY <1>1, <1>2, <1>3, <1>4 DEF Next

(* The bounds on the accumulators hold always.                            *)
LEMMA Inductive == Spec => []IInv
BY InitIInv, InductiveStep, PTL DEF Spec

-----------------------------------------------------------------------------
(* Every signal stays a field element and every counter in its range.      *)
THEOREM CircuitTypeCorrect == Spec => []TypeOK
<1>1. IInv => TypeOK  BY DEF IInv
<1> QED  BY <1>1, Inductive, PTL

(* No assignment to the private inputs makes a sum of the v3 circuit wrap. *)
THEOREM NeverWraps == Spec => []NoWraparound
<1>1. IInv => NoWraparound  BY DEF IInv
<1> QED  BY <1>1, Inductive, PTL

(* Every flag of a v3 proof is the integer comparison it stands for.       *)
THEOREM FlagsCorrect == Spec => []FlagsExact
<1>1. IInv => FlagsExact  BY DEF IInv, FlagsExact
<1> QED  BY <1>1, Inductive, PTL

(* A proof that calls every asset solvent calls the aggregate solvent.     *)
THEOREM FlagsAgree == Spec => []AllAssetsMeansAggregate
<1>1. IInv => AllAssetsMeansAggregate
    BY DEF IInv, AllSolvent, AllAssetsMeansAggregate
<1> QED  BY <1>1, Inductive, PTL

(* No input of the v3 circuit that is in range is left without a proof, by *)
(* the width of an asset's comparison or by that of the aggregates'.       *)
THEOREM Completeness == Spec => []Complete
<1>1. ASSUME IInv, NEW price \in 0..(PriceLimit - 1), NEW liability \in 0..(BalLimit - 1)
      PROVE  AssetConstraints(price, liability)
    <2>1. /\ liability \in Nat /\ liability < BalLimit
          /\ price \in Nat /\ price < PriceLimit
        BY SizeAssumption
    <2> QED  BY <1>1, <2>1, AssetExact DEF AssetConstraints, RangeCheck
<1>2. IInv => Complete
    BY <1>1, AggregateExact DEF Complete
<1> QED  BY <1>2, Inductive, PTL

-----------------------------------------------------------------------------
(* The number of nodes of a level.                                         *)
Width(k) == 2^(Depth - k)

(* The tree of a sequence of leaves, level by level.                       *)
IsTree(leaves, level) ==
    /\ DOMAIN level = 0..Depth
    /\ level[0] = [j \in 1..NLeaves |-> LeafNode(leaves[j])]
    /\ \A k \in 1..Depth : level[k] = NodesAbove(level[k - 1], Width(k))

(* The levels that the model chooses satisfy the tree's equations.        *)
LEMMA LevelsExist == ASSUME NEW leaves PROVE IsTree(leaves, Levels(leaves))
<1> DEFINE Rec(h) == h = [k \in 0..Depth |->
                            IF k = 0 THEN [j \in 1..NLeaves |-> LeafNode(leaves[j])]
                            ELSE NodesAbove(h[k - 1], 2^(Depth - k))]
           leafLevel == [j \in 1..NLeaves |-> LeafNode(leaves[j])]
           Good(h, n) == /\ DOMAIN h = 0..n /\ h[0] = leafLevel
                         /\ \A k \in 1..n : h[k] = NodesAbove(h[k - 1], Width(k))
           H == {n \in Nat : \E h : h = [k \in 0..n |-> h[k]] /\ Good(h, n)}
<1>0. Depth \in Nat
  BY TreeAssumption
<1> HIDE DEF leafLevel
<1>1. 0 \in H
  <2> DEFINE h == [k \in 0..0 |-> leafLevel]
  <2>1. Good(h, 0) /\ h = [k \in 0..0 |-> h[k]]
    OBVIOUS
  <2> QED
    BY <2>1
<1>2. ASSUME NEW n \in Nat, n \in H PROVE n + 1 \in H
  <2>1. PICK h : Good(h, n)
    BY <1>2
  <2> DEFINE above == NodesAbove(h[n], Width(n + 1))
             g == [k \in 0..(n + 1) |-> IF k = n + 1 THEN above ELSE h[k]]
  <2> HIDE DEF above
  <2>2. DOMAIN g = 0..(n + 1) /\ g[0] = leafLevel /\ g = [k \in 0..(n + 1) |-> g[k]]
    BY <2>1
  <2>3. ASSUME NEW k \in 1..(n + 1) PROVE g[k] = NodesAbove(g[k - 1], Width(k))
    <3>1. k - 1 \in 0..(n + 1) /\ k - 1 # n + 1 /\ k \in 0..(n + 1)
      OBVIOUS
    <3>2. g[k - 1] = h[k - 1] /\ g[k] = IF k = n + 1 THEN above ELSE h[k]
      BY <3>1
    <3> HIDE DEF g
    <3>3. CASE k = n + 1
      <4>1. k - 1 = n
        BY <3>3
      <4> QED
        BY <3>2, <3>3, <4>1 DEF above
    <3>4. CASE k # n + 1
      <4>1. k \in 1..n
        BY <3>4
      <4> QED
        BY <2>1, <3>2, <3>4, <4>1
    <3> QED
      BY <3>3, <3>4
  <2> HIDE DEF g
  <2>4. Good(g, n + 1)
    BY <2>2, <2>3
  <2> HIDE DEF Good
  <2> QED
    BY <2>2, <2>4
<1>3. Depth \in H
  <2> HIDE DEF H
  <2> QED
    BY <1>0, <1>1, <1>2, InductionOnSet
<1>4. PICK h : h = [k \in 0..Depth |-> h[k]] /\ Good(h, Depth)
  BY <1>3
<1>5. Rec(h)
  <2>1. \A k \in 0..Depth : k # 0 => k \in 1..Depth
    BY <1>0
  <2>2. \A k \in 0..Depth :
           h[k] = IF k = 0 THEN leafLevel ELSE NodesAbove(h[k - 1], 2^(Depth - k))
    BY <1>4, <2>1 DEF Width
  <2> QED
    BY <1>4, <2>2 DEF leafLevel
<1> HIDE DEF Rec
<1>6. Levels(leaves) = CHOOSE g : Rec(g)
  BY DEF Levels, Rec
<1>7. Rec(Levels(leaves))
  BY <1>5, <1>6
<1> DEFINE level == Levels(leaves)
<1>8. level = [k \in 0..Depth |-> IF k = 0 THEN leafLevel
                                  ELSE NodesAbove(level[k - 1], 2^(Depth - k))]
  BY <1>7 DEF Rec, leafLevel
<1> HIDE DEF level
<1>9. \A k \in 1..Depth : k \in 0..Depth /\ k # 0
  BY <1>0
<1>10. IsTree(leaves, level)
  <2>1. DOMAIN level = 0..Depth /\ 0 \in 0..Depth
    BY <1>0, <1>8
  <2>2. \A k \in 0..Depth :
           level[k] = IF k = 0 THEN leafLevel ELSE NodesAbove(level[k - 1], 2^(Depth - k))
    BY <1>8
  <2>3. level[0] = leafLevel
    BY <2>1, <2>2
  <2>4. \A k \in 1..Depth : level[k] = NodesAbove(level[k - 1], 2^(Depth - k))
    BY <1>9, <2>2
  <2> QED
    BY <2>1, <2>3, <2>4 DEF IsTree, Width, leafLevel
<1> QED
  BY <1>10 DEF level

(* Sizes: powers of two up to the depth, and twice the total fits.         *)
LEMMA TreeSizes ==
    /\ Depth \in Nat /\ NReserves \in Nat \ {0} /\ BalLimit \in Nat \ {0} /\ P \in Nat \ {0}
    /\ \A k \in 0..Depth : Width(k) \in Nat \ {0} /\ 2^k \in Nat \ {0}
    /\ \A k \in 1..Depth : Width(k - 1) = 2 * Width(k) /\ 2^k = 2 * 2^(k - 1)
    /\ Width(0) = NLeaves /\ Width(Depth) = 1
    /\ \A k \in 0..Depth : BalLimit * 2^k \in Nat /\ BalLimit * 2^k <= P
    /\ CmpLimit \in Nat /\ 2 * CmpLimit <= P
<1>0. /\ Depth \in Nat /\ NReserves \in Nat \ {0} /\ BalLimit \in Nat \ {0} /\ P \in Nat \ {0}
      /\ 2 * CmpLimit <= P
  BY TreeAssumption, OrderAssumption
<1>1. \A k \in 0..Depth : Width(k) \in Nat \ {0} /\ 2^k \in Nat \ {0}
  <2> TAKE k \in 0..Depth
  <2>1. k \in Nat /\ Depth - k \in Nat
    BY <1>0
  <2> QED
    BY <2>1, PowerDoubles DEF Width
<1>2. \A k \in 1..Depth : Width(k - 1) = 2 * Width(k) /\ 2^k = 2 * 2^(k - 1)
  <2> TAKE k \in 1..Depth
  <2>1. /\ k - 1 \in Nat /\ (k - 1) + 1 = k
        /\ Depth - k \in Nat /\ (Depth - k) + 1 = Depth - (k - 1)
    BY <1>0
  <2>2. 2^((k - 1) + 1) = 2 * 2^(k - 1) /\ 2^((Depth - k) + 1) = 2 * 2^(Depth - k)
    BY <2>1, PowerDoubles
  <2> QED
    BY <2>1, <2>2 DEF Width
<1>3. Width(0) = NLeaves /\ Width(Depth) = 1
  <2>1. Depth - 0 = Depth /\ Depth - Depth = 0 /\ 2^0 = 1
    BY <1>0
  <2> QED
    BY <2>1 DEF Width, NLeaves
<1>4. NLeaves \in Nat /\ \A k \in 0..Depth : 2^k <= NLeaves
  BY <1>0, PowerDoubles, PowerGrows DEF NLeaves
<1>5. CmpLimit \in Nat /\ BalLimit * NLeaves <= P /\ BalLimit * NLeaves \in Nat
  <2> DEFINE room == IF Depth > 5 THEN NLeaves ELSE 32
  <2>1. room \in Nat /\ NLeaves <= room
    <3>1. CASE Depth > 5
      BY <1>4, <3>1
    <3>2. CASE ~(Depth > 5)
      <4>1. 2^5 = 32 /\ Depth \in 0..5
        BY <1>0, <3>2
      <4>2. NLeaves <= 32
        BY <4>1, PowerGrows DEF NLeaves
      <4> QED
        BY <3>2, <4>2
    <3> QED
      BY <3>1, <3>2
  <2>2. CmpLimit = (2 * BalLimit) * room
    BY DEF CmpLimit
  <2> HIDE DEF room
  <2>3. BalLimit * NLeaves <= BalLimit * room /\ BalLimit * room \in Nat
        /\ BalLimit * NLeaves \in Nat
    BY <1>0, <1>4, <2>1
  <2>4. (2 * BalLimit) * room = 2 * (BalLimit * room)
    BY <1>0, <2>1
  <2> QED
    BY <1>0, <2>2, <2>3, <2>4
<1>6. \A k \in 0..Depth : BalLimit * 2^k \in Nat /\ BalLimit * 2^k <= P
  <2> TAKE k \in 0..Depth
  <2>1. 2^k \in Nat /\ 2^k <= NLeaves
    BY <1>1, <1>4
  <2>2. BalLimit * 2^k \in Nat /\ BalLimit * 2^k <= BalLimit * NLeaves
    BY <1>0, <1>4, <2>1
  <2> QED
    BY <1>0, <1>5, <2>2
<1> QED
  BY <1>0, <1>1, <1>2, <1>3, <1>5, <1>6

(* What a leaf's node and an inner node are made of.                      *)
LEMMA NodeFields ==
    /\ \A leaf : /\ LeafNode(leaf).hash = LeafHash(leaf.user, leaf.balance)
                 /\ LeafNode(leaf).sum = leaf.balance
    /\ \A l, r : Node(l, r).hash = <<l.hash, l.sum, r.hash, r.sum>>
BY DEF LeafNode, Node

(* A leaf is its user and its balance, each in range.                     *)
LEMMA LeafBalance ==
    ASSUME NEW leaf \in Leaf
    PROVE  /\ leaf.balance \in Nat /\ leaf.balance \in TreeCandidate /\ leaf.user \in UserId
           /\ leaf = [user |-> leaf.user, balance |-> leaf.balance]
<1>1. /\ leaf.balance \in TreeCandidate /\ leaf.user \in UserId
      /\ leaf = [user |-> leaf.user, balance |-> leaf.balance]
  BY DEF Leaf
<1>2. TreeCandidate \subseteq Nat
  BY TreeAssumption, OrderAssumption DEF Field
<1> QED
  BY <1>1, <1>2

(* What holds of the tree of leaves that satisfies its constraints: sums   *)
(* are those of the children, and do not wrap.                             *)
LEMMA TreeSums ==
    ASSUME NEW leaves \in [1..NLeaves -> Leaf], TreeConstraints(leaves)
    PROVE  LET level == Levels(leaves)
           IN  /\ DOMAIN level = 0..Depth
               /\ \A k \in 0..Depth :
                     /\ DOMAIN level[k] = 1..Width(k)
                     /\ \A j \in 1..Width(k) :
                           /\ level[k][j] = [hash |-> level[k][j].hash, sum |-> level[k][j].sum]
                           /\ level[k][j].sum \in Nat
                           /\ level[k][j].sum < BalLimit * 2^k
               /\ \A j \in 1..NLeaves : level[0][j] = LeafNode(leaves[j])
               /\ \A k \in 1..Depth : \A j \in 1..Width(k) :
                     /\ 2 * j - 1 \in 1..Width(k - 1) /\ 2 * j \in 1..Width(k - 1)
                     /\ level[k][j] = Node(level[k - 1][2 * j - 1], level[k - 1][2 * j])
                     /\ level[k][j].sum =
                           level[k - 1][2 * j - 1].sum + level[k - 1][2 * j].sum
<1> DEFINE level == Levels(leaves)
           Sound(k) == \A j \in 1..Width(k) :
              /\ level[k][j] = [hash |-> level[k][j].hash, sum |-> level[k][j].sum]
              /\ level[k][j].sum \in Nat
              /\ level[k][j].sum < BalLimit * 2^k
           H == {n \in Nat : n <= Depth => Sound(n)}
<1>1. IsTree(leaves, level)
  BY LevelsExist
<1>2. /\ \A j \in 1..NLeaves : RangeCheck(BalLimit, leaves[j].balance)
      /\ \A k \in 1..Depth : \A j \in DOMAIN level[k] :
            RangeCheck(BalLimit * 2^k, level[k][j].sum)
  BY DEF TreeConstraints, LeafRange
<1>3. \A k \in 1..Depth : \A j \in 1..Width(k) :
         2 * j - 1 \in 1..Width(k - 1) /\ 2 * j \in 1..Width(k - 1)
  <2> TAKE k \in 1..Depth
  <2> TAKE j \in 1..Width(k)
  <2>1. Width(k) \in Nat /\ Width(k - 1) = 2 * Width(k)
    BY TreeSizes
  <2> QED
    BY <2>1
<1>4. \A j \in 1..NLeaves : level[0][j] = LeafNode(leaves[j])
  BY <1>1 DEF IsTree
<1>5. \A k \in 1..Depth :
         /\ DOMAIN level[k] = 1..Width(k)
         /\ \A j \in 1..Width(k) :
               level[k][j] = Node(level[k - 1][2 * j - 1], level[k - 1][2 * j])
  <2> TAKE k \in 1..Depth
  <2>1. level[k] = [j \in 1..Width(k) |-> Node(level[k - 1][2 * j - 1], level[k - 1][2 * j])]
    BY <1>1 DEF IsTree, NodesAbove
  <2> QED
    BY <2>1
<1>6. DOMAIN level = 0..Depth /\ DOMAIN level[0] = 1..Width(0) /\ Width(0) = NLeaves
  BY <1>1, TreeSizes DEF IsTree
<1> HIDE DEF level
<1>7. 0 \in H
  <2> SUFFICES ASSUME NEW j \in 1..Width(0)
               PROVE  /\ level[0][j] = [hash |-> level[0][j].hash, sum |-> level[0][j].sum]
                      /\ level[0][j].sum \in Nat
                      /\ level[0][j].sum < BalLimit * 2^0
    OBVIOUS
  <2>1. level[0][j] = [hash |-> LeafHash(leaves[j].user, leaves[j].balance),
                       sum |-> leaves[j].balance]
    BY <1>4, <1>6 DEF LeafNode
  <2>2. leaves[j].balance \in Nat
    <3>1. leaves[j] \in Leaf
      BY <1>6
    <3> QED
      BY <3>1, LeafBalance
  <2>3. leaves[j].balance < BalLimit
    BY <1>2, <1>6 DEF RangeCheck
  <2>4. BalLimit * 2^0 = BalLimit
    <3>1. 2^0 = 1
      OBVIOUS
    <3> QED
      BY <3>1, TreeSizes
  <2> QED
    BY <2>1, <2>2, <2>3, <2>4
<1>8. ASSUME NEW n \in Nat, n \in H, n + 1 <= Depth, NEW j \in 1..Width(n + 1)
      PROVE  LET l == level[n][2 * j - 1]
                 r == level[n][2 * j]
             IN  /\ level[n + 1][j] = Node(l, r)
                 /\ level[n + 1][j].sum = l.sum + r.sum
                 /\ level[n + 1][j].sum \in Nat
                 /\ level[n + 1][j].sum < BalLimit * 2^(n + 1)
  <2>0. n + 1 \in 1..Depth /\ (n + 1) - 1 = n /\ n \in 0..Depth
    BY <1>8, TreeSizes
  <2> DEFINE l == level[n][2 * j - 1]
             r == level[n][2 * j]
  <2>1. level[n + 1][j] = Node(l, r)
    BY <1>5, <2>0
  <2>2. /\ l.sum \in Nat /\ l.sum < BalLimit * 2^n
        /\ r.sum \in Nat /\ r.sum < BalLimit * 2^n
    <3>1. n \in H /\ n <= Depth
      BY <1>8, <2>0
    <3>2. \A q \in 1..Width(n) : level[n][q].sum \in Nat /\ level[n][q].sum < BalLimit * 2^n
      BY <3>1
    <3>3. 2 * j - 1 \in 1..Width(n) /\ 2 * j \in 1..Width(n)
      BY <1>3, <1>8, <2>0
    <3> QED
      BY <3>2, <3>3
  <2>3. /\ BalLimit * 2^(n + 1) = 2 * (BalLimit * 2^n) /\ BalLimit * 2^n \in Nat
        /\ BalLimit * 2^(n + 1) <= P /\ P \in Nat \ {0}
    <3>1. 2^(n + 1) = 2 * 2^n /\ 2^n \in Nat /\ BalLimit \in Nat
      BY <2>0, TreeSizes
    <3>2. BalLimit * (2 * 2^n) = 2 * (BalLimit * 2^n)
      BY <3>1
    <3> QED
      BY <2>0, <3>1, <3>2, TreeSizes
  <2>4. level[n + 1][j].sum = (l.sum + r.sum) % P
    BY <2>1 DEF Node, FieldAdd
  <2> HIDE DEF l, r
  <2>5. l.sum + r.sum \in Nat /\ l.sum + r.sum < BalLimit * 2^(n + 1) /\ l.sum + r.sum < P
    BY <2>2, <2>3
  <2>6. (l.sum + r.sum) % P = l.sum + r.sum
    BY <2>3, <2>5
  <2> QED
    BY <2>1, <2>4, <2>5, <2>6 DEF l, r
<1>9. ASSUME NEW n \in Nat, n \in H PROVE n + 1 \in H
  <2> SUFFICES ASSUME n + 1 <= Depth, NEW j \in 1..Width(n + 1)
               PROVE  /\ level[n + 1][j] =
                            [hash |-> level[n + 1][j].hash, sum |-> level[n + 1][j].sum]
                      /\ level[n + 1][j].sum \in Nat
                      /\ level[n + 1][j].sum < BalLimit * 2^(n + 1)
    OBVIOUS
  <2>1. level[n + 1][j] = Node(level[n][2 * j - 1], level[n][2 * j])
    BY <1>8, <1>9
  <2>2. level[n + 1][j] = [hash |-> level[n + 1][j].hash, sum |-> level[n + 1][j].sum]
    BY <2>1 DEF Node
  <2> QED
    BY <1>8, <1>9, <2>2
<1>10. \A n \in Nat : n \in H
  <2> HIDE DEF H
  <2> QED
    BY <1>7, <1>9, InductionOnSet
<1>11. \A k \in 0..Depth : DOMAIN level[k] = 1..Width(k) /\ Sound(k)
  <2> TAKE k \in 0..Depth
  <2>1. k \in Nat /\ k <= Depth /\ (k = 0 \/ k \in 1..Depth)
    BY TreeSizes
  <2>2. Sound(k)
    BY <1>10, <2>1
  <2> HIDE DEF Sound
  <2> QED
    BY <1>5, <1>6, <2>1, <2>2
<1>12. \A k \in 1..Depth : \A j \in 1..Width(k) :
          level[k][j].sum = level[k - 1][2 * j - 1].sum + level[k - 1][2 * j].sum
  <2> TAKE k \in 1..Depth
  <2> TAKE j \in 1..Width(k)
  <2>1. k - 1 \in Nat /\ (k - 1) + 1 = k /\ k <= Depth
    BY TreeSizes
  <2>2. k - 1 \in H
    BY <1>10, <2>1
  <2> HIDE DEF H
  <2> QED
    BY <1>8, <2>1, <2>2
<1> HIDE DEF H
<1>13. \A k \in 1..Depth : \A j \in 1..Width(k) :
          /\ 2 * j - 1 \in 1..Width(k - 1) /\ 2 * j \in 1..Width(k - 1)
          /\ level[k][j] = Node(level[k - 1][2 * j - 1], level[k - 1][2 * j])
          /\ level[k][j].sum = level[k - 1][2 * j - 1].sum + level[k - 1][2 * j].sum
  BY <1>3, <1>5, <1>12
<1> QED
  BY <1>4, <1>6, <1>11, <1>13 DEF level

Balances(leaves) == [j \in 1..NLeaves |-> leaves[j].balance]

(* The sum at the root is the sum of all leaves, over the integers.        *)
LEMMA RootIsTotal ==
    ASSUME NEW leaves \in [1..NLeaves -> Leaf], TreeConstraints(leaves)
    PROVE  Root(Levels(leaves)).sum = SumOver(Balances(leaves), 1..NLeaves)
<1> DEFINE level == Levels(leaves)
           Sums(k) == [j \in 1..Width(k) |-> level[k][j].sum]
           H == {n \in Nat : n <= Depth =>
                   SumOver(Sums(n), 1..Width(n)) = SumOver(Balances(leaves), 1..NLeaves)}
<1>1. /\ \A k \in 0..Depth : \A j \in 1..Width(k) : level[k][j].sum \in Nat
      /\ \A j \in 1..NLeaves : level[0][j] = LeafNode(leaves[j])
      /\ \A k \in 1..Depth : \A j \in 1..Width(k) :
            /\ 2 * j - 1 \in 1..Width(k - 1) /\ 2 * j \in 1..Width(k - 1)
            /\ level[k][j].sum = level[k - 1][2 * j - 1].sum + level[k - 1][2 * j].sum
  BY TreeSums
<1> HIDE DEF level
<1>2. 0 \in H
  <2>1. Sums(0) = Balances(leaves)
    <3>1. Width(0) = NLeaves
      BY TreeSizes
    <3>2. \A j \in 1..NLeaves : level[0][j].sum = leaves[j].balance
      BY <1>1, NodeFields
    <3> QED
      BY <3>1, <3>2 DEF Balances
  <2> HIDE DEF Sums
  <2> QED
    BY <2>1, TreeSizes
<1>3. ASSUME NEW n \in Nat, n \in H PROVE n + 1 \in H
  <2> SUFFICES ASSUME n + 1 <= Depth
               PROVE  SumOver(Sums(n + 1), 1..Width(n + 1))
                         = SumOver(Balances(leaves), 1..NLeaves)
    OBVIOUS
  <2>1. /\ n + 1 \in 1..Depth /\ (n + 1) - 1 = n /\ n \in 0..Depth /\ n + 1 \in 0..Depth
    BY TreeSizes
  <2>2. Width(n + 1) \in Nat /\ Width(n) = 2 * Width(n + 1)
    BY <2>1, TreeSizes
  <2>3. \A j \in 1..(2 * Width(n + 1)) : Sums(n)[j] \in Int
    BY <1>1, <2>1, <2>2
  <2>4. \A j \in 1..Width(n + 1) :
           Sums(n + 1)[j] = Sums(n)[2 * j - 1] + Sums(n)[2 * j]
    BY <1>1, <2>1
  <2> HIDE DEF Sums
  <2>5. SumOver(Sums(n + 1), 1..Width(n + 1)) = SumOver(Sums(n), 1..(2 * Width(n + 1)))
    BY <2>2, <2>3, <2>4, SumOfPairs
  <2> QED
    BY <1>3, <2>1, <2>2, <2>5
<1>4. Depth \in H
  <2> HIDE DEF H
  <2> QED
    BY <1>2, <1>3, InductionOnSet, TreeSizes
<1>5. SumOver(Sums(Depth), 1..1) = SumOver(Balances(leaves), 1..NLeaves)
  <2> HIDE DEF Sums
  <2> QED
    BY <1>4, TreeSizes
<1>6. SumOver(Sums(Depth), 1..1) = level[Depth][1].sum
  <2>1. Sums(Depth)[1] = level[Depth][1].sum /\ level[Depth][1].sum \in Nat
    BY <1>1, TreeSizes
  <2> HIDE DEF Sums
  <2>2. 1..1 = {1} /\ {1} \ {1} = {} /\ IsFiniteSet({1})
    <3>1. IsFiniteSet({1})
      BY FS_Singleton
    <3> QED
      BY <3>1
  <2>3. SumOver(Sums(Depth), {1}) = Sums(Depth)[1] + SumOver(Sums(Depth), {})
    BY <2>1, <2>2, SumPeels
  <2>4. SumOver(Sums(Depth), {}) = 0
    BY FS_EmptySet, SumOfZeros
  <2> QED
    BY <2>1, <2>2, <2>3, <2>4
<1> QED
  BY <1>5, <1>6 DEF Root, level

-----------------------------------------------------------------------------
(* The nodes a prover reaches from a claim, level by level.                *)
Nodes(leaves) == UNION {Range(Levels(leaves)[k]) : k \in 0..Depth}

IsClimb(leaves, user, balance, reach) ==
    /\ reach[0] = {LeafNode([user |-> user, balance |-> balance])}
    /\ \A k \in 1..Depth : reach[k] = Climb(k, reach[k - 1], Nodes(leaves))

(* The climb that the model chooses satisfies the path's equations.       *)
LEMMA ReachExists ==
    ASSUME NEW leaves, NEW user, NEW balance
    PROVE  \E reach : /\ IsClimb(leaves, user, balance, reach)
                      /\ Reachable(leaves, user, balance) = reach[Depth]
<1> DEFINE start == {LeafNode([user |-> user, balance |-> balance])}
           nodes == Nodes(leaves)
           Rec(h) == h = [k \in 0..Depth |->
                            IF k = 0 THEN start ELSE Climb(k, h[k - 1], nodes)]
           Good(h, n) == h[0] = start /\ \A k \in 1..n : h[k] = Climb(k, h[k - 1], nodes)
           H == {n \in Nat : \E h : h = [k \in 0..n |-> h[k]] /\ Good(h, n)}
<1>0. Depth \in Nat
  BY TreeAssumption
<1> HIDE DEF start, nodes
<1>1. 0 \in H
  <2> DEFINE h == [k \in 0..0 |-> start]
  <2>1. Good(h, 0) /\ h = [k \in 0..0 |-> h[k]]
    OBVIOUS
  <2> QED
    BY <2>1
<1>2. ASSUME NEW n \in Nat, n \in H PROVE n + 1 \in H
  <2>1. PICK h : Good(h, n)
    BY <1>2
  <2> DEFINE above == Climb(n + 1, h[n], nodes)
             g == [k \in 0..(n + 1) |-> IF k = n + 1 THEN above ELSE h[k]]
  <2> HIDE DEF above
  <2>2. g[0] = start /\ g = [k \in 0..(n + 1) |-> g[k]]
    BY <2>1
  <2>3. ASSUME NEW k \in 1..(n + 1) PROVE g[k] = Climb(k, g[k - 1], nodes)
    <3>1. k - 1 \in 0..(n + 1) /\ k - 1 # n + 1 /\ k \in 0..(n + 1)
      OBVIOUS
    <3>2. g[k - 1] = h[k - 1] /\ g[k] = IF k = n + 1 THEN above ELSE h[k]
      BY <3>1
    <3> HIDE DEF g
    <3>3. CASE k = n + 1
      <4>1. k - 1 = n
        BY <3>3
      <4> QED
        BY <3>2, <3>3, <4>1 DEF above
    <3>4. CASE k # n + 1
      <4>1. k \in 1..n
        BY <3>4
      <4> QED
        BY <2>1, <3>2, <3>4, <4>1
    <3> QED
      BY <3>3, <3>4
  <2> HIDE DEF g
  <2>4. Good(g, n + 1)
    BY <2>2, <2>3
  <2> HIDE DEF Good
  <2> QED
    BY <2>2, <2>4
<1>3. Depth \in H
  <2> HIDE DEF H
  <2> QED
    BY <1>0, <1>1, <1>2, InductionOnSet
<1>4. PICK h : h = [k \in 0..Depth |-> h[k]] /\ Good(h, Depth)
  BY <1>3
<1>5. Rec(h)
  <2>1. \A k \in 0..Depth : k # 0 => k \in 1..Depth
    BY <1>0
  <2>2. \A k \in 0..Depth : h[k] = IF k = 0 THEN start ELSE Climb(k, h[k - 1], nodes)
    BY <1>4, <2>1
  <2> QED
    BY <1>4, <2>2
<1> DEFINE reach == CHOOSE g : Rec(g)
<1> HIDE DEF Rec
<1>6. Reachable(leaves, user, balance) = reach[Depth]
  BY DEF Reachable, Rec, start, nodes, Nodes
<1>7. Rec(reach)
  BY <1>5
<1> HIDE DEF reach
<1>8. reach[0] = start /\ \A k \in 1..Depth : reach[k] = Climb(k, reach[k - 1], nodes)
  <2>1. \A k \in 0..Depth : reach[k] = IF k = 0 THEN start ELSE Climb(k, reach[k - 1], nodes)
    BY <1>7 DEF Rec
  <2>2. 0 \in 0..Depth /\ \A k \in 1..Depth : k \in 0..Depth /\ k # 0
    BY <1>0
  <2> QED
    BY <2>1, <2>2
<1>9. IsClimb(leaves, user, balance, reach)
  BY <1>8 DEF IsClimb, start, nodes
<1> QED
  BY <1>6, <1>9

(* A path that ends in a node of the tree began in one of its leaves.      *)
LEMMA PathsComeFromLeaves ==
    ASSUME NEW leaves \in [1..NLeaves -> Leaf], TreeConstraints(leaves),
           NEW user, NEW balance, NEW reach, IsClimb(leaves, user, balance, reach)
    PROVE  \A k \in 0..Depth : \A n \in reach[k] : \A j \in 1..Width(k) :
              n.hash = Levels(leaves)[k][j].hash =>
                 \E q \in 1..NLeaves : leaves[q] = [user |-> user, balance |-> balance]
<1> DEFINE level == Levels(leaves)
           Found == \E q \in 1..NLeaves : leaves[q] = [user |-> user, balance |-> balance]
           H == {k \in Nat : k <= Depth =>
                   \A n \in reach[k] : \A j \in 1..Width(k) :
                      n.hash = level[k][j].hash => Found}
<1>1. /\ \A j \in 1..NLeaves : level[0][j] = LeafNode(leaves[j])
      /\ \A k \in 1..Depth : \A j \in 1..Width(k) :
            /\ 2 * j - 1 \in 1..Width(k - 1) /\ 2 * j \in 1..Width(k - 1)
            /\ level[k][j] = Node(level[k - 1][2 * j - 1], level[k - 1][2 * j])
  BY TreeSums
<1> HIDE DEF level
<1>2. 0 \in H
  <2> SUFFICES ASSUME NEW n \in reach[0], NEW j \in 1..Width(0), n.hash = level[0][j].hash
               PROVE  Found
    OBVIOUS
  <2>1. j \in 1..NLeaves /\ leaves[j] \in Leaf
    BY TreeSizes
  <2>2. n = LeafNode([user |-> user, balance |-> balance])
    BY DEF IsClimb
  <2>3. LeafHash(user, balance) = LeafHash(leaves[j].user, leaves[j].balance)
    <3>1. n.hash = LeafHash(user, balance)
      BY <2>2, NodeFields
    <3>2. level[0][j].hash = LeafHash(leaves[j].user, leaves[j].balance)
      BY <1>1, <2>1, NodeFields
    <3> QED
      BY <3>1, <3>2
  <2>4. user = leaves[j].user /\ balance = leaves[j].balance
    BY <2>3 DEF LeafHash
  <2> QED
    BY <2>1, <2>4, LeafBalance
<1>3. ASSUME NEW k \in Nat, k \in H PROVE k + 1 \in H
  <2> SUFFICES ASSUME k + 1 <= Depth, NEW n \in reach[k + 1], NEW j \in 1..Width(k + 1),
                      n.hash = level[k + 1][j].hash
               PROVE  Found
    OBVIOUS
  <2>1. k + 1 \in 1..Depth /\ (k + 1) - 1 = k /\ k <= Depth
    BY TreeSizes
  <2> DEFINE l == level[k][2 * j - 1]
             r == level[k][2 * j]
  <2>2. n.hash = <<l.hash, l.sum, r.hash, r.sum>>
    <3>1. level[k + 1][j] = Node(l, r)
      BY <1>1, <2>1
    <3> HIDE DEF l, r
    <3> QED
      BY <3>1, NodeFields
  <2>3. reach[k + 1] = Climb(k + 1, reach[k], Nodes(leaves))
    BY <2>1 DEF IsClimb
  <2>4. \E c \in reach[k] : \E s : n = Node(c, s) \/ n = Node(s, c)
    BY <2>3 DEF Climb
  <2>5. PICK c \in reach[k] : c.hash = l.hash \/ c.hash = r.hash
    BY <2>2, <2>4 DEF Node
  <2>6. 2 * j - 1 \in 1..Width(k) /\ 2 * j \in 1..Width(k)
    BY <1>1, <2>1
  <2> HIDE DEF Found
  <2> QED
    BY <1>3, <2>1, <2>5, <2>6
<1>4. \A k \in Nat : k \in H
  <2> HIDE DEF H
  <2> QED
    BY <1>2, <1>3, InductionOnSet
<1> HIDE DEF Found
<1>5. \A k \in 0..Depth : k \in Nat /\ k <= Depth
  BY TreeSizes
<1> QED
  BY <1>4, <1>5 DEF level, Found

(* From every leaf a path leads up to a node of every level.               *)
LEMMA PathsGoUp ==
    ASSUME NEW leaves \in [1..NLeaves -> Leaf], TreeConstraints(leaves), NEW q \in 1..NLeaves,
           NEW reach, IsClimb(leaves, leaves[q].user, leaves[q].balance, reach)
    PROVE  \A k \in 0..Depth : \E j \in 1..Width(k) : Levels(leaves)[k][j] \in reach[k]
<1> DEFINE level == Levels(leaves)
           nodes == Nodes(leaves)
           H == {k \in Nat : k <= Depth => \E j \in 1..Width(k) : level[k][j] \in reach[k]}
<1>1. /\ DOMAIN level = 0..Depth
      /\ \A k \in 0..Depth :
            /\ DOMAIN level[k] = 1..Width(k)
            /\ \A j \in 1..Width(k) :
                  /\ level[k][j] = [hash |-> level[k][j].hash, sum |-> level[k][j].sum]
                  /\ level[k][j].sum < BalLimit * 2^k
      /\ \A j \in 1..NLeaves : level[0][j] = LeafNode(leaves[j])
      /\ \A k \in 1..Depth : \A j \in 1..Width(k) :
            /\ 2 * j - 1 \in 1..Width(k - 1) /\ 2 * j \in 1..Width(k - 1)
            /\ level[k][j] = Node(level[k - 1][2 * j - 1], level[k - 1][2 * j])
  BY TreeSums
<1>2. \A k \in 0..Depth : \A j \in 1..Width(k) : level[k][j] \in nodes
  <2> TAKE k \in 0..Depth
  <2> TAKE j \in 1..Width(k)
  <2>1. nodes = UNION {Range(level[m]) : m \in 0..Depth}
    BY DEF Nodes
  <2>2. j \in DOMAIN level[k]
    BY <1>1
  <2> HIDE DEF level, nodes
  <2>3. level[k][j] \in Range(level[k])
    BY <2>2 DEF Range
  <2> QED
    BY <2>1, <2>3
<1> HIDE DEF level, nodes
<1>3. 0 \in H
  <2>1. q \in 1..Width(0) /\ leaves[q] \in Leaf
    BY TreeSizes
  <2>2. level[0][q] = LeafNode([user |-> leaves[q].user, balance |-> leaves[q].balance])
    BY <1>1, <2>1, LeafBalance
  <2>3. level[0][q] \in reach[0]
    BY <2>2 DEF IsClimb
  <2> QED
    BY <2>1, <2>3
<1>4. ASSUME NEW k \in Nat, k \in H PROVE k + 1 \in H
  <2> SUFFICES ASSUME k + 1 <= Depth
               PROVE  \E j \in 1..Width(k + 1) : level[k + 1][j] \in reach[k + 1]
    OBVIOUS
  <2>1. /\ k + 1 \in 1..Depth /\ k + 1 \in 0..Depth /\ (k + 1) - 1 = k /\ k \in 0..Depth
        /\ k <= Depth
    BY TreeSizes
  <2>2. PICK c \in 1..Width(k) : level[k][c] \in reach[k]
    BY <1>4, <2>1
  <2>3. Width(k) = 2 * Width(k + 1) /\ Width(k + 1) \in Nat
    BY <2>1, TreeSizes
  <2>4. PICK j \in 1..Width(k + 1) : c = 2 * j - 1 \/ c = 2 * j
    <3>1. CASE c % 2 = 0
      <4>1. c \div 2 \in 1..Width(k + 1) /\ c = 2 * (c \div 2)
        BY <2>3, <3>1
      <4> QED
        BY <4>1
    <3>2. CASE c % 2 # 0
      <4>1. (c + 1) \div 2 \in 1..Width(k + 1) /\ c = 2 * ((c + 1) \div 2) - 1
        BY <2>3, <3>2
      <4> QED
        BY <4>1
    <3> QED
      BY <3>1, <3>2
  <2> DEFINE l == level[k][2 * j - 1]
             r == level[k][2 * j]
             n == level[k + 1][j]
             sibling == [hash : Hashes(nodes), sum : {x.sum : x \in nodes} \cup TreeCandidate]
  <2>5. /\ n = Node(l, r) /\ l \in nodes /\ r \in nodes /\ n \in nodes
        /\ l = [hash |-> l.hash, sum |-> l.sum] /\ r = [hash |-> r.hash, sum |-> r.sum]
        /\ n.sum < BalLimit * 2^(k + 1) /\ (l \in reach[k] \/ r \in reach[k])
    <3>1. 2 * j - 1 \in 1..Width(k) /\ 2 * j \in 1..Width(k) /\ n = Node(l, r)
      BY <1>1, <2>1, <2>4
    <3>2. l \in nodes /\ r \in nodes /\ n \in nodes
      BY <1>2, <2>1, <2>4, <3>1
    <3>3. l = [hash |-> l.hash, sum |-> l.sum] /\ r = [hash |-> r.hash, sum |-> r.sum]
      BY <1>1, <2>1, <3>1
    <3>4. n.sum < BalLimit * 2^(k + 1)
      BY <1>1, <2>1, <2>4
    <3>5. l \in reach[k] \/ r \in reach[k]
      BY <2>2, <2>4
    <3> QED
      BY <3>1, <3>2, <3>3, <3>4, <3>5
  <2> HIDE DEF l, r, n
  <2>6. l \in sibling /\ r \in sibling
    <3>1. l.hash \in Hashes(nodes) /\ r.hash \in Hashes(nodes)
      BY <2>5 DEF Hashes
    <3>2. l.sum \in {x.sum : x \in nodes} /\ r.sum \in {x.sum : x \in nodes}
      BY <2>5
    <3> QED
      BY <2>5, <3>1, <3>2
  <2>7. PathSum((k + 1) - 1, n.sum) /\ n.hash \in Hashes(nodes)
    BY <2>1, <2>5 DEF PathSum, RangeCheck, Hashes
  <2>8. n \in UNION {{Node(x, s), Node(s, x)} : x \in reach[k], s \in sibling}
    <3> HIDE DEF sibling
    <3>1. /\ l \in reach[k] => n \in {Node(l, r), Node(r, l)}
          /\ r \in reach[k] => n \in {Node(r, l), Node(l, r)}
      BY <2>5
    <3> DEFINE pairs == {{Node(x, s), Node(s, x)} : x \in reach[k], s \in sibling}
    <3>2. /\ l \in reach[k] => {Node(l, r), Node(r, l)} \in pairs
          /\ r \in reach[k] => {Node(r, l), Node(l, r)} \in pairs
      BY <2>6
    <3> HIDE DEF pairs
    <3>3. n \in UNION pairs
      BY <2>5, <3>1, <3>2
    <3> QED
      BY <3>3 DEF pairs
  <2>9. n \in Climb(k + 1, reach[k], nodes)
    BY <2>7, <2>8 DEF Climb
  <2>10. n \in reach[k + 1]
    BY <2>1, <2>9 DEF IsClimb, nodes
  <2> QED
    BY <2>10 DEF n
<1>5. \A k \in Nat : k \in H
  <2> HIDE DEF H
  <2> QED
    BY <1>3, <1>4, InductionOnSet
<1>6. \A k \in 0..Depth : k \in Nat /\ k <= Depth
  BY TreeSizes
<1> QED
  BY <1>5, <1>6 DEF level

-----------------------------------------------------------------------------
(* What is known of the attested tree and of the proofs under its root.    *)
IsAttested(t) ==
    LET levels == Levels(t.leaves)
    IN  /\ t.leaves \in [1..NLeaves -> Leaf] /\ t.reserve \in Reserves
        /\ TreeConstraints(t.leaves)
        /\ t.root = Root(levels).hash /\ t.total = Root(levels).sum
        /\ SolvencyConstraints(t.reserve, t.total) /\ Solvent(t.reserve, t.total)

(* The path of MerkleSumInclusion with any siblings at all: node[k] is      *)
(* curHash[k], curSum[k].                                                  *)
IsPath(user, balance, node) ==
    /\ node[0] = LeafNode([user |-> user, balance |-> balance])
    /\ \A k \in 1..Depth : \E s : node[k] \in {Node(node[k - 1], s), Node(s, node[k - 1])}

(* The circuit's own promise, T4 of merkle_sum_inclusion.circom: whatever   *)
(* hashes and sums a prover takes for siblings, of the tree or not, a path *)
(* that ends in the hash of an aggregated root starts at one of its leaves.*)
THEOREM NoPathIsForged ==
    ASSUME NEW leaves \in [1..NLeaves -> Leaf], TreeConstraints(leaves),
           NEW user, NEW balance, NEW node, IsPath(user, balance, node),
           node[Depth].hash = Root(Levels(leaves)).hash
    PROVE  \E j \in 1..NLeaves : leaves[j] = [user |-> user, balance |-> balance]
<1> DEFINE level == Levels(leaves)
           InTree(k) == \E j \in 1..Width(k) : node[k].hash = level[k][j].hash
           H == {n \in Nat : n <= Depth => InTree(Depth - n)}
<1>1. Depth \in Nat /\ Width(Depth) = 1 /\ Width(0) = NLeaves
  BY TreeSizes
<1>2. /\ \A j \in 1..NLeaves : level[0][j] = LeafNode(leaves[j])
      /\ \A k \in 1..Depth : \A j \in 1..Width(k) :
            /\ 2 * j - 1 \in 1..Width(k - 1) /\ 2 * j \in 1..Width(k - 1)
            /\ level[k][j] = Node(level[k - 1][2 * j - 1], level[k - 1][2 * j])
  BY TreeSums
<1>3. 0 \in H
  <2>1. InTree(Depth)
    BY <1>1 DEF Root
  <2> HIDE DEF InTree
  <2>2. Depth - 0 = Depth
    BY <1>1
  <2> QED
    BY <2>1, <2>2
<1>4. ASSUME NEW k \in 1..Depth, InTree(k) PROVE InTree(k - 1)
  <2>1. PICK j \in 1..Width(k) : node[k].hash = level[k][j].hash
    BY <1>4
  <2>2. PICK s : node[k] = Node(node[k - 1], s) \/ node[k] = Node(s, node[k - 1])
    BY DEF IsPath
  <2> DEFINE l == level[k - 1][2 * j - 1]
             r == level[k - 1][2 * j]
  <2>3. 2 * j - 1 \in 1..Width(k - 1) /\ 2 * j \in 1..Width(k - 1) /\ level[k][j] = Node(l, r)
    BY <1>2
  <2>4. node[k].hash = <<l.hash, l.sum, r.hash, r.sum>>
    BY <2>1, <2>3, NodeFields
  <2> HIDE DEF l, r
  <2>5. \/ node[k].hash = <<node[k - 1].hash, node[k - 1].sum, s.hash, s.sum>>
        \/ node[k].hash = <<s.hash, s.sum, node[k - 1].hash, node[k - 1].sum>>
    BY <2>2, NodeFields
  <2>6. node[k - 1].hash = l.hash \/ node[k - 1].hash = r.hash
    BY <2>4, <2>5
  <2> QED
    BY <2>3, <2>6 DEF l, r
<1> HIDE DEF InTree
<1>5. ASSUME NEW n \in Nat, n \in H PROVE n + 1 \in H
  <2> SUFFICES ASSUME n + 1 <= Depth PROVE InTree(Depth - (n + 1))
    OBVIOUS
  <2>1. Depth - n \in 1..Depth /\ (Depth - n) - 1 = Depth - (n + 1) /\ n <= Depth
    BY <1>1
  <2>2. InTree(Depth - n)
    BY <1>5, <2>1
  <2>3. InTree((Depth - n) - 1)
    BY <1>4, <2>1, <2>2
  <2> QED
    BY <2>1, <2>3
<1> HIDE DEF H
<1>6. \A n \in Nat : n \in H
  BY <1>3, <1>5, InductionOnSet
<1>7. InTree(0)
  <2>1. Depth \in H /\ Depth <= Depth /\ Depth - Depth = 0
    BY <1>1, <1>6
  <2> QED
    BY <2>1 DEF H
<1>8. PICK j \in 1..NLeaves : node[0].hash = LeafNode(leaves[j]).hash
  BY <1>1, <1>2, <1>7 DEF InTree
<1>9. leaves[j].user = user /\ leaves[j].balance = balance
  BY <1>8, NodeFields DEF IsPath, LeafHash
<1>10. leaves[j] = [user |-> leaves[j].user, balance |-> leaves[j].balance]
  BY LeafBalance
<1> QED
  BY <1>9, <1>10

TreeInv ==
    /\ attested = None => included = {}
    /\ attested # None => IsAttested(attested)
    /\ included \in SUBSET (UserId \X TreeCandidate) /\ IsFiniteSet(included)
    /\ NoForgedInclusion

(* Only a leaf of the attested tree is includable.                        *)
LEMMA IncludableIsLeaf ==
    ASSUME IsAttested(attested), NEW user, NEW balance, Includable(user, balance)
    PROVE  \E j \in 1..NLeaves : attested.leaves[j] = [user |-> user, balance |-> balance]
<1>1. PICK reach : /\ IsClimb(attested.leaves, user, balance, reach)
                   /\ Reachable(attested.leaves, user, balance) = reach[Depth]
  BY ReachExists
<1> DEFINE n == [hash |-> attested.root, sum |-> attested.total]
<1>2. n \in reach[Depth] /\ n.hash = Levels(attested.leaves)[Depth][1].hash
  BY <1>1 DEF Includable, IsAttested, Root
<1> HIDE DEF n
<1>3. Depth \in 0..Depth /\ 1 \in 1..Width(Depth)
  BY TreeSizes
<1> QED
  BY <1>1, <1>2, <1>3, PathsComeFromLeaves DEF IsAttested

(* Attesting and proving inclusion keep the invariant.                    *)
LEMMA TreeStep ==
    ASSUME TreeInv, [TreeNext]_treeVars
    PROVE  TreeInv'
<1>1. CASE UNCHANGED treeVars
  BY <1>1 DEF TreeInv, treeVars, NoForgedInclusion
<1>2. ASSUME NEW reserve \in Reserves, NEW leaves \in [1..NLeaves -> Leaf],
             Attest(reserve, leaves)
      PROVE  TreeInv'
  <2>1. /\ included' = {}
        /\ attested' = [leaves |-> leaves, root |-> Root(Levels(leaves)).hash,
                        total |-> Root(Levels(leaves)).sum, reserve |-> reserve]
    BY <1>2 DEF Attest, TreeInv
  <2>2. IsAttested(attested)'
    BY <1>2, <2>1 DEF Attest, IsAttested
  <2> QED
    BY <2>1, <2>2, FS_EmptySet DEF TreeInv, NoForgedInclusion
<1>3. ASSUME NEW user \in UserId, NEW balance \in TreeCandidate,
             CheckInclusion(user, balance)
      PROVE  TreeInv'
  <2>1. /\ attested # None /\ attested' = attested /\ Includable(user, balance)
        /\ included' = included \cup {<<user, balance>>}
    BY <1>3 DEF CheckInclusion
  <2>2. \E j \in 1..NLeaves : attested.leaves[j] = [user |-> user, balance |-> balance]
    BY <2>1, IncludableIsLeaf DEF TreeInv
  <2>3. NoForgedInclusion'
    BY <2>1, <2>2 DEF TreeInv, NoForgedInclusion
  <2>4. IsFiniteSet(included')
    BY <2>1, FS_AddElement DEF TreeInv
  <2> QED
    BY <2>1, <2>3, <2>4 DEF TreeInv
<1> QED
  BY <1>1, <1>2, <1>3 DEF TreeNext

(* The invariant of the tree holds always.                                *)
LEMMA TreeInvariant == TreeSpec => []TreeInv
<1>1. TreeInit => TreeInv
  BY FS_EmptySet DEF TreeInit, TreeInv, NoForgedInclusion
<1> QED
  BY <1>1, TreeStep, PTL DEF TreeSpec

(* A proof of inclusion shows a leaf: the hashes on the path can be those  *)
(* of no other node, whatever sums and siblings the prover assigns.        *)
THEOREM InclusionIsGenuine == TreeSpec => []NoForgedInclusion
<1>1. TreeInv => NoForgedInclusion
  BY DEF TreeInv
<1> QED
  BY <1>1, TreeInvariant, PTL

(* Every leaf of an attested tree can be proven to its user.               *)
THEOREM NobodyLeftOut == TreeSpec => []LeavesIncludable
<1>1. TreeInv => LeavesIncludable
  <2> SUFFICES ASSUME TreeInv, attested # None, NEW q \in 1..NLeaves
               PROVE  Includable(attested.leaves[q].user, attested.leaves[q].balance)
    BY DEF LeavesIncludable
  <2> DEFINE leaves == attested.leaves
             level == Levels(leaves)
  <2>1. /\ leaves \in [1..NLeaves -> Leaf] /\ TreeConstraints(leaves)
        /\ attested.root = level[Depth][1].hash /\ attested.total = level[Depth][1].sum
    BY DEF TreeInv, IsAttested, Root
  <2>2. PICK reach : /\ IsClimb(leaves, leaves[q].user, leaves[q].balance, reach)
                     /\ Reachable(leaves, leaves[q].user, leaves[q].balance) = reach[Depth]
    BY ReachExists
  <2>3. Depth \in 0..Depth /\ 1..Width(Depth) = {1}
    BY TreeSizes
  <2>4. level[Depth][1] \in reach[Depth]
    <3>1. \E j \in 1..Width(Depth) : level[Depth][j] \in reach[Depth]
      BY <2>1, <2>2, <2>3, PathsGoUp
    <3> HIDE DEF level
    <3> QED
      BY <2>3, <3>1
  <2>5. level[Depth][1] = [hash |-> level[Depth][1].hash, sum |-> level[Depth][1].sum]
    BY <2>1, <2>3, TreeSums
  <2>6. LeafRange(leaves[q].balance)
    BY <2>1 DEF TreeConstraints
  <2> HIDE DEF level
  <2>7. [hash |-> attested.root, sum |-> attested.total]
           \in Reachable(attested.leaves, attested.leaves[q].user, attested.leaves[q].balance)
    BY <2>1, <2>2, <2>4, <2>5
  <2> QED
    BY <2>6, <2>7 DEF Includable
<1> QED
  BY <1>1, TreeInvariant, PTL

-----------------------------------------------------------------------------
(* What each claim is for, as a function.                                  *)
Claimed == [c \in included |-> c[2]]

(* The model's total of claims is a sum over the included users.          *)
LEMMA ClaimsAreSums ==
    ASSUME TreeInv
    PROVE  Claims = SumOver(Claimed, included)
<1> DEFINE Rec(g) == g = [s \in SUBSET included |->
                            IF s = {} THEN 0
                            ELSE (CHOOSE x \in s : TRUE)[2] + g[s \ {CHOOSE x \in s : TRUE}]]
           g == CHOOSE g : Rec(g)
<1>1. /\ IsFiniteSet(included)
      /\ \A c \in included : Claimed[c] = c[2] /\ c[2] \in Int
  <2>1. TreeCandidate \subseteq Int
    BY TreeAssumption, OrderAssumption DEF Field
  <2> QED
    BY <2>1 DEF TreeInv, Claimed
<1>2. \A h : Rec(h) <=> SumStep(Claimed, included, h)
  <2> TAKE h
  <2>1. ASSUME NEW s \in SUBSET included
        PROVE  (IF s = {} THEN 0
                ELSE (CHOOSE x \in s : TRUE)[2] + h[s \ {CHOOSE x \in s : TRUE}])
               = (IF s = {} THEN 0
                  ELSE Claimed[CHOOSE x \in s : TRUE] + h[s \ {CHOOSE x \in s : TRUE}])
    <3>1. s # {} => (CHOOSE x \in s : TRUE) \in included
      OBVIOUS
    <3> QED
      BY <1>1, <3>1
  <2> QED
    BY <2>1 DEF SumStep
<1> HIDE DEF Rec
<1>3. Claims = g[included]
  BY DEF Claims, MapThenSumSet, MapThenFoldSet, Rec
<1>4. PICK h \in [SUBSET included -> Int] : SumStep(Claimed, included, h)
  BY <1>1, SumExists
<1>5. SumStep(Claimed, included, g)
  <2>1. Rec(g)
    BY <1>2, <1>4
  <2> HIDE DEF g
  <2> QED
    BY <1>2, <2>1
<1> HIDE DEF g
<1> DEFINE k == CHOOSE k : SumStep(Claimed, included, k)
<1>6. SumStep(Claimed, included, k) /\ SumOver(Claimed, included) = k[included]
  BY <1>4, SumUnfolds
<1> HIDE DEF k
<1>7. g[included] = k[included]
  BY <1>1, <1>5, <1>6, SumUnique
<1> QED
  BY <1>3, <1>6, <1>7

(* Distinct claims are of distinct leaves.                                 *)
LEMMA ClaimsFitLeaves ==
    ASSUME TreeInv, attested # None
    PROVE  SumOver(Claimed, included) <= SumOver(Balances(attested.leaves), 1..NLeaves)
<1> DEFINE b == Balances(attested.leaves)
           Own(T) == {j \in 1..NLeaves :
                        <<attested.leaves[j].user, attested.leaves[j].balance>> \in T}
           H == {T \in SUBSET included : SumOver(Claimed, T) <= SumOver(b, Own(T))}
<1>1. /\ attested.leaves \in [1..NLeaves -> Leaf]
      /\ \A j \in 1..NLeaves : b[j] \in Nat /\ b[j] = attested.leaves[j].balance
  <2>1. attested.leaves \in [1..NLeaves -> Leaf]
    BY DEF TreeInv, IsAttested
  <2> QED
    BY <2>1, LeafBalance DEF Balances
<1>2. /\ IsFiniteSet(included)
      /\ \A c \in included : Claimed[c] = c[2] /\ Claimed[c] \in Nat /\ c = <<c[1], c[2]>>
  <2>1. TreeCandidate \subseteq Nat
    BY TreeAssumption, OrderAssumption DEF Field
  <2>2. IsFiniteSet(included) /\ included \subseteq UserId \X TreeCandidate
    BY DEF TreeInv
  <2>3. ASSUME NEW c \in included
        PROVE  Claimed[c] = c[2] /\ Claimed[c] \in Nat /\ c = <<c[1], c[2]>>
    <3>1. c \in UserId \X TreeCandidate
      BY <2>2
    <3>2. PICK u \in UserId, t \in TreeCandidate : c = <<u, t>>
      BY <3>1
    <3>4. t \in Nat
      BY <2>1
    <3>3. Claimed[c] = c[2]
      BY DEF Claimed
    <3> QED
      BY <3>2, <3>3, <3>4
  <2> QED
    BY <2>2, <2>3
<1>3. \A T : IsFiniteSet(Own(T)) /\ Own(T) \in SUBSET (1..NLeaves)
  <2>1. IsFiniteSet(1..NLeaves)
    BY FS_Interval, TreeSizes
  <2>2. \A T : Own(T) \in SUBSET (1..NLeaves)
    OBVIOUS
  <2> HIDE DEF Own
  <2> QED
    BY <2>1, <2>2, FS_Subset
<1> HIDE DEF b
<1>4. ASSUME NEW T \in SUBSET included, \A t \in SUBSET T : t # T => t \in H
      PROVE  T \in H
  <2>0. IsFiniteSet(T) /\ \A c \in T : Claimed[c] \in Int
    BY <1>2, FS_Subset
  <2>00. \A j \in Own(T) : b[j] \in Nat
    BY <1>1, <1>3
  <2>1. CASE T = {}
    <3>1. SumOver(Claimed, T) = 0
      BY <2>0, <2>1, SumEquation
    <3>2. SumOver(b, Own(T)) \in Nat
      <4> HIDE DEF Own
      <4>1. Own(T) \in SUBSET Own(T)
        OBVIOUS
      <4> QED
        BY <1>3, <2>00, <4>1, SumMonotone
    <3>3. SumOver(Claimed, T) <= SumOver(b, Own(T))
      BY <3>1, <3>2
    <3> QED
      BY <3>3
  <2>2. CASE T # {}
    <3>1. PICK c \in T : SumOver(Claimed, T) = Claimed[c] + SumOver(Claimed, T \ {c})
      BY <2>0, <2>2, SumEquation
    <3>2. PICK q \in 1..NLeaves : attested.leaves[q] = [user |-> c[1], balance |-> c[2]]
      BY DEF TreeInv, NoForgedInclusion
    <3>3. b[q] = Claimed[c] /\ q \in Own(T) /\ Own(T \ {c}) \in SUBSET (Own(T) \ {q})
      <4>1. c = <<attested.leaves[q].user, attested.leaves[q].balance>>
        BY <1>2, <3>2
      <4>2. b[q] = Claimed[c]
        BY <1>1, <1>2, <3>2
      <4> QED
        BY <4>1, <4>2
    <3>4. SumOver(Claimed, T \ {c}) <= SumOver(b, Own(T \ {c}))
      <4>1. T \ {c} \in H
        BY <1>4
      <4> QED
        BY <4>1
    <3> HIDE DEF Own
    <3>5. SumOver(b, Own(T)) = b[q] + SumOver(b, Own(T) \ {q})
      <4>1. \A j \in Own(T) : b[j] \in Int
        BY <2>00
      <4> QED
        BY <1>3, <3>3, <4>1, SumPeels
    <3>6. /\ SumOver(b, Own(T \ {c})) <= SumOver(b, Own(T) \ {q})
          /\ SumOver(b, Own(T \ {c})) \in Nat /\ SumOver(b, Own(T) \ {q}) \in Nat
      <4>1. /\ IsFiniteSet(Own(T) \ {q}) /\ \A j \in Own(T) \ {q} : b[j] \in Nat
            /\ Own(T) \ {q} \in SUBSET (Own(T) \ {q})
        BY <1>3, <2>00, FS_Difference
      <4> QED
        BY <3>3, <4>1, SumMonotone
    <3>7. Claimed[c] \in Int /\ SumOver(Claimed, T \ {c}) \in Int
      <4>1. IsFiniteSet(T \ {c}) /\ \A d \in T \ {c} : Claimed[d] \in Int
        BY <2>0, FS_Difference
      <4> QED
        BY <2>0, <4>1, SumEquation
    <3>8. SumOver(Claimed, T) <= SumOver(b, Own(T))
      BY <3>1, <3>3, <3>4, <3>5, <3>6, <3>7
    <3> QED
      BY <3>8
  <2> QED
    BY <2>1, <2>2
<1>5. included \in H
  <2> HIDE DEF H
  <2> QED
    BY <1>2, <1>4, InductionOnSize
<1> HIDE DEF Own
<1>6. /\ SumOver(b, Own(included)) <= SumOver(b, 1..NLeaves)
      /\ SumOver(b, Own(included)) \in Nat /\ SumOver(b, 1..NLeaves) \in Nat
  <2>1. IsFiniteSet(1..NLeaves) /\ 1..NLeaves \in SUBSET (1..NLeaves)
    BY FS_Interval, TreeSizes
  <2> QED
    BY <1>1, <1>3, <2>1, SumMonotone
<1>7. SumOver(Claimed, included) \in Int
  BY <1>2, SumEquation
<1>8. SumOver(Claimed, included) <= SumOver(b, Own(included))
  BY <1>5
<1> QED
  BY <1>6, <1>7, <1>8 DEF b

(* The chain from reserves to users, over the integers.                    *)
THEOREM UsersAreCovered == TreeSpec => []UsersCovered
<1>1. TreeInv => UsersCovered
  <2> SUFFICES ASSUME TreeInv, attested # None
               PROVE  /\ Claims <= attested.total
                      /\ attested.total <=
                            MapThenSumSet(LAMBDA j : attested.reserve[j], 1..NReserves)
    BY DEF UsersCovered
  <2>1. IsAttested(attested)
    BY DEF TreeInv
  <2>2. Claims <= attested.total
    <3>1. attested.total = SumOver(Balances(attested.leaves), 1..NLeaves)
      BY <2>1, RootIsTotal DEF IsAttested
    <3> QED
      BY <3>1, ClaimsAreSums, ClaimsFitLeaves
  <2> DEFINE reserve == attested.reserve
             whole == SumOver(reserve, 1..NReserves)
  <2>3. whole \in Nat
    <3>1. \A j \in 1..NReserves : reserve[j] \in Nat
      <4>1. TreeCandidate \subseteq Nat
        BY TreeAssumption, OrderAssumption DEF Field
      <4> QED
        BY <2>1, <4>1 DEF IsAttested, Reserves
    <3>2. IsFiniteSet(1..NReserves) /\ 1..NReserves \in SUBSET (1..NReserves)
      BY FS_Interval, TreeSizes
    <3> QED
      BY <3>1, <3>2, SumMonotone
  <2>4. FieldSum(reserve) = whole % P
    <3>1. DOMAIN reserve = 1..NReserves
      BY <2>1 DEF IsAttested, Reserves
    <3> QED
      BY <3>1 DEF FieldSum, SumOver, MapThenSumSet, MapThenFoldSet
  <2> HIDE DEF whole
  <2>5. FieldSum(reserve) \in Nat /\ FieldSum(reserve) <= whole
    BY <2>3, <2>4, TreeSizes
  <2>6. attested.total \in Nat
    <3>1. Depth \in 0..Depth /\ 1 \in 1..Width(Depth)
      BY TreeSizes
    <3> QED
      BY <2>1, <3>1, TreeSums DEF IsAttested, Root
  <2>7. /\ FieldSum(reserve) < CmpLimit /\ attested.total < CmpLimit
        /\ GteOut(CmpLimit, FieldSum(reserve), attested.total)
    BY <2>1 DEF IsAttested, SolvencyConstraints, Solvent, RangeCheck
  <2>8. attested.total <= FieldSum(reserve)
    <3>1. ASSUME NEW x \in Nat, NEW y \in Nat, x < CmpLimit, y < CmpLimit,
                 GteOut(CmpLimit, x, y)
          PROVE  y <= x
      <4>1. CmpLimit \in Nat /\ 2 * CmpLimit <= P
        BY TreeSizes
      <4>2. GteOut(CmpLimit, x, y) = (x >= y)
        BY <3>1, <4>1, GteExact
      <4>3. x >= y
        BY <3>1, <4>2, Zenon
      <4> QED
        BY <4>3
    <3> QED
      BY <2>5, <2>6, <2>7, <3>1
  <2>9. attested.total <= whole
    BY <2>3, <2>5, <2>6, <2>8
  <2> QED
    BY <2>2, <2>9 DEF whole, SumOver, MapThenSumSet, MapThenFoldSet
<1> QED
  BY <1>1, TreeInvariant, PTL
================================================================================
