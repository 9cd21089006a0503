------------------------------ MODULE MCContract ------------------------------
(***************************************************************************)
(* StellarisContract with two interchangeable accounts, in two worlds.  In *)
(* one a v1 and a v2 key may each be registered in either slot, with the   *)
(* vectors at the edges of the contract's integer types.  In the other the *)
(* key is a v3 key, the oracle publishes, corrects and is replaced, two    *)
(* custodian keys are rotated, and one period is attested under two prices *)
(* and under two words for the same price.  With R = 5, a word of 5 or     *)
(* more denotes a scalar that has a smaller word too.                      *)
(***************************************************************************)
EXTENDS StellarisContract, TLC

CONSTANTS alice, bob, k1, k2, k3, c1, c2

MCVectors ==
    { <<1, 3, 2, 0>>,                  \* provable under k1
      <<1, 3, 0, 1>>,                  \* provable under k1, for the other period
      <<0, 4, 1, 0>>,                  \* provable under k1, and insolvent
      <<1, 3, 2, 5>>,                  \* period 0 modulo R, over u64::MAX
      <<1, 3, 7, 0>>,                  \* liabilities 2 modulo R, over u128::MAX
      <<1, 3, 4, 2, 0>>,               \* provable under k2
      <<1, 3, 2, 1, 1, 0, 1, 0>>,      \* provable under k3
      <<1, 3, 7, 1, 1, 0, 1, 0>>,      \* the price 2 as another word
      <<1, 4, 4, 1, 1, 1, 1, 0>>,      \* other reserves and another price
      <<1, 3, 2, 1, 6, 0, 1, 0>> }     \* flag 1 modulo R

MCProvable == [k \in {k1, k2, k3} |->
    CASE k = k1 -> {<<1, 3, 2, 0>>, <<0, 4, 1, 0>>, <<1, 3, 0, 1>>}
      [] k = k2 -> {<<1, 3, 4, 2, 0>>}
      [] k = k3 -> {<<1, 3, 2, 1, 1, 0, 1, 0>>, <<1, 4, 4, 1, 1, 1, 1, 0>>}]

MCIcLength == [k \in {k1, k2, k3} |-> CASE k = k1 -> 5 [] k = k2 -> 6 [] k = k3 -> 9]

(* c1 signed the reserves 3, c2 the reserves 4.                            *)
MCSigned == [pk \in {c1, c2} |-> IF pk = c1 THEN {3} ELSE {4}]

Registered == {vk[v] : v \in Version} \ {None}

OneWorld ==
    \/ Registered \subseteq {k1, k2} /\ vk[3] = None /\ oracle = None /\ custodian = None
    \/ Registered \subseteq {k3} /\ vk[2] = None /\ now = 0

Accounts == Permutations({alice, bob})
=============================================================================
