----------------------------- MODULE MCSecureMint -----------------------------
(***************************************************************************)
(* SecureMint with one v3 statement for each of two periods, two oracle    *)
(* prices, one custodian, and two policies: fresh and oracle-bound with a  *)
(* cap, custodian-bound without one; and a third for the dry run, with a   *)
(* cap and no requirement but the period.                                  *)
(***************************************************************************)
EXTENDS SecureMint

CONSTANTS alice, holder, k3, c1

MCVectors == { <<1, 3, 2, 1, 1, 0, 1, p>> : p \in {0, 1} }

MCProvable == [k \in {k3} |-> MCVectors]

MCIcLength == [k \in {k3} |-> 9]

MCSigned == [pk \in {c1} |-> {3}]

Policy(age, oracleBound, custodianBound, cap) ==
    [issuer |-> alice, max_age_secs |-> age, require_oracle_bound |-> oracleBound,
     require_custodian_bound |-> custodianBound, supply_cap |-> cap]

MCGuardConfig == {Policy(1, TRUE, FALSE, 2), Policy(0, FALSE, TRUE, 0)}

MCAnyConfig == {Policy(0, FALSE, FALSE, 2)}

MCAmount == {0, 1, 2}
=============================================================================
