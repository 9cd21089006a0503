------------------------------- MODULE MCProofs -------------------------------
(***************************************************************************)
(* What a proof goes through, side by side: the v3 circuit, the v2 circuit *)
(* with its users, the parsers of its signals, and the pairing checks.     *)
(* The four share no variable, so a behaviour is one of any of them while  *)
(* the others wait in their initial states.                                *)
(***************************************************************************)
EXTENDS PricedSolvency, LiabilityTree, PublicSignals, Verifier, TLC

CONSTANTS u1, u2, k1, k2, k3

proofVars == <<circuitVars, treeVars, signalVars, verifierVars>>

ProofInit == Init /\ TreeInit /\ WireInit /\ VerifierInit

ProofNext ==
    \/ /\ TreeInit /\ WireInit /\ VerifierInit /\ Next
       /\ UNCHANGED <<treeVars, signalVars, verifierVars>>
    \/ /\ Init /\ WireInit /\ VerifierInit /\ TreeNext
       /\ UNCHANGED <<circuitVars, signalVars, verifierVars>>
    \/ /\ Init /\ TreeInit /\ VerifierInit /\ WireNext
       /\ UNCHANGED <<circuitVars, treeVars, verifierVars>>
    \/ /\ Init /\ TreeInit /\ WireInit /\ VerifierNext
       /\ UNCHANGED <<circuitVars, treeVars, signalVars>>

ProofSpec == ProofInit /\ [][ProofNext]_proofVars

-----------------------------------------------------------------------------
(* The circuits work over a field of 521 elements, with one-bit balances   *)
(* and two-bit prices; v3 has three assets of two accounts, v2 four leaves *)
(* and two users.  The provers try what is in range, the first values out  *)
(* of range, and the elements that stand for -1 and -2.                    *)
MCCandidate == (0..4) \cup {P - 2, P - 1}
MCTreeCandidate == (0..2) \cup {P - 2, P - 1}

Users == Permutations({u1, u2})

(* Signals at the edges of each width: flags, a period of one too many, an *)
(* amount of one too many, a word of one too many, and a padded number.    *)
MCText == {0, 1, 2, 3, 9, Padded}
MCEdit == {0, 1}

(* Groups of order 5, two keys for circuits of two signals and one for a   *)
(* circuit of one, statements that differ in one signal, and words above   *)
(* the group order.                                                        *)
MCSetup == [k \in {k1, k2, k3} |->
    IF k = k3 THEN [beta |-> 1, gamma |-> 1, delta |-> 3, n |-> 1]
    ELSE [beta |-> 2, gamma |-> 3, delta |-> 4, n |-> 2]]

MCStatement ==
    [k \in {k1, k2, k3} |-> IF k = k3 THEN {<<1>>} ELSE {<<1, 0>>, <<0, 1>>, <<1, 4>>}]

MCRandomness == {<<1, 1>>, <<3, 2>>}

MCSignals == {<<1, 0>>, <<0, 1>>, <<1, 4>>, <<6, 5>>, <<1>>, <<6>>, << >>, <<1, 0, 0>>}
===============================================================================
