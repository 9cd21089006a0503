------------------------------- MODULE Verifier -------------------------------
(***************************************************************************)
(* The two pairing checks of the contract: Groth16 (verifier.rs) and the   *)
(* custodian's BLS signature (bls_sig.rs).  StellarisContract takes them   *)
(* for oracles; here they are the equations the code computes, with proofs *)
(* and signatures that their makers hand over and callers pair with any    *)
(* key, any signals and any message.                                       *)
(*                                                                         *)
(* A point of G2 is its discrete logarithm, modulo the group order Q.  A   *)
(* point of G1 is a linear combination of the points nobody knows a        *)
(* relation between: those a trusted setup publishes and the hashes of     *)
(* messages; so are the values of a pairing.                               *)
(***************************************************************************)
EXTENDS Integers, Sequences, FiniteSets, FiniteSetsExt, SequencesExt

CONSTANTS
    Q,            \* the group order, also the order of the scalar field
    VerificationKey,   \* of which Setup[k] = [beta, gamma, delta, n]
    Setup,        \* discrete logarithms of k's G2 points, and its signals
    CustodianKey, \* discrete logarithms of custodians' public keys
    Statement,    \* Statement[k]: the scalars the circuit of k is satisfied by
    Randomness,   \* the pairs of scalars a prover blinds a proof with
    Signals,      \* the vectors of words that callers submit
    Word,         \* the commitments that custodians sign
    Tag,          \* the verifier versions that are requested
    MaxMade       \* bound on the proofs and signatures that are made

ASSUME SetupAssumption ==
    /\ Q \in Nat /\ Q > 1 /\ \A x \in 1..(Q - 1) : \E y \in 1..(Q - 1) : (x * y) % Q = 1
    /\ \A k \in VerificationKey :
          /\ Setup[k].beta \in 1..(Q - 1) /\ Setup[k].gamma \in 1..(Q - 1)
          /\ Setup[k].delta \in 1..(Q - 1) /\ Setup[k].n \in Nat
          /\ \A s \in Statement[k] : s \in [1..Setup[k].n -> 0..(Q - 1)]
    /\ IsFiniteSet(VerificationKey) /\ "hash" \notin VerificationKey
    /\ CustodianKey \subseteq 1..(Q - 1) /\ MaxMade \in Nat
    /\ Randomness \subseteq (0..(Q - 1)) \X (0..(Q - 1)) /\ Signals \subseteq Seq(Nat)

VARIABLES
    proofs,      \* Groth16 proofs that were made: [key, statement, a, b, c]
    signatures,  \* BLS signatures that were made: [key, message, point]
    verdict      \* the last check: what was asked and what was answered

verifierVars == <<proofs, signatures, verdict>>

-----------------------------------------------------------------------------
(* The basis of G1: alpha and ic of each key, and the hash of each word.   *)
MaxSignals == Max({Setup[k].n : k \in VerificationKey})
Basis == (VerificationKey \X (-1..MaxSignals)) \cup {<<"hash", w>> : w \in Word}

Point(e) == [f \in Basis |-> IF f = e THEN 1 ELSE 0]
Alpha(k) == Point(<<k, -1>>)
Ic(k) == [j \in 1..(Setup[k].n + 1) |-> Point(<<k, j - 1>>)]

(* Host functions g1_add, g1_mul, negation, hash_to_g1 and pairing_check.  *)
G1Add(x, y) == [f \in Basis |-> (x[f] + y[f]) % Q]
G1Mul(x, n) == [f \in Basis |-> (x[f] * n) % Q]
G1Neg(x) == G1Mul(x, Q - 1)
HashToG1(w) == Point(<<"hash", w>>)
PairingCheck(g1s, g2s) ==
    \A f \in Basis :
        MapThenSumSet(LAMBDA j : g1s[j][f] * g2s[j], DOMAIN g1s) % Q = 0

-----------------------------------------------------------------------------
(* Fault: the loop pairs the first signal with ic[0]. *)
VkXFromZero(k, s) ==
    FoldLeft(LAMBDA acc, j : G1Add(acc, G1Mul(Ic(k)[j], s[j])), Ic(k)[1],
             [j \in 1..Len(s) |-> j])

(* vk_x = ic[0] + sum(signal_i * ic[i+1]) *)
VkX(k, s) ==
    FoldLeft(LAMBDA acc, j : G1Add(acc, G1Mul(Ic(k)[j + 1], s[j])), Ic(k)[1],
             [j \in 1..Len(s) |-> j])

(* The signals are taken modulo Q when they become elements of Fr.         *)
Groth16PairingCheck(k, proof, s) ==
    IF Len(s) + 1 # Len(Ic(k)) THEN "MalformedVerificationKey"
    ELSE IF PairingCheck(<<G1Neg(proof.a), Alpha(k), VkX(k, s), proof.c>>,
                         <<proof.b, Setup[k].beta, Setup[k].gamma, Setup[k].delta>>)
         THEN "valid" ELSE "invalid"

(* VerifierVersion::from_u32, which knows Groth16 only. *)
FromU32(tag) == IF tag = 1 THEN "Groth16" ELSE "WrongVerifierVersion"

DispatchVerify(tag, k, proof, s) ==
    IF FromU32(tag) # "Groth16" THEN FromU32(tag)
    ELSE IF Groth16PairingCheck(k, proof, s) = "MalformedVerificationKey"
         THEN "BadProofEncoding" ELSE Groth16PairingCheck(k, proof, s)

(* What the entrypoints make of it: an error is as good as an invalid proof. *)
ProofOk(tag, k, proof, s) == DispatchVerify(tag, k, proof, s) = "valid"

VerifyCustodianSig(pk, sig, w) == PairingCheck(<<sig, G1Neg(HashToG1(w))>>, <<1, pk>>)

-----------------------------------------------------------------------------
(* snarkjs, for a satisfied statement: any a and b, and the c that solves  *)
(* the verification equation for the statement's own combination of ic.    *)
InverseOf(x) == CHOOSE y \in 1..(Q - 1) : (x * y) % Q = 1

Claim(k, s) ==
    [f \in Basis |-> IF f[1] # k THEN 0 ELSE IF f[2] = -1 THEN 0
                     ELSE IF f[2] = 0 THEN 1
                     ELSE IF f[2] \in DOMAIN s THEN s[f[2]] ELSE 0]

MadeProof(k, s, r) ==
    LET a == G1Mul(Alpha(k), r[1])
        b == r[2]
        rest == G1Add(G1Mul(Alpha(k), Setup[k].beta), G1Mul(Claim(k, s), Setup[k].gamma))
    IN  [key |-> k, statement |-> s, a |-> a, b |-> b,
         c |-> G1Mul(G1Add(G1Mul(a, b), G1Neg(rest)), InverseOf(Setup[k].delta))]

VerifierInit == proofs = {} /\ signatures = {} /\ verdict = [check |-> "none"]

CanMake == Cardinality(proofs) + Cardinality(signatures) < MaxMade

Prove(k, s, r) ==
    /\ CanMake
    /\ proofs' = proofs \cup {MadeProof(k, s, r)}
    /\ UNCHANGED <<signatures, verdict>>

Sign(pk, w) ==
    /\ CanMake
    /\ signatures' = signatures \cup
          {[key |-> pk, message |-> w, point |-> G1Mul(HashToG1(w), pk)]}
    /\ UNCHANGED <<proofs, verdict>>

CheckProof(tag, k, proof, words) ==
    /\ verdict' = [check |-> "groth16", tag |-> tag, key |-> k, signals |-> words, proof |-> proof,
                   ok |-> ProofOk(tag, k, proof, [j \in DOMAIN words |-> words[j] % Q])]
    /\ UNCHANGED <<proofs, signatures>>

CheckSignature(pk, sig, w) ==
    /\ verdict' = [check |-> "bls", key |-> pk, message |-> w, signature |-> sig,
                   ok |-> VerifyCustodianSig(pk, sig.point, w)]
    /\ UNCHANGED <<proofs, signatures>>

VerifierNext ==
    \/ \E k \in VerificationKey, r \in Randomness :
          \E s \in Statement[k] : Prove(k, s, r)
    \/ \E pk \in CustodianKey, w \in Word : Sign(pk, w)
    \/ \E tag \in Tag, k \in VerificationKey, proof \in proofs, words \in Signals :
          CheckProof(tag, k, proof, words)
    \/ \E pk \in CustodianKey, sig \in signatures, w \in Word : CheckSignature(pk, sig, w)

VerifierSpec == VerifierInit /\ [][VerifierNext]_verifierVars

-----------------------------------------------------------------------------
(* A proof passes for the key and the scalars it was made for and for      *)
(* nothing else, whatever words denote these scalars, and only when the    *)
(* Groth16 backend is asked: what StellarisContract!DispatchVerify says.   *)
(* A custodian's signature passes for the key it was made with and the     *)
(* word it was made for, and for nothing else -- another word for the same *)
(* scalar included: what StellarisContract!VerifyCustodianSig says.        *)
VerdictsExact ==
    /\ verdict.check = "groth16" =>
          (verdict.ok <=> /\ verdict.tag = 1
                          /\ verdict.proof.key = verdict.key
                          /\ verdict.proof.statement =
                                [j \in DOMAIN verdict.signals |-> verdict.signals[j] % Q])
    /\ verdict.check = "bls" =>
          (verdict.ok <=> /\ verdict.signature.key = verdict.key
                          /\ verdict.signature.message = verdict.message)

===============================================================================
