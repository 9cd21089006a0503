-------------------------- MODULE Verification_proofs --------------------------
(***************************************************************************)
(* Proofs about what the contract does with a submission: how it and the   *)
(* SDK parse the public signals, for every width of integers, number of    *)
(* assets and set of texts, and what its two pairing checks answer, for    *)
(* every prime group order and any number of keys and signals.             *)
(***************************************************************************)
EXTENDS PublicSignals, Verifier, SumTheorems, SequenceTheorems, TLAPS


Kind == {"flag", "field", "amount", "period"}

(* The three layouts are sequences of kinds. *)
LEMMA LayoutKinds ==
    ASSUME NEW v \in Version
    PROVE  Layout[v] \in Seq(Kind)
<1>1. [j \in 1..N_ASSETS_V3 |-> "flag"] \in Seq(Kind)
  BY TextAssumption DEF Kind
<1>2. <<"flag", "field", "field">> \in Seq(Kind) /\ <<"period">> \in Seq(Kind)
  BY DEF Kind
<1>3. <<"flag", "field", "field">> \o [j \in 1..N_ASSETS_V3 |-> "flag"] \in Seq(Kind)
  BY <1>1, <1>2, ConcatProperties
<1>4. Layout[3] \in Seq(Kind)
  BY <1>2, <1>3, ConcatProperties DEF Layout
<1>5. Layout[1] \in Seq(Kind) /\ Layout[2] \in Seq(Kind)
  BY DEF Layout, Kind
<1> QED
  BY <1>4, <1>5 DEF Version

(* A vector of texts as long as its layout has a text for each kind.       *)
LEMMA Matched ==
    ASSUME NEW v \in Version, NEW s \in Seq(Text), Len(s) = Len(Layout[v])
    PROVE  /\ DOMAIN s = DOMAIN Layout[v]
           /\ DOMAIN Values(v, s) = DOMAIN s
           /\ \A j \in DOMAIN s : Layout[v][j] \in Kind /\ s[j] \in Nat \cup {Padded}
           /\ \A j \in DOMAIN s : Values(v, s)[j] = Value(Layout[v][j], s[j])
<1>1. DOMAIN s = 1..Len(s) /\ \A j \in DOMAIN s : s[j] \in Text
  BY LenProperties, ElementOfSeq
<1>2. DOMAIN Layout[v] = 1..Len(Layout[v]) /\ \A j \in DOMAIN Layout[v] : Layout[v][j] \in Kind
  BY LayoutKinds, LenProperties, ElementOfSeq
<1> QED
  BY <1>1, <1>2, TextAssumption DEF Values

(* Among the texts that can be encoded, the SDK's tests are the contract's *)
(* for each kind of signal.                                                *)
LEMMA SameTests ==
    ASSUME NEW kind \in Kind, NEW n \in Nat
    PROVE  FitsRust(kind, n)
              <=> CASE kind = "flag" -> n \in {0, 1}
                    [] kind = "amount" -> n <= U128Max
                    [] kind = "period" -> n <= U128Max /\ n <= U64Max
                    [] kind = "field" -> TRUE
BY TextAssumption DEF FitsRust, Kind

(* On vectors that can be encoded, the two parsers give the same answer.  *)
LEMMA SameVectors ==
    ASSUME NEW v \in Version, NEW s \in Seq(Text), Encodable(s)
    PROVE  ParseRust(v, s) = ParseContract(v, s)
<1>1. CASE Len(s) # Len(Layout[v])
  BY <1>1 DEF ParseRust, ParseContract
<1>2. CASE Len(s) = Len(Layout[v])
  <2>1. \A j \in DOMAIN s : s[j] \in Nat /\ IsDecimal(s[j]) /\ Layout[v][j] \in Kind
    BY <1>2, Matched DEF Encodable, IsDecimal
  <2>2. \A j \in DOMAIN s :
           IsDecimal(s[j]) /\ FitsRust(Layout[v][j], s[j])
              <=> CASE Layout[v][j] = "flag" -> s[j] \in {0, 1}
                    [] Layout[v][j] = "amount" -> s[j] <= U128Max
                    [] Layout[v][j] = "period" -> s[j] <= U128Max /\ s[j] <= U64Max
                    [] Layout[v][j] = "field" -> TRUE
    BY <2>1, SameTests
  <2> QED
    BY <1>2, <2>2 DEF ParseRust, ParseContract
<1> QED
  BY <1>1, <1>2

(* Writing the values read from a vector of decimals, with flags 0 or 1,   *)
(* gives back the vector.                                                  *)
LEMMA TextsOfValues ==
    ASSUME NEW v \in Version, NEW s \in Seq(Text), Len(s) = Len(Layout[v]),
           \A j \in DOMAIN s : /\ IsDecimal(s[j])
                               /\ Layout[v][j] = "flag" => s[j] \in {0, 1}
    PROVE  /\ Texts(v, Values(v, s)) = s
           /\ FieldsDecimal(v, Values(v, s))
           /\ DOMAIN Values(v, s) = 1..Len(s) /\ Len(Values(v, s)) = Len(s)
           /\ \A j \in DOMAIN s :
                 Layout[v][j] \in {"amount", "period"} => Values(v, s)[j] >= 0
<1>1. /\ DOMAIN Values(v, s) = DOMAIN s
      /\ DOMAIN s = 1..Len(s) /\ Len(s) \in Nat
      /\ s = [j \in DOMAIN s |-> s[j]]
  BY Matched, LenProperties
<1>2. ASSUME NEW j \in DOMAIN s
      PROVE  /\ (IF Layout[v][j] = "flag" THEN EncodeFlag(Values(v, s)[j])
                 ELSE Values(v, s)[j]) = s[j]
             /\ Layout[v][j] = "field" => IsDecimal(Values(v, s)[j])
             /\ Layout[v][j] \in {"amount", "period"} => Values(v, s)[j] >= 0
  <2>1. /\ Layout[v][j] \in Kind /\ s[j] \in Nat
        /\ Values(v, s)[j] = Value(Layout[v][j], s[j])
    BY Matched DEF IsDecimal
  <2>2. CASE Layout[v][j] = "flag"
    <3>1. Values(v, s)[j] = (s[j] = 1)
      BY <2>1, <2>2 DEF Value
    <3> QED
      BY <2>2, <3>1 DEF EncodeFlag
  <2>3. CASE Layout[v][j] = "field"
    <3>1. Values(v, s)[j] = s[j]
      BY <2>1, <2>3 DEF Value
    <3> QED
      BY <2>3, <3>1
  <2>4. CASE Layout[v][j] \in {"amount", "period"}
    <3>1. Values(v, s)[j] = s[j]
      BY <2>1, <2>4 DEF Value, Number, IsDecimal
    <3> QED
      BY <2>1, <2>4, <3>1
  <2> QED
    BY <2>1, <2>2, <2>3, <2>4 DEF Kind
<1>3. Texts(v, Values(v, s)) = [j \in DOMAIN s |-> s[j]]
  BY <1>1, <1>2 DEF Texts
<1>4. Len(Values(v, s)) = Len(s)
  BY <1>1
<1> QED
  BY <1>1, <1>2, <1>3, <1>4 DEF FieldsDecimal

(* What a caller offers is a vector of texts, and what is recorded is what *)
(* the contract parsed of a bundle that passed the checks.                 *)
WireInv ==
    /\ bundle # Nothing => bundle.version \in Version /\ bundle.publicSignals \in Seq(Text)
    /\ recorded # Nothing =>
          /\ bundle # Nothing /\ Consistent(bundle)
          /\ recorded = ParseContract(bundle.version, bundle.publicSignals)

(* Every step keeps what was recorded and what was parsed together.       *)
LEMMA WireStep == WireInv /\ [WireNext]_signalVars => WireInv'
<1> SUFFICES ASSUME WireInv, [WireNext]_signalVars PROVE WireInv'
  OBVIOUS
<1>1. ASSUME NEW v \in Version, NEW s \in Vectors(v), NEW j, NEW n, Offer(v, s, j, n)
      PROVE  WireInv'
  <2>1. bundle'.version = v /\ bundle'.publicSignals = s
    BY <1>1 DEF Offer
  <2>2. s \in Seq(Text)
    <3>1. Len(Layout[v]) \in Nat
      BY LayoutKinds, LenProperties
    <3>2. PICK n0 \in {Len(Layout[v]) - 1, Len(Layout[v])} : s \in TupleOf(Text, n0)
      BY DEF Vectors
    <3>3. n0 \in Int /\ s \in [1..n0 -> Text]
      BY <3>1, <3>2 DEF TupleOf
    <3> QED
      BY <3>3
  <2>3. recorded = Nothing
    BY <1>1 DEF Offer, WireInv
  <2> QED
    BY <1>1, <2>1, <2>2, <2>3 DEF Offer, WireInv
<1>2. CASE Submit
  BY <1>2 DEF Submit, WireInv, Consistent
<1>3. CASE UNCHANGED signalVars
  BY <1>3 DEF signalVars, WireInv
<1> QED
  BY <1>1, <1>2, <1>3 DEF WireNext

(* The invariant of the signals holds always.                             *)
LEMMA WireInvariant == WireSpec => []WireInv
<1>1. WireInit => WireInv
  BY DEF WireInit, WireInv
<1> QED
  BY <1>1, WireStep, PTL DEF WireSpec

(* The Rust SDK reads exactly what the contract reads, and writes what it  *)
(* has read.                                                               *)
THEOREM RustAgrees == WireSpec => []RustAgreesWithContract
<1>1. WireInv => RustAgreesWithContract
  <2> SUFFICES ASSUME bundle # Nothing, NEW v, v = bundle.version,
                      NEW s, s = bundle.publicSignals,
                      v \in Version, s \in Seq(Text), ParseRust(v, s) # Nothing
               PROVE  EncodeRust(v, ParseRust(v, s)) = s
    BY SameVectors DEF RustAgreesWithContract, WireInv
  <2>1. /\ Len(s) = Len(Layout[v]) /\ ParseRust(v, s) = Values(v, s)
        /\ \A j \in DOMAIN s : IsDecimal(s[j]) /\ FitsRust(Layout[v][j], s[j])
    BY DEF ParseRust
  <2>2. \A j \in DOMAIN s : Layout[v][j] = "flag" => s[j] \in {0, 1}
    BY <2>1 DEF FitsRust
  <2> QED
    BY <2>1, <2>2, TextsOfValues DEF EncodeRust
<1> QED
  BY <1>1, WireInvariant, PTL

(* What the contract records of a v2 or v3 bundle is what the bundle says  *)
(* in `parsed`, in every field, and of a v1 bundle the commitment is; that *)
(* is all that codec.ts compares of v1 (bundleToContractBytes).            *)
THEOREM RecordsWhatIsSaid == WireSpec => []RecordedAsParsed
<1>1. WireInv => RecordedAsParsed
  <2> SUFFICES ASSUME NEW v \in Version, NEW s \in Seq(Text), NEW parsed,
                      v = bundle.version, s = bundle.publicSignals, parsed = bundle.parsed,
                      Consistent(bundle), recorded # Nothing,
                      recorded = ParseContract(v, s)
               PROVE  IF v = 1 THEN recorded[2] = parsed[2]
                      ELSE recorded = parsed /\ EncodeTypeScript(v, parsed) = s
    BY DEF RecordedAsParsed, WireInv
  <2>1. recorded = Values(v, s)
    BY DEF ParseContract
  <2>2. /\ Len(s) = Len(Layout[v]) /\ ParseTypeScript(v, s) = Values(v, s)
        /\ \A j \in DOMAIN s : /\ IsDecimal(s[j])
                               /\ Layout[v][j] = "flag" => s[j] \in {0, 1}
    BY DEF Consistent, ParseTypeScript
  <2>3. CASE v = 1
    BY <2>1, <2>2, <2>3 DEF Consistent
  <2>4. CASE v # 1
    <3>1. parsed = Values(v, s)
      BY <2>2, <2>4 DEF Consistent
    <3>2. EncodeTypeScript(v, Values(v, s)) = s
      <4>1. \A j \in DOMAIN Values(v, s) :
               Layout[v][j] \in {"amount", "period"} => Values(v, s)[j] >= 0
        BY <2>2, TextsOfValues, LenProperties
      <4> QED
        BY <2>2, <4>1, TextsOfValues DEF EncodeTypeScript
    <3> QED
      BY <2>1, <2>4, <3>1, <3>2
  <2> QED
    BY <2>3, <2>4
<1> QED
  BY <1>1, WireInvariant, PTL

-----------------------------------------------------------------------------
(* Congruence modulo the group order. *)
Cong(x, y) == \E d \in Int : x = y + Q * d

(* What is used of the group order: it is prime, so that nonzero residues have inverses. *)
LEMMA GroupOrder ==
    /\ Q \in Nat /\ Q > 1
    /\ \A x \in 1..(Q - 1) : \E y \in 1..(Q - 1) : (x * y) % Q = 1
BY SetupAssumption

(* Congruence modulo the group order is reflexive.                        *)
LEMMA CongSame == \A x \in Int : Cong(x, x)
<1> SUFFICES ASSUME NEW x \in Int PROVE Cong(x, x)
  OBVIOUS
<1>1. 0 \in Int /\ x = x + Q * 0
  BY GroupOrder
<1> QED
  BY <1>1 DEF Cong

(* It is symmetric.                                                       *)
LEMMA CongSwap == \A x \in Int, y \in Int : Cong(x, y) => Cong(y, x)
<1> SUFFICES ASSUME NEW x \in Int, NEW y \in Int, Cong(x, y) PROVE Cong(y, x)
  OBVIOUS
<1>1. PICK d \in Int : x = y + Q * d
  BY DEF Cong
<1>2. -d \in Int /\ y = x + Q * (-d)
  BY <1>1, GroupOrder
<1> QED
  BY <1>2 DEF Cong

(* Congruent terms have congruent sums.                                   *)
LEMMA CongAdd ==
    ASSUME NEW x \in Int, NEW y \in Int, NEW u \in Int, NEW v \in Int,
           Cong(x, y), Cong(u, v)
    PROVE  Cong(x + u, y + v)
<1>1. PICK d \in Int : x = y + Q * d
  BY DEF Cong
<1>2. PICK e \in Int : u = v + Q * e
  BY DEF Cong
<1>3. d + e \in Int /\ x + u = (y + v) + Q * (d + e)
  BY <1>1, <1>2, GroupOrder
<1> QED
  BY <1>3 DEF Cong

(* It is transitive.                                                      *)
LEMMA CongChain ==
    ASSUME NEW x \in Int, NEW y \in Int, NEW z \in Int, Cong(x, y), Cong(y, z)
    PROVE  Cong(x, z)
<1>1. PICK d \in Int : x = y + Q * d
  BY DEF Cong
<1>2. PICK e \in Int : y = z + Q * e
  BY DEF Cong
<1>3. d + e \in Int /\ x = z + Q * (d + e)
  BY <1>1, <1>2, GroupOrder
<1> QED
  BY <1>3 DEF Cong

(* Congruent numbers have congruent multiples.                            *)
LEMMA CongTimes ==
    ASSUME NEW x \in Int, NEW y \in Int, NEW z \in Int, Cong(x, y),
           NEW u, u = x * z, NEW v, v = y * z
    PROVE  Cong(u, v)
<1>1. PICK d \in Int : x = y + Q * d
  BY DEF Cong
<1>2. d * z \in Int /\ u = v + Q * (d * z)
  BY <1>1, GroupOrder
<1> QED
  BY <1>2 DEF Cong

(* A number is congruent to its residue.                                  *)
LEMMA CongMod == \A x \in Int : x % Q \in 0..(Q - 1) /\ Cong(x % Q, x)
<1> SUFFICES ASSUME NEW x \in Int PROVE x % Q \in 0..(Q - 1) /\ Cong(x % Q, x)
  OBVIOUS
<1>1. x % Q \in 0..(Q - 1) /\ x \div Q \in Int /\ x = Q * (x \div Q) + (x % Q)
  BY GroupOrder
<1>2. -(x \div Q) \in Int /\ x % Q = x + Q * (-(x \div Q))
  BY <1>1, GroupOrder
<1> QED
  BY <1>1, <1>2 DEF Cong

(* Congruent residues are equal.                                          *)
LEMMA CongEqual == \A x \in 0..(Q - 1), y \in 0..(Q - 1) : Cong(x, y) => x = y
<1> SUFFICES ASSUME NEW x \in 0..(Q - 1), NEW y \in 0..(Q - 1), Cong(x, y) PROVE x = y
  OBVIOUS
<1>1. PICK d \in Int : x = y + Q * d
  BY DEF Cong
<1>2. d >= 1 => Q * d >= Q
  BY GroupOrder
<1>3. d <= -1 => Q * d <= -Q
  BY GroupOrder
<1>4. d = 0
  BY <1>1, <1>2, <1>3, GroupOrder
<1> QED
  BY <1>1, <1>4, GroupOrder

(* Having residue zero is being congruent to zero.                        *)
LEMMA CongZero == \A x \in Int : x % Q = 0 <=> Cong(x, 0)
<1> SUFFICES ASSUME NEW x \in Int PROVE x % Q = 0 <=> Cong(x, 0)
  OBVIOUS
<1>1. x % Q \in 0..(Q - 1) /\ x % Q \in Int /\ Cong(x % Q, x) /\ Cong(x, x % Q)
  BY CongMod, CongSwap, GroupOrder
<1>2. ASSUME Cong(x, 0) PROVE x % Q = 0
  <2>1. Cong(x % Q, 0)
    BY <1>1, <1>2, CongChain
  <2>2. 0 \in 0..(Q - 1)
    BY GroupOrder
  <2> QED
    BY <1>1, <2>1, <2>2, CongEqual
<1> QED
  BY <1>1, <1>2

(* A factor that is not zero modulo Q cancels: Q is prime. *)
LEMMA CongCancel ==
    ASSUME NEW g \in 1..(Q - 1), NEW x \in 0..(Q - 1), NEW y \in 0..(Q - 1),
           Cong(x * g, y * g)
    PROVE  x = y
<1>1. PICK h \in 1..(Q - 1) : (g * h) % Q = 1
  BY GroupOrder
<1>2. g \in Int /\ h \in Int /\ x \in Int /\ y \in Int
  OBVIOUS
<1> DEFINE u == g * h
<1>3. u \in Int /\ Cong(u, 1)
  <2>1. u \in Int /\ u % Q = 1
    BY <1>1, <1>2
  <2> HIDE DEF u
  <2> QED
    BY <2>1, CongMod, CongSwap
<1>4. ASSUME NEW z \in 0..(Q - 1) PROVE (z * g) * h \in Int /\ Cong((z * g) * h, z)
  <2>1. z \in Int /\ u * z = (z * g) * h /\ 1 * z = z
    BY <1>2
  <2> HIDE DEF u
  <2>2. z = 1 * z /\ 1 \in Int
    BY <2>1
  <2>4. Cong(u * z, z)
    BY <1>3, <2>1, <2>2, CongTimes
  <2>3. u * z \in Int
    BY <1>3, <2>1
  <2> QED
    BY <2>1, <2>3, <2>4
<1> DEFINE xg == x * g
           yg == y * g
<1>5. xg \in Int /\ yg \in Int /\ Cong(xg, yg)
  BY <1>2
<1>6. /\ xg * h \in Int /\ Cong(xg * h, x)
      /\ yg * h \in Int /\ Cong(yg * h, y)
  BY <1>4
<1> HIDE DEF xg, yg
<1>7. Cong(xg * h, yg * h)
  BY <1>2, <1>5, CongTimes
<1>8. Cong(x, yg * h)
  BY <1>2, <1>6, <1>7, CongSwap, CongChain
<1>9. Cong(x, y)
  BY <1>2, <1>6, <1>8, CongChain
<1> QED
  BY <1>9, CongEqual

-----------------------------------------------------------------------------
(* A key's secrets are nonzero, and its inputs within the bound.          *)
LEMMA SetupFields ==
    ASSUME NEW k \in VerificationKey
    PROVE  /\ Setup[k].beta \in 1..(Q - 1) /\ Setup[k].gamma \in 1..(Q - 1)
           /\ Setup[k].delta \in 1..(Q - 1) /\ Setup[k].n \in Nat
           /\ k # "hash" /\ Setup[k].n <= MaxSignals /\ MaxSignals \in Nat
<1> DEFINE ns == {Setup[j].n : j \in VerificationKey}
           count == [j \in VerificationKey |-> Setup[j].n]
<1>1. IsFiniteSet(ns)
  <2>1. IsFiniteSet(VerificationKey)
    BY SetupAssumption
  <2>2. count \in Surjection(VerificationKey, ns)
    BY DEF Surjection
  <2> HIDE DEF ns, count
  <2> QED
    BY <2>1, <2>2, FS_Surjection
<1>2. ns # {} /\ \A x \in ns : x \in Nat
  BY SetupAssumption
<1>3. Max(ns) \in ns /\ \A x \in ns : x <= Max(ns)
  <2> HIDE DEF ns
  <2> QED
    BY <1>1, <1>2, MaxIsGreatest
<1>4. MaxSignals \in ns /\ \A x \in ns : x <= MaxSignals
  BY <1>3 DEF MaxSignals
<1> QED
  BY <1>2, <1>4, SetupAssumption

(* The elements of the basis are told apart. *)
LEMMA BasisElements ==
    /\ \A f \in Basis : \/ f[1] \in VerificationKey /\ f[2] \in -1..MaxSignals /\ f = <<f[1], f[2]>>
                        \/ \E w \in Word : f = <<"hash", w>>
    /\ \A k \in VerificationKey : \A j \in -1..MaxSignals : <<k, j>> \in Basis
    /\ \A w \in Word : <<"hash", w>> \in Basis
    /\ \A f \in Basis : f = <<f[1], f[2]>>
BY DEF Basis

Coordinates == [Basis -> 0..(Q - 1)]

(* A generator has coordinate one at itself and zero elsewhere.           *)
LEMMA PointCoordinates ==
    ASSUME NEW e
    PROVE  /\ Point(e) \in Coordinates
           /\ \A f \in Basis : Point(e)[f] = IF f = e THEN 1 ELSE 0
BY GroupOrder DEF Point, Coordinates

(* Points are added coordinate by coordinate.                             *)
LEMMA SumCoordinates ==
    ASSUME NEW x \in Coordinates, NEW y \in Coordinates
    PROVE  /\ G1Add(x, y) \in Coordinates
           /\ \A f \in Basis : Cong(G1Add(x, y)[f], x[f] + y[f])
<1>1. ASSUME NEW f \in Basis
      PROVE  (x[f] + y[f]) % Q \in 0..(Q - 1) /\ Cong((x[f] + y[f]) % Q, x[f] + y[f])
  <2>1. x[f] + y[f] \in Int
    BY DEF Coordinates
  <2> QED
    BY <2>1, CongMod
<1> QED
  BY <1>1 DEF G1Add, Coordinates

(* A point is multiplied coordinate by coordinate.                        *)
LEMMA ScaledCoordinates ==
    ASSUME NEW x \in Coordinates, NEW n \in Int
    PROVE  /\ G1Mul(x, n) \in Coordinates
           /\ \A f \in Basis : Cong(G1Mul(x, n)[f], x[f] * n)
<1>1. ASSUME NEW f \in Basis
      PROVE  (x[f] * n) % Q \in 0..(Q - 1) /\ Cong((x[f] * n) % Q, x[f] * n)
  <2>1. x[f] * n \in Int
    BY DEF Coordinates
  <2> QED
    BY <2>1, CongMod
<1> QED
  BY <1>1 DEF G1Mul, Coordinates

(* A point is negated coordinate by coordinate.                           *)
LEMMA NegatedCoordinates ==
    ASSUME NEW x \in Coordinates
    PROVE  /\ G1Neg(x) \in Coordinates
           /\ \A f \in Basis : Cong(G1Neg(x)[f], -x[f])
<1>1. Q - 1 \in Int
  BY GroupOrder
<1>2. G1Neg(x) \in Coordinates /\ \A f \in Basis : Cong(G1Neg(x)[f], x[f] * (Q - 1))
  BY <1>1, ScaledCoordinates DEF G1Neg
<1>3. ASSUME NEW f \in Basis PROVE Cong(G1Neg(x)[f], -x[f])
  <2>1. x[f] \in Int /\ G1Neg(x)[f] \in Int
    BY <1>2 DEF Coordinates
  <2>2. x[f] * (Q - 1) = -x[f] + Q * x[f]
    BY <2>1, GroupOrder
  <2>3. x[f] * (Q - 1) \in Int /\ -x[f] \in Int
    BY <2>1, GroupOrder
  <2>4. Cong(x[f] * (Q - 1), -x[f])
    BY <2>1, <2>2 DEF Cong
  <2> QED
    BY <1>2, <2>1, <2>3, <2>4, CongChain
<1> QED
  BY <1>2, <1>3

-----------------------------------------------------------------------------
(* The loop of verifier.rs computes the combination that a prover claims.  *)
Counted(k) == [j \in 1..Setup[k].n |-> j]

VkXStep(k, s, g) ==
    g = [T \in SUBSET (1..Setup[k].n) |->
           IF T = {} THEN Ic(k)[1]
           ELSE G1Add(g[T \ {Max(T)}],
                      G1Mul(Ic(k)[Counted(k)[Max(T)] + 1], s[Counted(k)[Max(T)]]))]

(* The loop over the signals is the recursive function it steps by.       *)
LEMMA VkXUnfolds ==
    ASSUME NEW k \in VerificationKey, NEW s, Len(s) = Setup[k].n
    PROVE  VkX(k, s) = (CHOOSE g : VkXStep(k, s, g))[1..Setup[k].n]
<1>1. DOMAIN Counted(k) = 1..Setup[k].n
  BY DEF Counted
<1> QED
  BY <1>1 DEF VkX, Counted, VkXStep, FoldLeft, MapThenFoldSet

(* What one round of the loop adds. *)
LEMMA IcCoordinates ==
    ASSUME NEW k \in VerificationKey, NEW j \in 0..Setup[k].n
    PROVE  Ic(k)[j + 1] = Point(<<k, j>>) /\ Ic(k)[j + 1] \in Coordinates
<1>1. Setup[k].n \in Nat
  BY SetupFields
<1>2. j + 1 \in 1..(Setup[k].n + 1) /\ (j + 1) - 1 = j
  BY <1>1
<1>3. Ic(k)[j + 1] = Point(<<k, j>>)
  BY <1>2 DEF Ic
<1> QED
  BY <1>3, PointCoordinates

Prefix(s, m) == [j \in 1..m |-> s[j]]

(* The coordinates of the point that a statement stands for.              *)
LEMMA ClaimCoordinates ==
    ASSUME NEW k \in VerificationKey, NEW m \in Nat, NEW s \in [1..m -> 0..(Q - 1)]
    PROVE  /\ Claim(k, s) \in Coordinates
           /\ \A f \in Basis : f[1] # k => Claim(k, s)[f] = 0
           /\ \A j \in -1..MaxSignals :
                 Claim(k, s)[<<k, j>>] = IF j = -1 THEN 0 ELSE IF j = 0 THEN 1
                                         ELSE IF j \in 1..m THEN s[j] ELSE 0
<1>1. DOMAIN s = 1..m /\ 0 \in 0..(Q - 1) /\ 1 \in 0..(Q - 1)
  BY GroupOrder
<1>2. Claim(k, s) \in Coordinates
  BY <1>1 DEF Claim, Coordinates
<1>3. \A j \in -1..MaxSignals : <<k, j>> \in Basis
  BY BasisElements
<1>4. \A f \in Basis : Claim(k, s)[f] =
            IF f[1] # k THEN 0 ELSE IF f[2] = -1 THEN 0
            ELSE IF f[2] = 0 THEN 1 ELSE IF f[2] \in 1..m THEN s[f[2]] ELSE 0
  BY <1>1 DEF Claim
<1> QED
  BY <1>2, <1>3, <1>4

(* Two coordinates of it that tell proofs apart. *)
LEMMA ClaimOfSignal ==
    ASSUME NEW k, NEW m, NEW s, DOMAIN s = 1..m, NEW j \in 1..m, j # 0, j # -1, <<k, j>> \in Basis
    PROVE  Claim(k, s)[<<k, j>>] = s[j]
BY DEF Claim

(* A statement for one key says nothing of the points of another.         *)
LEMMA ClaimOfOther ==
    ASSUME NEW k, NEW s, NEW f \in Basis, f[1] # k
    PROVE  Claim(k, s)[f] = 0
BY DEF Claim

(* One turn of the loop adds one signal to the statement.                 *)
LEMMA OneMoreSignal ==
    ASSUME NEW k \in VerificationKey, NEW s \in [1..Setup[k].n -> 0..(Q - 1)],
           NEW m \in Nat, m + 1 <= Setup[k].n
    PROVE  G1Add(Claim(k, Prefix(s, m)), G1Mul(Ic(k)[(m + 1) + 1], s[m + 1]))
           = Claim(k, Prefix(s, m + 1))
<1> DEFINE x == Claim(k, Prefix(s, m))
           e == <<k, m + 1>>
           y == G1Mul(Ic(k)[(m + 1) + 1], s[m + 1])
           z == Claim(k, Prefix(s, m + 1))
<1>0. Setup[k].n \in Nat /\ Setup[k].n <= MaxSignals /\ MaxSignals \in Nat /\ k # "hash"
  BY SetupFields
<1>1. s[m + 1] \in 0..(Q - 1) /\ s[m + 1] \in Int
  BY <1>0
<1>2. Prefix(s, m) \in [1..m -> 0..(Q - 1)] /\ Prefix(s, m + 1) \in [1..(m + 1) -> 0..(Q - 1)]
  BY <1>0 DEF Prefix
<1>3. /\ x \in Coordinates /\ z \in Coordinates
      /\ \A f \in Basis : f[1] # k => x[f] = 0 /\ z[f] = 0
      /\ \A j \in -1..MaxSignals :
            /\ x[<<k, j>>] = IF j = -1 THEN 0 ELSE IF j = 0 THEN 1
                             ELSE IF j \in 1..m THEN s[j] ELSE 0
            /\ z[<<k, j>>] = IF j = -1 THEN 0 ELSE IF j = 0 THEN 1
                             ELSE IF j \in 1..(m + 1) THEN s[j] ELSE 0
  <2> DEFINE v == Prefix(s, m)
             w == Prefix(s, m + 1)
             l == m + 1
  <2>1. /\ v \in [1..m -> 0..(Q - 1)] /\ \A j \in 1..m : v[j] = s[j]
        /\ w \in [1..l -> 0..(Q - 1)] /\ \A j \in 1..l : w[j] = s[j]
        /\ l \in Nat
    BY <1>2 DEF Prefix
  <2>0. m \in Nat /\ k \in VerificationKey
    OBVIOUS
  <2> HIDE DEF v, w, l, x, y, z, e
  <2>2. /\ Claim(k, v) \in Coordinates
        /\ \A f \in Basis : f[1] # k => Claim(k, v)[f] = 0
        /\ \A j \in -1..MaxSignals :
              Claim(k, v)[<<k, j>>] = IF j = -1 THEN 0 ELSE IF j = 0 THEN 1
                                      ELSE IF j \in 1..m THEN v[j] ELSE 0
    BY <2>0, <2>1, ClaimCoordinates, SMTT(60)
  <2>3. /\ Claim(k, w) \in Coordinates
        /\ \A f \in Basis : f[1] # k => Claim(k, w)[f] = 0
        /\ \A j \in -1..MaxSignals :
              Claim(k, w)[<<k, j>>] = IF j = -1 THEN 0 ELSE IF j = 0 THEN 1
                                      ELSE IF j \in 1..l THEN w[j] ELSE 0
    BY <2>1, ClaimCoordinates, SMTT(60)
  <2> QED
    BY <2>1, <2>2, <2>3 DEF v, w, l, x, z
<1>4. m + 1 \in 0..Setup[k].n
  BY <1>0
<1>5. Ic(k)[(m + 1) + 1] = Point(e) /\ Ic(k)[(m + 1) + 1] \in Coordinates
  BY <1>4, IcCoordinates
<1>6. y \in Coordinates /\ \A f \in Basis : Cong(y[f], Point(e)[f] * s[m + 1])
  BY <1>1, <1>5, ScaledCoordinates
<1>7. G1Add(x, y) \in Coordinates /\ \A f \in Basis : Cong(G1Add(x, y)[f], x[f] + y[f])
  <2> HIDE DEF x, y
  <2> QED
    BY <1>3, <1>6, SumCoordinates
<1>8. \A f \in Basis : y[f] = IF f = e THEN s[m + 1] ELSE 0
  <2> TAKE f \in Basis
  <2>1. y[f] \in 0..(Q - 1) /\ 0 \in 0..(Q - 1)
    BY <1>6, GroupOrder DEF Coordinates
  <2>2. Cong(y[f], Point(e)[f] * s[m + 1]) /\ Point(e)[f] = IF f = e THEN 1 ELSE 0
    BY <1>6, PointCoordinates
  <2>3. Point(e)[f] * s[m + 1] = IF f = e THEN s[m + 1] ELSE 0
    BY <1>1, <2>2
  <2> HIDE DEF y, e
  <2> QED
    BY <1>1, <2>1, <2>2, <2>3, CongEqual
<1>9. ASSUME NEW f \in Basis PROVE x[f] + y[f] = z[f]
  <2>1. CASE f[1] # k
    <3>1. f # e
      BY <2>1
    <3>2. x[f] = 0 /\ z[f] = 0
      BY <1>3, <2>1
    <3> HIDE DEF x, y, z, e
    <3> QED
      BY <1>8, <3>1, <3>2
  <2>2. CASE f[1] = k
    <3>1. PICK j \in -1..MaxSignals : f = <<k, j>>
      BY <1>0, <2>2, BasisElements
    <3>2. f = e <=> j = m + 1
      BY <3>1
    <3>3. /\ x[f] = IF j = -1 THEN 0 ELSE IF j = 0 THEN 1 ELSE IF j \in 1..m THEN s[j] ELSE 0
          /\ z[f] = IF j = -1 THEN 0 ELSE IF j = 0 THEN 1
                    ELSE IF j \in 1..(m + 1) THEN s[j] ELSE 0
      BY <1>3, <3>1
    <3>4. j \in 1..(m + 1) => s[j] \in Int
      BY <1>0
    <3>5. y[f] = IF j = m + 1 THEN s[m + 1] ELSE 0
      BY <1>8, <3>2
    <3> HIDE DEF x, y, z, e
    <3> QED
      BY <3>3, <3>4, <3>5
  <2> QED
    BY <2>1, <2>2
<1> HIDE DEF x, y, z
<1>10. \A f \in Basis : G1Add(x, y)[f] = z[f]
  <2> TAKE f \in Basis
  <2>1. G1Add(x, y)[f] \in 0..(Q - 1) /\ z[f] \in 0..(Q - 1)
    BY <1>3, <1>7 DEF Coordinates
  <2> QED
    BY <1>7, <1>9, <2>1, CongEqual
<1>11. G1Add(x, y) = z
  BY <1>3, <1>7, <1>10 DEF Coordinates
<1> QED
  BY <1>11 DEF x, y, z

(* Before the first turn, the point stands for the empty statement.       *)
LEMMA NoSignal ==
    ASSUME NEW k \in VerificationKey, NEW s
    PROVE  Ic(k)[1] = Claim(k, Prefix(s, 0))
<1> DEFINE w == Prefix(s, 0)
           e == <<k, 0>>
<1>0. Setup[k].n \in Nat /\ MaxSignals \in Nat /\ k # "hash"
  BY SetupFields
<1>1. Ic(k)[1] = Point(e) /\ Point(e) \in Coordinates
  <2>1. 0 \in 0..Setup[k].n /\ 0 + 1 = 1
    BY <1>0
  <2> QED
    BY <2>1, IcCoordinates
<1>2. w \in [1..0 -> 0..(Q - 1)] /\ 0 \in Nat /\ 1..0 = {}
  BY DEF Prefix
<1> HIDE DEF w
<1>3. /\ Claim(k, w) \in Coordinates
      /\ \A f \in Basis : f[1] # k => Claim(k, w)[f] = 0
      /\ \A j \in -1..MaxSignals :
            Claim(k, w)[<<k, j>>] = IF j = -1 THEN 0 ELSE IF j = 0 THEN 1
                                    ELSE IF j \in 1..0 THEN w[j] ELSE 0
  <2> DEFINE zero == 0
             W == 0..(Q - 1)
  <2>1. zero \in Nat /\ w \in [1..zero -> W]
    BY <1>2
  <2> HIDE DEF zero
  <2>2. /\ Claim(k, w) \in Coordinates
        /\ \A f \in Basis : f[1] # k => Claim(k, w)[f] = 0
        /\ \A j \in -1..MaxSignals :
              Claim(k, w)[<<k, j>>] = IF j = -1 THEN 0 ELSE IF j = 0 THEN 1
                                      ELSE IF j \in 1..zero THEN w[j] ELSE 0
    BY <2>1, ClaimCoordinates
  <2> QED
    BY <2>2 DEF zero
<1>4. ASSUME NEW f \in Basis PROVE Point(e)[f] = Claim(k, w)[f]
  <2>1. Point(e)[f] = IF f = e THEN 1 ELSE 0
    BY PointCoordinates
  <2>2. CASE f[1] # k
    BY <1>3, <2>1, <2>2
  <2>3. CASE f[1] = k
    <3>1. PICK j \in -1..MaxSignals : f = <<k, j>>
      BY <1>0, <2>3, BasisElements
    <3>2. f = e <=> j = 0
      BY <3>1
    <3> HIDE DEF e
    <3> QED
      BY <1>2, <1>3, <2>1, <3>1, <3>2
  <2> QED
    BY <2>2, <2>3
<1> HIDE DEF e
<1>5. Point(e) = Claim(k, w)
  BY <1>1, <1>3, <1>4 DEF Coordinates
<1> QED
  BY <1>1, <1>5 DEF w

(* The loop ends with the combination that the signals stand for.          *)
LEMMA VkXIsClaim ==
    ASSUME NEW k \in VerificationKey, NEW s \in [1..Setup[k].n -> 0..(Q - 1)], Len(s) = Setup[k].n
    PROVE  VkX(k, s) = Claim(k, s)
<1> DEFINE n == Setup[k].n
           V == Coordinates
           pick == [T \in SUBSET (1..n) |-> Max(T)]
           step == [p \in (SUBSET (1..n)) \X V |->
                      IF p[1] = {} THEN Ic(k)[1]
                      ELSE G1Add(p[2], G1Mul(Ic(k)[Max(p[1]) + 1], s[Max(p[1])]))]
           H == {m \in Nat : m <= n => \A g : VkXStep(k, s, g) => g[1..m] = Claim(k, Prefix(s, m))}
<1>0. n \in Nat /\ IsFiniteSet(1..n)
  <2>1. n \in Nat
    BY SetupFields
  <2> HIDE DEF n
  <2> QED
    BY <2>1, FS_Interval
<1>1. ASSUME NEW T \in SUBSET (1..n), T # {} PROVE Max(T) \in T /\ Max(T) \in 1..n
  <2>1. IsFiniteSet(T)
    BY <1>0, FS_Subset
  <2>2. \A x \in T : x \in Int
    OBVIOUS
  <2> QED
    BY <1>1, <2>1, <2>2, MaxIsGreatest
<1>2. ASSUME NEW j \in 1..n
      PROVE  Ic(k)[j + 1] \in V /\ s[j] \in Int /\ G1Mul(Ic(k)[j + 1], s[j]) \in V
             /\ Counted(k)[j] = j
  <2>0. j \in 0..n /\ s[j] \in Int
    BY <1>0
  <2>1. Ic(k)[j + 1] \in V /\ s[j] \in Int
    BY <2>0, IcCoordinates
  <2>2. G1Mul(Ic(k)[j + 1], s[j]) \in V
    BY <2>1, ScaledCoordinates
  <2> QED
    BY <2>1, <2>2 DEF Counted
<1>3. Ic(k)[1] \in V
  <2>1. 0 \in 0..n /\ 0 + 1 = 1
    BY <1>0
  <2> QED
    BY <2>1, IcCoordinates
<1>4. \A T \in SUBSET (1..n) : T # {} => pick[T] \in T
  BY <1>1
<1>5. ASSUME NEW T \in SUBSET (1..n), NEW v \in V
      PROVE  /\ step[<<T, v>>] \in V
             /\ T # {} => step[<<T, v>>] = G1Add(v, G1Mul(Ic(k)[Counted(k)[Max(T)] + 1],
                                                          s[Counted(k)[Max(T)]]))
  <2>1. step[<<T, v>>] = IF T = {} THEN Ic(k)[1]
                         ELSE G1Add(v, G1Mul(Ic(k)[Max(T) + 1], s[Max(T)]))
    OBVIOUS
  <2> HIDE DEF step
  <2>2. T # {} => G1Add(v, G1Mul(Ic(k)[Max(T) + 1], s[Max(T)])) \in V
    BY <1>1, <1>2, SumCoordinates
  <2>3. T # {} => Counted(k)[Max(T)] = Max(T)
    BY <1>1, <1>2
  <2> QED
    BY <1>3, <2>1, <2>2, <2>3
<1> HIDE DEF V, pick, step
<1>6. PICK g \in [SUBSET (1..n) -> V] : RecursiveOver(1..n, Ic(k)[1], pick, step, g)
  BY <1>0, <1>3, <1>4, <1>5, SubsetRecursion
<1>7. VkXStep(k, s, g)
  <2>1. ASSUME NEW T \in SUBSET (1..n), T # {}
        PROVE  step[<<T, g[T \ {pick[T]}]>>]
               = G1Add(g[T \ {Max(T)}], G1Mul(Ic(k)[Counted(k)[Max(T)] + 1],
                                              s[Counted(k)[Max(T)]]))
    <3>1. T \ {pick[T]} \in SUBSET (1..n) /\ g[T \ {pick[T]}] \in V /\ pick[T] = Max(T)
      BY DEF pick
    <3> QED
      BY <1>5, <2>1, <3>1
  <2>2. g = [T \in SUBSET (1..n) |->
               IF T = {} THEN Ic(k)[1] ELSE step[<<T, g[T \ {pick[T]}]>>]]
    BY <1>6 DEF RecursiveOver
  <2>3. \A T \in SUBSET (1..n) :
           (IF T = {} THEN Ic(k)[1] ELSE step[<<T, g[T \ {pick[T]}]>>]) =
           (IF T = {} THEN Ic(k)[1]
            ELSE G1Add(g[T \ {Max(T)}], G1Mul(Ic(k)[Counted(k)[Max(T)] + 1],
                                              s[Counted(k)[Max(T)]])))
    BY <2>1
  <2>4. g = [T \in SUBSET (1..n) |->
               IF T = {} THEN Ic(k)[1]
               ELSE G1Add(g[T \ {Max(T)}], G1Mul(Ic(k)[Counted(k)[Max(T)] + 1],
                                                 s[Counted(k)[Max(T)]]))]
    BY <2>2, <2>3
  <2> QED
    BY <2>4 DEF VkXStep
<1>8. 0 \in H
  <2>1. ASSUME NEW h, VkXStep(k, s, h) PROVE h[1..0] = Claim(k, Prefix(s, 0))
    <3>1. 1..0 = {} /\ {} \in SUBSET (1..n)
      OBVIOUS
    <3>2. h[{}] = Ic(k)[1]
      BY <2>1, <3>1 DEF VkXStep
    <3> QED
      BY <3>1, <3>2, NoSignal
  <2> QED
    BY <2>1
<1>9. ASSUME NEW m \in Nat, m \in H PROVE m + 1 \in H
  <2> SUFFICES ASSUME m + 1 <= n, NEW h, VkXStep(k, s, h)
               PROVE  h[1..(m + 1)] = Claim(k, Prefix(s, m + 1))
    OBVIOUS
  <2> DEFINE T == 1..(m + 1)
  <2>1. h[1..m] = Claim(k, Prefix(s, m))
    BY <1>0, <1>9
  <2>2. T \in SUBSET (1..n) /\ T # {} /\ m + 1 \in T /\ \A x \in T : x <= m + 1
    BY <1>0
  <2>3. Max(T) = m + 1
    <3>1. IsFiniteSet(T) /\ \A x \in T : x \in Int
      BY FS_Interval
    <3> HIDE DEF T
    <3>2. Max(T) \in T /\ \A x \in T : x <= Max(T)
      BY <2>2, <3>1, MaxIsGreatest
    <3>3. Max(T) <= m + 1 /\ m + 1 <= Max(T) /\ Max(T) \in Int
      BY <2>2, <3>1, <3>2
    <3> QED
      BY <3>3
  <2>4. T \ {m + 1} = 1..m
    OBVIOUS
  <2>5. Counted(k)[m + 1] = m + 1
    BY <1>2, <2>2
  <2> HIDE DEF T
  <2>6. h[T] = G1Add(h[T \ {Max(T)}], G1Mul(Ic(k)[Counted(k)[Max(T)] + 1],
                                            s[Counted(k)[Max(T)]]))
    BY <2>2 DEF VkXStep
  <2>7. h[T] = G1Add(h[1..m], G1Mul(Ic(k)[(m + 1) + 1], s[m + 1]))
    BY <2>3, <2>4, <2>5, <2>6
  <2>8. h[T] = Claim(k, Prefix(s, m + 1))
    BY <2>1, <2>7, OneMoreSignal
  <2> QED
    BY <2>8 DEF T
<1>10. n \in H
  <2> HIDE DEF H
  <2> QED
    BY <1>0, <1>8, <1>9, InductionOnSet
<1>11. Prefix(s, n) = s
  BY DEF Prefix
<1> DEFINE c == CHOOSE c : VkXStep(k, s, c)
<1>12. VkXStep(k, s, c)
  BY <1>7
<1>13. VkX(k, s) = c[1..n]
  BY VkXUnfolds
<1> HIDE DEF c
<1> QED
  BY <1>0, <1>10, <1>11, <1>12, <1>13

-----------------------------------------------------------------------------
(* The two products of pairings of the contract, coordinate by coordinate. *)
PairingTerm(g1s, g2s, f) == [j \in DOMAIN g1s |-> g1s[j][f] * g2s[j]]

(* The product of pairings is, at each generator, a sum of products.      *)
LEMMA PairingSums ==
    ASSUME NEW g1s, NEW g2s, IsFiniteSet(DOMAIN g1s), NEW f,
           \A j \in DOMAIN g1s : g1s[j][f] * g2s[j] \in Int
    PROVE  MapThenSumSet(LAMBDA j : g1s[j][f] * g2s[j], DOMAIN g1s)
           = SumOver(PairingTerm(g1s, g2s, f), DOMAIN g1s)
<1> DEFINE D == DOMAIN g1s
           t == PairingTerm(g1s, g2s, f)
           Rec(h) == h = [s \in SUBSET D |->
                            IF s = {} THEN 0
                            ELSE g1s[CHOOSE x \in s : TRUE][f] * g2s[CHOOSE x \in s : TRUE]
                                 + h[s \ {CHOOSE x \in s : TRUE}]]
           c == CHOOSE h : Rec(h)
<1>1. MapThenSumSet(LAMBDA j : g1s[j][f] * g2s[j], D) = c[D]
  BY DEF MapThenSumSet, MapThenFoldSet
<1>2. \A j \in D : t[j] = g1s[j][f] * g2s[j] /\ t[j] \in Int
  BY DEF PairingTerm
<1> HIDE DEF t
<1>3. \A h : Rec(h) <=> SumStep(t, D, h)
  <2> TAKE h
  <2>1. ASSUME NEW s \in SUBSET D
        PROVE  (IF s = {} THEN 0
                ELSE g1s[CHOOSE x \in s : TRUE][f] * g2s[CHOOSE x \in s : TRUE]
                     + h[s \ {CHOOSE x \in s : TRUE}])
               = (IF s = {} THEN 0
                  ELSE t[CHOOSE x \in s : TRUE] + h[s \ {CHOOSE x \in s : TRUE}])
    <3>1. s # {} => (CHOOSE x \in s : TRUE) \in D
      OBVIOUS
    <3> QED
      BY <1>2, <3>1
  <2> QED
    BY <2>1 DEF SumStep
<1> HIDE DEF Rec
<1>4. PICK h \in [SUBSET D -> Int] : SumStep(t, D, h)
  <2>1. IsFiniteSet(D)
    OBVIOUS
  <2> HIDE DEF D
  <2> QED
    BY <1>2, <2>1, SumExists
<1>5. SumStep(t, D, c)
  <2>1. Rec(c)
    BY <1>3, <1>4
  <2> HIDE DEF c
  <2> QED
    BY <1>3, <2>1
<1> HIDE DEF c
<1> DEFINE k == CHOOSE k : SumStep(t, D, k)
<1>6. SumStep(t, D, k) /\ SumOver(t, D) = k[D]
  BY <1>4, SumUnfolds
<1> HIDE DEF k
<1>7. c[D] = k[D]
  <2>1. IsFiniteSet(D) /\ D \in SUBSET D
    OBVIOUS
  <2> HIDE DEF D
  <2> QED
    BY <1>5, <1>6, <2>1, SumUnique
<1>8. SumOver(t, D) = c[D]
  BY <1>6, <1>7
<1> QED
  BY <1>1, <1>8 DEF t

(* The product of the four pairings of a proof is one when every coordinate's sum is zero. *)
LEMMA PairingOfFour ==
    ASSUME NEW x1 \in Coordinates, NEW x2 \in Coordinates, NEW x3 \in Coordinates,
           NEW x4 \in Coordinates, NEW y1 \in Int, NEW y2 \in Int, NEW y3 \in Int, NEW y4 \in Int
    PROVE  PairingCheck(<<x1, x2, x3, x4>>, <<y1, y2, y3, y4>>) <=>
           \A f \in Basis : Cong(x1[f] * y1 + x2[f] * y2 + x3[f] * y3 + x4[f] * y4, 0)
<1> DEFINE xs == <<x1, x2, x3, x4>>
           ys == <<y1, y2, y3, y4>>
<1>1. ASSUME NEW f \in Basis
      PROVE  (MapThenSumSet(LAMBDA j : xs[j][f] * ys[j], DOMAIN xs) % Q = 0) <=>
             Cong(x1[f] * y1 + x2[f] * y2 + x3[f] * y3 + x4[f] * y4, 0)
  <2>1. x1[f] \in Int /\ x2[f] \in Int /\ x3[f] \in Int /\ x4[f] \in Int
    BY DEF Coordinates
  <2> DEFINE t == PairingTerm(xs, ys, f)
  <2>2. DOMAIN xs = 1..4 /\ IsFiniteSet(1..4)
    <3>1. PICK n \in Nat : n = 4
      OBVIOUS
    <3>2. IsFiniteSet(1..n)
      BY FS_Interval
    <3>3. DOMAIN xs = 1..4
      OBVIOUS
    <3> HIDE DEF xs
    <3> QED
      BY <3>1, <3>2, <3>3
  <2>3. /\ xs[1][f] * ys[1] = x1[f] * y1 /\ xs[2][f] * ys[2] = x2[f] * y2
        /\ xs[3][f] * ys[3] = x3[f] * y3 /\ xs[4][f] * ys[4] = x4[f] * y4
    OBVIOUS
  <2>4. /\ x1[f] * y1 \in Int /\ x2[f] * y2 \in Int /\ x3[f] * y3 \in Int /\ x4[f] * y4 \in Int
    BY <2>1
  <2>5. \A j \in 1..4 : j = 1 \/ j = 2 \/ j = 3 \/ j = 4
    OBVIOUS
  <2> HIDE DEF xs, ys
  <2>6. \A j \in DOMAIN xs : xs[j][f] * ys[j] \in Int
    BY <2>2, <2>3, <2>4, <2>5
  <2>7. MapThenSumSet(LAMBDA j : xs[j][f] * ys[j], DOMAIN xs) = SumOver(t, DOMAIN xs)
    BY <2>2, <2>6, PairingSums
  <2>8. /\ t[1] = x1[f] * y1 /\ t[2] = x2[f] * y2 /\ t[3] = x3[f] * y3 /\ t[4] = x4[f] * y4
    BY <2>2, <2>3 DEF PairingTerm
  <2> HIDE DEF t
  <2>9. \A j \in 1..4 : t[j] \in Int
    BY <2>4, <2>5, <2>8
  <2>10. SumOver(t, 1..4) = x1[f] * y1 + x2[f] * y2 + x3[f] * y3 + x4[f] * y4
    BY <2>8, <2>9, SumOfFour
  <2> DEFINE total == x1[f] * y1 + x2[f] * y2 + x3[f] * y3 + x4[f] * y4
  <2>11. total \in Int
    BY <2>4
  <2>12. total % Q = 0 <=> Cong(total, 0)
    <3> HIDE DEF total
    <3> QED
      BY <2>11, CongZero
  <2> QED
    BY <2>2, <2>7, <2>10, <2>12
<1> QED
  BY <1>1 DEF PairingCheck

(* The product of the two pairings of a signature, likewise.              *)
LEMMA PairingOfTwo ==
    ASSUME NEW x1 \in Coordinates, NEW x2 \in Coordinates, NEW y1 \in Int, NEW y2 \in Int
    PROVE  PairingCheck(<<x1, x2>>, <<y1, y2>>) <=>
           \A f \in Basis : Cong(x1[f] * y1 + x2[f] * y2, 0)
<1> DEFINE xs == <<x1, x2>>
           ys == <<y1, y2>>
<1>1. ASSUME NEW f \in Basis
      PROVE  (MapThenSumSet(LAMBDA j : xs[j][f] * ys[j], DOMAIN xs) % Q = 0) <=>
             Cong(x1[f] * y1 + x2[f] * y2, 0)
  <2>1. x1[f] \in Int /\ x2[f] \in Int
    BY DEF Coordinates
  <2> DEFINE t == PairingTerm(xs, ys, f)
  <2>2. DOMAIN xs = 1..2 /\ IsFiniteSet(1..2)
    <3>1. PICK n \in Nat : n = 2
      OBVIOUS
    <3>2. IsFiniteSet(1..n)
      BY FS_Interval
    <3>3. DOMAIN xs = 1..2
      OBVIOUS
    <3> HIDE DEF xs
    <3> QED
      BY <3>1, <3>2, <3>3
  <2>3. xs[1][f] * ys[1] = x1[f] * y1 /\ xs[2][f] * ys[2] = x2[f] * y2
    OBVIOUS
  <2>4. x1[f] * y1 \in Int /\ x2[f] * y2 \in Int
    BY <2>1
  <2>5. \A j \in 1..2 : j = 1 \/ j = 2
    OBVIOUS
  <2> HIDE DEF xs, ys
  <2>6. \A j \in DOMAIN xs : xs[j][f] * ys[j] \in Int
    BY <2>2, <2>3, <2>4, <2>5
  <2>7. MapThenSumSet(LAMBDA j : xs[j][f] * ys[j], DOMAIN xs) = SumOver(t, DOMAIN xs)
    BY <2>2, <2>6, PairingSums
  <2>8. t[1] = x1[f] * y1 /\ t[2] = x2[f] * y2
    BY <2>2, <2>3 DEF PairingTerm
  <2> HIDE DEF t
  <2>9. \A j \in 1..2 : t[j] \in Int
    BY <2>4, <2>5, <2>8
  <2>10. SumOver(t, 1..2) = x1[f] * y1 + x2[f] * y2
    BY <2>8, <2>9, SumOfTwo
  <2> DEFINE total == x1[f] * y1 + x2[f] * y2
  <2>11. total \in Int
    BY <2>4
  <2>12. total % Q = 0 <=> Cong(total, 0)
    <3> HIDE DEF total
    <3> QED
      BY <2>11, CongZero
  <2> QED
    BY <2>2, <2>7, <2>10, <2>12
<1> QED
  BY <1>1 DEF PairingCheck

-----------------------------------------------------------------------------
(* What an honest prover hands over: c solves the verification equation    *)
(* for the prover's own statement.                                         *)
LEMMA CongNegate ==
    ASSUME NEW x \in Int, NEW y \in Int, Cong(x, y)
    PROVE  Cong(-x, -y)
<1>1. -1 \in Int /\ -x = x * (-1) /\ -y = y * (-1)
  OBVIOUS
<1> QED
  BY <1>1, CongTimes

(* The inverse that the model chooses is one.                             *)
LEMMA Inverses ==
    ASSUME NEW x \in 1..(Q - 1)
    PROVE  InverseOf(x) \in 1..(Q - 1) /\ (x * InverseOf(x)) % Q = 1
BY GroupOrder DEF InverseOf

(* A proof that somebody made satisfies the equation it was made for.     *)
LEMMA MadeProofEquation ==
    ASSUME NEW k \in VerificationKey, NEW s \in Statement[k], NEW r \in Randomness,
           NEW p, p = MadeProof(k, s, r)
    PROVE  /\ p.key = k /\ p.statement = s /\ s \in [1..Setup[k].n -> 0..(Q - 1)]
           /\ p.a \in Coordinates /\ p.b \in Int /\ p.c \in Coordinates
           /\ \A f \in Basis :
                 /\ f # <<k, -1>> => p.a[f] = 0
                 /\ Cong(p.c[f] * Setup[k].delta,
                         p.a[f] * p.b - (Alpha(k)[f] * Setup[k].beta
                                         + Claim(k, s)[f] * Setup[k].gamma))
<1> DEFINE a == G1Mul(Alpha(k), r[1])
           b == r[2]
           rest == G1Add(G1Mul(Alpha(k), Setup[k].beta), G1Mul(Claim(k, s), Setup[k].gamma))
           d == G1Add(G1Mul(a, b), G1Neg(rest))
           delta == Setup[k].delta
           beta == Setup[k].beta
           gamma == Setup[k].gamma
           inv == InverseOf(delta)
           alpha == Alpha(k)
           claim == Claim(k, s)
<1>1. p.key = k /\ p.statement = s /\ p.a = a /\ p.b = b /\ p.c = G1Mul(d, inv)
  BY DEF MadeProof
<1>2. /\ s \in [1..Setup[k].n -> 0..(Q - 1)] /\ Setup[k].n \in Nat
      /\ beta \in Int /\ gamma \in Int /\ delta \in Int /\ delta \in 1..(Q - 1)
  <2>1. s \in [1..Setup[k].n -> 0..(Q - 1)]
    BY SetupAssumption
  <2>2. /\ beta \in 1..(Q - 1) /\ gamma \in 1..(Q - 1) /\ delta \in 1..(Q - 1)
        /\ Setup[k].n \in Nat
    BY SetupFields
  <2> HIDE DEF beta, gamma, delta
  <2> QED
    BY <2>1, <2>2
<1>3. r[1] \in Int /\ b \in Int
  <2>1. PICK u \in 0..(Q - 1), v \in 0..(Q - 1) : r = <<u, v>>
    BY SetupAssumption
  <2> QED
    BY <2>1
<1>4. inv \in Int /\ Cong(delta * inv, 1) /\ delta * inv \in Int
  <2>1. inv \in Int /\ (delta * inv) % Q = 1
    BY <1>2, Inverses
  <2> HIDE DEF inv, delta
  <2>2. delta * inv \in Int
    BY <1>2, <2>1
  <2> DEFINE u == delta * inv
  <2> HIDE DEF u
  <2>3. u \in Int /\ u % Q = 1 => Cong(u, 1)
    BY CongMod, CongSwap
  <2> QED
    BY <2>1, <2>2, <2>3 DEF u
<1>5. alpha \in Coordinates /\ claim \in Coordinates
  BY <1>2, PointCoordinates, ClaimCoordinates DEF Alpha
<1>6. \A f \in Basis : alpha[f] = IF f = <<k, -1>> THEN 1 ELSE 0
  BY PointCoordinates DEF Alpha
<1> HIDE DEF inv, delta, beta, gamma, alpha, claim, b
<1>7. a \in Coordinates /\ \A f \in Basis : Cong(a[f], alpha[f] * r[1])
  BY <1>3, <1>5, ScaledCoordinates DEF alpha
<1> DEFINE ab == G1Mul(a, b)
           x == G1Mul(alpha, beta)
           y == G1Mul(claim, gamma)
<1>8. /\ x \in Coordinates /\ \A f \in Basis : Cong(x[f], alpha[f] * beta)
      /\ y \in Coordinates /\ \A f \in Basis : Cong(y[f], claim[f] * gamma)
  BY <1>2, <1>5, ScaledCoordinates
<1> HIDE DEF a
<1>9. ab \in Coordinates /\ \A f \in Basis : Cong(ab[f], a[f] * b)
  BY <1>3, <1>7, ScaledCoordinates
<1>10. rest = G1Add(x, y) /\ d = G1Add(ab, G1Neg(rest))
  BY DEF alpha, beta, claim, gamma
<1> HIDE DEF ab, x, y, rest
<1>11. rest \in Coordinates /\ \A f \in Basis : Cong(rest[f], x[f] + y[f])
  BY <1>8, <1>10, SumCoordinates
<1>12. G1Neg(rest) \in Coordinates /\ \A f \in Basis : Cong(G1Neg(rest)[f], -rest[f])
  BY <1>11, NegatedCoordinates
<1> DEFINE neg == G1Neg(rest)
<1> HIDE DEF neg
<1>13. neg \in Coordinates /\ \A f \in Basis : Cong(neg[f], -rest[f])
  BY <1>12 DEF neg
<1>14. d = G1Add(ab, neg)
  BY <1>10 DEF neg
<1> HIDE DEF d
<1>15. d \in Coordinates /\ \A f \in Basis : Cong(d[f], ab[f] + neg[f])
  BY <1>9, <1>13, <1>14, SumCoordinates
<1> DEFINE c == G1Mul(d, inv)
<1>16. c \in Coordinates /\ \A f \in Basis : Cong(c[f], d[f] * inv)
  BY <1>4, <1>15, ScaledCoordinates
<1> HIDE DEF c
<1>17. ASSUME NEW f \in Basis, f # <<k, -1>> PROVE a[f] = 0
  <2>1. alpha[f] * r[1] = 0
    BY <1>3, <1>6, <1>17
  <2>2. a[f] \in 0..(Q - 1) /\ 0 \in 0..(Q - 1)
    BY <1>7, GroupOrder DEF Coordinates
  <2> QED
    BY <1>7, <2>1, <2>2, CongEqual
<1>18. ASSUME NEW f \in Basis
       PROVE  Cong(c[f] * delta, a[f] * b - (alpha[f] * beta + claim[f] * gamma))
  <2>1. /\ a[f] \in Int /\ ab[f] \in Int /\ x[f] \in Int /\ y[f] \in Int /\ rest[f] \in Int
        /\ neg[f] \in Int /\ d[f] \in Int /\ c[f] \in Int /\ alpha[f] \in Int /\ claim[f] \in Int
    BY <1>5, <1>7, <1>8, <1>9, <1>11, <1>13, <1>15, <1>16 DEF Coordinates
  <2> DEFINE u == a[f] * b
             v == alpha[f] * beta
             w == claim[f] * gamma
             q == d[f] * inv
             dd == delta * inv
             e == c[f] * delta
             qd == q * delta
  <2>2. u \in Int /\ v \in Int /\ w \in Int /\ q \in Int /\ dd \in Int /\ e \in Int /\ qd \in Int
    <3>1. u \in Int
      BY <1>3, <2>1, SMTT(30)
    <3>2. v \in Int /\ w \in Int
      BY <1>2, <2>1, SMTT(30)
    <3>3. q \in Int
      <4>1. d[f] \in Int /\ inv \in Int
        BY <1>4, <2>1
      <4> HIDE DEF inv
      <4> QED
        BY <4>1, SMTT(30)
    <3>4. dd \in Int /\ e \in Int
      BY <1>2, <1>4, <2>1, SMTT(30)
    <3>5. qd \in Int
      <4> HIDE DEF q
      <4> QED
        BY <1>2, <3>3
    <3> QED
      BY <3>1, <3>2, <3>3, <3>4, <3>5
  <2>3. Cong(ab[f], u) /\ Cong(x[f], v) /\ Cong(y[f], w) /\ Cong(c[f], q) /\ Cong(dd, 1)
    BY <1>4, <1>8, <1>9, <1>16
  <2>4. qd = dd * d[f]
    BY <1>2, <1>4, <2>1
  <2>5. Cong(e, qd)
    <3>1. e = c[f] * delta /\ qd = q * delta
      OBVIOUS
    <3> HIDE DEF e, qd, q
    <3> QED
      BY <1>2, <2>1, <2>2, <2>3, <3>1, CongTimes
  <2> HIDE DEF u, v, w, q, dd, e, qd
  <2>6. Cong(qd, d[f])
    <3>1. d[f] = 1 * d[f] /\ 1 \in Int
      BY <2>1
    <3> QED
      BY <2>1, <2>2, <2>3, <2>4, <3>1, CongTimes
  <2>7. Cong(x[f] + y[f], v + w) /\ x[f] + y[f] \in Int /\ v + w \in Int
    <3>1. x[f] + y[f] \in Int /\ v + w \in Int
      BY <2>1, <2>2
    <3>2. Cong(x[f] + y[f], v + w)
      BY <2>1, <2>2, <2>3, CongAdd
    <3> QED
      BY <3>1, <3>2
  <2>8. Cong(rest[f], v + w)
    BY <1>11, <2>1, <2>7, CongChain
  <2>9. Cong(-rest[f], -(v + w)) /\ -rest[f] \in Int /\ -(v + w) \in Int
    BY <2>1, <2>7, <2>8, CongNegate
  <2>10. Cong(neg[f], -(v + w))
    BY <1>13, <2>1, <2>9, CongChain
  <2>11. Cong(ab[f] + neg[f], u + (-(v + w)))
    BY <2>1, <2>2, <2>3, <2>9, <2>10, CongAdd
  <2>12. u + (-(v + w)) = u - (v + w) /\ u - (v + w) \in Int /\ ab[f] + neg[f] \in Int
    BY <2>1, <2>2
  <2>13. Cong(d[f], u - (v + w))
    BY <1>15, <2>1, <2>11, <2>12, CongChain
  <2>14. Cong(e, d[f])
    BY <2>1, <2>2, <2>5, <2>6, CongChain
  <2>15. Cong(e, u - (v + w))
    BY <2>1, <2>2, <2>12, <2>13, <2>14, CongChain
  <2> QED
    BY <2>15 DEF u, v, w, e
<1>19. p.a = a /\ p.b = b /\ p.c = c
  BY <1>1 DEF a, b, c, d, inv, ab, rest, alpha, delta
<1> QED
  BY <1>1, <1>2, <1>3, <1>7, <1>16, <1>17, <1>18, <1>19 DEF alpha, beta, gamma, delta, claim

(* The four pairings of a proof, checked against a key and its signals.    *)
Passes(k, p, s) ==
    PairingCheck(<<G1Neg(p.a), Alpha(k), VkX(k, s), p.c>>,
                 <<p.b, Setup[k].beta, Setup[k].gamma, Setup[k].delta>>)

(* The contract's check of a proof, coordinate by coordinate.             *)
LEMMA FourPairings ==
    ASSUME NEW k \in VerificationKey, NEW s \in [1..Setup[k].n -> 0..(Q - 1)],
           Len(s) = Setup[k].n, NEW p,
           p.a \in Coordinates, p.b \in Int, p.c \in Coordinates
    PROVE  Passes(k, p, s) <=>
           \A f \in Basis : Cong(G1Neg(p.a)[f] * p.b + Alpha(k)[f] * Setup[k].beta
                                 + Claim(k, s)[f] * Setup[k].gamma
                                 + p.c[f] * Setup[k].delta, 0)
<1>1. Setup[k].beta \in Int /\ Setup[k].gamma \in Int /\ Setup[k].delta \in Int
      /\ Setup[k].n \in Nat
  BY SetupFields
<1>2. /\ G1Neg(p.a) \in Coordinates /\ Alpha(k) \in Coordinates
      /\ Claim(k, s) \in Coordinates /\ VkX(k, s) = Claim(k, s)
  BY <1>1, NegatedCoordinates, PointCoordinates, ClaimCoordinates, VkXIsClaim DEF Alpha
<1> DEFINE x1 == G1Neg(p.a)
           x2 == Alpha(k)
           x3 == Claim(k, s)
           x4 == p.c
           y1 == p.b
           y2 == Setup[k].beta
           y3 == Setup[k].gamma
           y4 == Setup[k].delta
<1>3. Passes(k, p, s) <=> PairingCheck(<<x1, x2, x3, x4>>, <<y1, y2, y3, y4>>)
  BY <1>2 DEF Passes
<1>4. /\ x1 \in Coordinates /\ x2 \in Coordinates /\ x3 \in Coordinates /\ x4 \in Coordinates
      /\ y1 \in Int /\ y2 \in Int /\ y3 \in Int /\ y4 \in Int
  BY <1>1, <1>2
<1> HIDE DEF x1, x2, x3, x4, y1, y2, y3, y4
<1>5. PairingCheck(<<x1, x2, x3, x4>>, <<y1, y2, y3, y4>>) <=>
         \A f \in Basis : Cong(x1[f] * y1 + x2[f] * y2 + x3[f] * y3 + x4[f] * y4, 0)
  BY <1>4, PairingOfFour
<1> QED
  BY <1>3, <1>5 DEF x1, x2, x3, x4, y1, y2, y3, y4

(* Against its own key a proof passes for its own statement.               *)
LEMMA SameKey ==
    ASSUME NEW k \in VerificationKey, NEW s \in [1..Setup[k].n -> 0..(Q - 1)],
           Len(s) = Setup[k].n,
           NEW t \in Statement[k], NEW r \in Randomness, NEW p, p = MadeProof(k, t, r)
    PROVE  Passes(k, p, s) <=> t = s
<1> DEFINE alpha == Alpha(k)
           beta == Setup[k].beta
           gamma == Setup[k].gamma
           delta == Setup[k].delta
           asked == Claim(k, s)
           made == Claim(k, t)
           neg == G1Neg(p.a)
           a == p.a
           b == p.b
           c == p.c
<1>1. beta \in Int /\ gamma \in Int /\ gamma \in 1..(Q - 1) /\ delta \in Int
  <2>1. beta \in 1..(Q - 1) /\ gamma \in 1..(Q - 1) /\ delta \in 1..(Q - 1)
    BY SetupFields
  <2> HIDE DEF beta, gamma, delta
  <2> QED
    BY <2>1
<1>2. /\ t \in [1..Setup[k].n -> 0..(Q - 1)] /\ Setup[k].n \in Nat
      /\ a \in Coordinates /\ b \in Int /\ c \in Coordinates
      /\ \A f \in Basis : Cong(c[f] * delta, a[f] * b - (alpha[f] * beta + made[f] * gamma))
  BY MadeProofEquation, SetupFields
<1>3. asked \in Coordinates /\ made \in Coordinates /\ alpha \in Coordinates
  BY <1>2, ClaimCoordinates, PointCoordinates DEF Alpha
<1>4. neg \in Coordinates /\ \A f \in Basis : Cong(neg[f], -a[f])
  BY <1>2, NegatedCoordinates
<1>5. Passes(k, p, s) <=>
        \A f \in Basis : Cong(neg[f] * b + alpha[f] * beta + asked[f] * gamma + c[f] * delta, 0)
  BY <1>2, FourPairings
<1> HIDE DEF alpha, beta, gamma, delta, asked, made, neg, a, b, c
<1>6. ASSUME NEW f \in Basis
      PROVE  Cong(neg[f] * b + alpha[f] * beta + asked[f] * gamma + c[f] * delta, 0)
             <=> asked[f] = made[f]
  <2>1. /\ neg[f] \in Int /\ alpha[f] \in Int /\ a[f] \in Int /\ c[f] \in Int
        /\ asked[f] \in 0..(Q - 1) /\ made[f] \in 0..(Q - 1)
        /\ asked[f] \in Int /\ made[f] \in Int
    BY <1>2, <1>3, <1>4 DEF Coordinates
  <2> DEFINE nb == neg[f] * b
             ab == a[f] * b
             v == alpha[f] * beta
             w == asked[f] * gamma
             m == made[f] * gamma
             e == c[f] * delta
  <2>2. nb \in Int /\ ab \in Int /\ v \in Int /\ w \in Int /\ m \in Int /\ e \in Int
    <3>1. nb \in Int /\ ab \in Int
      BY <1>2, <2>1
    <3>2. v \in Int /\ w \in Int
      BY <1>1, <2>1
    <3>3. m \in Int /\ e \in Int
      BY <1>1, <2>1
    <3> QED
      BY <3>1, <3>2, <3>3
  <2>3. Cong(nb, -ab)
    <3>1. -a[f] \in Int /\ -ab = (-a[f]) * b
      BY <1>2, <2>1
    <3> HIDE DEF ab
    <3> QED
      BY <1>2, <1>4, <2>1, <3>1, CongTimes
  <2>4. Cong(e, ab - (v + m))
    BY <1>2
  <2> DEFINE total == nb + v + w + e
  <2>5. w = m => asked[f] = made[f]
    <3>1. Cong(m, m)
      BY <2>2, CongSame
    <3> QED
      BY <1>1, <2>1, <3>1, CongCancel
  <2>6. Cong(w, m) => asked[f] = made[f]
    BY <1>1, <2>1, CongCancel
  <2>7. asked[f] = made[f] => w = m
    OBVIOUS
  <2> HIDE DEF nb, ab, v, w, m, e
  <2>8. Cong(nb + e, -ab + (ab - (v + m))) /\ nb + e \in Int
    <3>1. -ab \in Int /\ ab - (v + m) \in Int
      BY <2>2
    <3>2. nb + e \in Int
      BY <2>2
    <3> DEFINE nab == -ab
               y == ab - (v + m)
    <3>3. nab \in Int /\ y \in Int /\ Cong(nb, nab) /\ Cong(e, y)
      BY <2>3, <2>4, <3>1
    <3> HIDE DEF nab, y
    <3>4. Cong(nb + e, nab + y)
      BY <2>2, <3>3, CongAdd
    <3> QED
      BY <3>2, <3>4 DEF nab, y
  <2>9. Cong(v + w, v + w) /\ v + w \in Int
    BY <2>2, CongSame
  <2>10. Cong(total, w - m) /\ total \in Int /\ w - m \in Int
    <3>1. -ab + (ab - (v + m)) = -(v + m) /\ -(v + m) \in Int
      BY <2>2
    <3>2. Cong((nb + e) + (v + w), -(v + m) + (v + w))
      BY <2>8, <2>9, <3>1, CongAdd
    <3>3. total = (nb + e) + (v + w) /\ w - m = -(v + m) + (v + w)
      BY <2>2
    <3>4. total \in Int /\ w - m \in Int
      BY <2>2
    <3> HIDE DEF total
    <3> QED
      BY <3>2, <3>3, <3>4
  <2> HIDE DEF total
  <2>11. Cong(total, 0) => Cong(w, m)
    <3> SUFFICES ASSUME Cong(total, 0) PROVE Cong(w, m)
      OBVIOUS
    <3>1. Cong(w - m, total) /\ 0 \in Int
      BY <2>10, CongSwap
    <3>2. Cong(w - m, 0)
      BY <2>10, <3>1, CongChain
    <3>3. PICK d \in Int : w - m = 0 + Q * d
      BY <3>2 DEF Cong
    <3>4. w = m + Q * d
      BY <2>2, <3>3, GroupOrder
    <3> QED
      BY <3>4 DEF Cong
  <2>12. w = m => Cong(total, 0)
    <3> SUFFICES ASSUME w = m PROVE Cong(total, 0)
      OBVIOUS
    <3>1. w - m = 0
      BY <2>2
    <3> QED
      BY <2>10, <3>1
  <2> QED
    BY <2>6, <2>7, <2>11, <2>12 DEF nb, v, w, e, total
<1>7. (\A f \in Basis : asked[f] = made[f]) <=> t = s
  <2>1. ASSUME \A f \in Basis : asked[f] = made[f] PROVE t = s
    <3>1. ASSUME NEW j \in 1..Setup[k].n PROVE t[j] = s[j]
      <4>1. j \in -1..MaxSignals /\ j # -1 /\ j # 0
        BY <1>2, SetupFields
      <4>2. <<k, j>> \in Basis
        BY <4>1, BasisElements
      <4>3. asked[<<k, j>>] = s[j] /\ made[<<k, j>>] = t[j]
        <5>1. asked[<<k, j>>] = s[j]
          BY <1>2, <4>1, <4>2, ClaimOfSignal DEF asked
        <5>2. made[<<k, j>>] = t[j]
          BY <1>2, <4>1, <4>2, ClaimOfSignal DEF made
        <5> QED
          BY <5>1, <5>2
      <4> QED
        BY <2>1, <4>2, <4>3
    <3> QED
      BY <1>2, <3>1
  <2>2. t = s => \A f \in Basis : asked[f] = made[f]
    BY DEF asked, made
  <2> QED
    BY <2>1, <2>2
<1> QED
  BY <1>5, <1>6, <1>7

(* Against another key no proof passes.                                    *)
LEMMA OtherKey ==
    ASSUME NEW k \in VerificationKey, NEW s \in [1..Setup[k].n -> 0..(Q - 1)],
           Len(s) = Setup[k].n,
           NEW l \in VerificationKey, l # k,
           NEW t \in Statement[l], NEW r \in Randomness, NEW p, p = MadeProof(l, t, r)
    PROVE  ~ Passes(k, p, s)
<1> DEFINE f == <<k, 0>>
           delta == Setup[k].delta
           gamma == Setup[k].gamma
<1>1. /\ f \in Basis /\ f # <<k, -1>> /\ f # <<l, -1>> /\ f[1] = k
      /\ Setup[k].n \in Nat /\ 0 \in -1..MaxSignals
  <2>1. Setup[k].n \in Nat /\ MaxSignals \in Nat
    BY SetupFields
  <2>2. 0 \in -1..MaxSignals
    BY <2>1
  <2> QED
    BY <2>1, <2>2, BasisElements
<1>2. /\ t \in [1..Setup[l].n -> 0..(Q - 1)] /\ Setup[l].n \in Nat
      /\ p.a \in Coordinates /\ p.b \in Int /\ p.c \in Coordinates /\ p.a[f] = 0
      /\ Cong(p.c[f] * Setup[l].delta,
              p.a[f] * p.b - (Alpha(l)[f] * Setup[l].beta + Claim(l, t)[f] * Setup[l].gamma))
  BY <1>1, MadeProofEquation, SetupFields
<1>3. /\ Alpha(k)[f] = 0 /\ Alpha(l)[f] = 0
      /\ Claim(k, s)[f] = 1 /\ Claim(l, t)[f] = 0
  <2>1. Alpha(k)[f] = 0 /\ Alpha(l)[f] = 0
    BY <1>1, PointCoordinates DEF Alpha
  <2>2. Claim(k, s)[f] = 1
    BY <1>1, ClaimCoordinates
  <2>3. Claim(l, t)[f] = 0
    BY <1>1, ClaimOfOther
  <2> QED
    BY <2>1, <2>2, <2>3
<1>4. /\ Setup[k].beta \in 1..(Q - 1) /\ gamma \in 1..(Q - 1) /\ delta \in 1..(Q - 1)
      /\ Setup[l].beta \in 1..(Q - 1) /\ Setup[l].gamma \in 1..(Q - 1)
      /\ Setup[l].delta \in 1..(Q - 1)
  BY SetupFields
<1> DEFINE c == p.c[f]
           x == G1Neg(p.a)[f]
           dl == Setup[l].delta
<1>5. c \in 0..(Q - 1) /\ x \in 0..(Q - 1) /\ 0 \in 0..(Q - 1)
  <2>1. p.c \in Coordinates /\ G1Neg(p.a) \in Coordinates /\ f \in Basis
    BY <1>1, <1>2, NegatedCoordinates
  <2>2. 0 \in 0..(Q - 1)
    BY GroupOrder
  <2> HIDE DEF f
  <2> QED
    BY <2>1, <2>2 DEF Coordinates
<1>6. x = 0
  <2>1. Q - 1 \in Int
    BY GroupOrder
  <2>2. Cong(x, p.a[f] * (Q - 1))
    BY <1>1, <1>2, <2>1, ScaledCoordinates DEF G1Neg
  <2>3. p.a[f] * (Q - 1) = 0
    BY <1>2, <2>1
  <2>4. Cong(x, 0)
    BY <2>2, <2>3
  <2> HIDE DEF x
  <2> QED
    BY <1>5, <2>4, CongEqual
<1>7. c = 0
  <2>1. p.a[f] * p.b - (Alpha(l)[f] * Setup[l].beta + Claim(l, t)[f] * Setup[l].gamma) = 0
    <3>1. p.a[f] * p.b = 0
      BY <1>2
    <3>2. Alpha(l)[f] * Setup[l].beta = 0 /\ Claim(l, t)[f] * Setup[l].gamma = 0
      BY <1>3, <1>4
    <3> QED
      BY <3>1, <3>2
  <2>2. Cong(c * dl, 0)
    BY <1>2, <2>1
  <2>3. dl \in 1..(Q - 1)
    BY <1>4
  <2> HIDE DEF c, dl
  <2>4. 0 * dl = 0
    BY <2>3
  <2>5. Cong(c * dl, 0 * dl)
    BY <2>2, <2>4
  <2> QED
    BY <1>5, <2>3, <2>5, CongCancel
<1>8. Passes(k, p, s) =>
        Cong(x * p.b + Alpha(k)[f] * Setup[k].beta + Claim(k, s)[f] * gamma + c * delta, 0)
  BY <1>1, <1>2, FourPairings
<1>9. x * p.b + Alpha(k)[f] * Setup[k].beta + Claim(k, s)[f] * gamma + c * delta = gamma
  <2>1. x * p.b = 0 /\ c * delta = 0
    BY <1>2, <1>4, <1>6, <1>7
  <2>2. Alpha(k)[f] * Setup[k].beta = 0 /\ Claim(k, s)[f] * gamma = gamma
    BY <1>3, <1>4
  <2> HIDE DEF x, c, gamma, delta
  <2> QED
    BY <1>4, <2>1, <2>2
<1>10. ~ Cong(gamma, 0)
  <2> HIDE DEF gamma
  <2>1. gamma \in 0..(Q - 1) /\ gamma # 0
    BY <1>4
  <2> QED
    BY <1>5, <2>1, CongEqual
<1> QED
  BY <1>8, <1>9, <1>10

-----------------------------------------------------------------------------
(* A function over 1..n is a sequence of n entries.                        *)
LEMMA LengthOfArray ==
    ASSUME NEW W, NEW n \in Nat, NEW s \in [1..n -> W]
    PROVE  Len(s) = n
<1>1. s \in Seq(W)
  BY SeqDef
<1>2. Len(s) \in Nat /\ DOMAIN s = 1..Len(s)
  BY <1>1
<1>3. DOMAIN s = 1..n
  OBVIOUS
<1> QED
  BY <1>2, <1>3

(* The contract's answer about a proof that somebody made.                 *)
LEMMA ProofVerdict ==
    ASSUME NEW k \in VerificationKey, NEW tag, NEW words \in Signals,
           NEW l \in VerificationKey, NEW t \in Statement[l], NEW r \in Randomness,
           NEW p, p = MadeProof(l, t, r)
    PROVE  LET s == [j \in DOMAIN words |-> words[j] % Q]
           IN  ProofOk(tag, k, p, s) <=> tag = 1 /\ p.key = k /\ p.statement = s
<1> DEFINE s == [j \in DOMAIN words |-> words[j] % Q]
           n == Len(words)
<1>1. words \in Seq(Nat) /\ n \in Nat /\ DOMAIN words = 1..n
  BY SetupAssumption
<1>2. s \in [1..n -> 0..(Q - 1)]
  <2>1. \A j \in 1..n : words[j] \in Int
    BY <1>1
  <2> QED
    BY <1>1, <2>1, CongMod
<1>3. Len(s) = n
  <2> HIDE DEF s, n
  <2> QED
    BY <1>1, <1>2, LengthOfArray
<1>4. p.key = l /\ p.statement = t /\ t \in [1..Setup[l].n -> 0..(Q - 1)]
  BY MadeProofEquation
<1>5. Setup[k].n \in Nat /\ Setup[l].n \in Nat /\ Len(Ic(k)) = Setup[k].n + 1
  <2>1. Setup[k].n \in Nat /\ Setup[l].n \in Nat
    BY SetupFields
  <2> DEFINE m == Setup[k].n + 1
             ic == Ic(k)
  <2>2. ic \in [1..m -> Coordinates] /\ m \in Nat
    BY <2>1, PointCoordinates DEF Ic
  <2> HIDE DEF m, ic
  <2>3. Len(ic) = m
    BY <2>2, LengthOfArray
  <2> QED
    BY <2>1, <2>3 DEF m, ic
<1> HIDE DEF s, n
<1>6. CASE n # Setup[k].n
  <2>1. Groth16PairingCheck(k, p, s) = "MalformedVerificationKey"
    BY <1>1, <1>3, <1>5, <1>6 DEF Groth16PairingCheck
  <2>2. ~ ProofOk(tag, k, p, s)
    BY <2>1 DEF ProofOk, DispatchVerify, FromU32
  <2>3. l = k => t # s
    <3>1. l = k => DOMAIN t = 1..Setup[k].n
      BY <1>4
    <3>2. DOMAIN s = 1..n
      BY <1>2
    <3>3. 1..n # 1..Setup[k].n
      BY <1>1, <1>5, <1>6
    <3> QED
      BY <3>1, <3>2, <3>3
  <2> QED
    BY <1>4, <2>2, <2>3 DEF s
<1>7. CASE n = Setup[k].n
  <2>1. s \in [1..Setup[k].n -> 0..(Q - 1)] /\ Len(s) = Setup[k].n
    BY <1>2, <1>3, <1>7
  <2>2. Groth16PairingCheck(k, p, s) = IF Passes(k, p, s) THEN "valid" ELSE "invalid"
    BY <1>5, <2>1 DEF Groth16PairingCheck, Passes
  <2>3. Passes(k, p, s) <=> l = k /\ t = s
    <3>1. CASE l = k
      BY <2>1, <3>1, SameKey
    <3>2. CASE l # k
      BY <2>1, <3>2, OtherKey
    <3> QED
      BY <3>1, <3>2
  <2>4. ProofOk(tag, k, p, s) <=> tag = 1 /\ Passes(k, p, s)
    BY <2>2 DEF ProofOk, DispatchVerify, FromU32
  <2> QED
    BY <1>4, <2>3, <2>4 DEF s
<1> QED
  BY <1>6, <1>7

(* The contract's answer about a signature that somebody made.             *)
LEMMA SignatureVerdict ==
    ASSUME NEW pk \in CustodianKey, NEW w \in Word, NEW sk \in CustodianKey, NEW m \in Word
    PROVE  VerifyCustodianSig(pk, G1Mul(HashToG1(m), sk), w) <=> sk = pk /\ m = w
<1> DEFINE sig == G1Mul(HashToG1(m), sk)
           h == HashToG1(w)
           neg == G1Neg(h)
           e == <<"hash", m>>
<1>1. pk \in 1..(Q - 1) /\ sk \in 1..(Q - 1) /\ pk \in Int /\ sk \in Int /\ 1 \in Int
  BY SetupAssumption
<1>2. /\ h \in Coordinates /\ HashToG1(m) \in Coordinates
      /\ \A f \in Basis : h[f] = IF f = <<"hash", w>> THEN 1 ELSE 0
      /\ \A f \in Basis : HashToG1(m)[f] = IF f = <<"hash", m>> THEN 1 ELSE 0
  BY PointCoordinates DEF HashToG1
<1>3. sig \in Coordinates /\ \A f \in Basis : Cong(sig[f], HashToG1(m)[f] * sk)
  BY <1>1, <1>2, ScaledCoordinates
<1>4. \A f \in Basis : sig[f] = IF f = <<"hash", m>> THEN sk ELSE 0
  <2> TAKE f \in Basis
  <2>1. sig[f] \in 0..(Q - 1) /\ 0 \in 0..(Q - 1) /\ sk \in 0..(Q - 1)
    BY <1>1, <1>3, GroupOrder DEF Coordinates
  <2>2. HashToG1(m)[f] * sk = IF f = <<"hash", m>> THEN sk ELSE 0
    BY <1>1, <1>2
  <2>3. Cong(sig[f], IF f = <<"hash", m>> THEN sk ELSE 0)
    BY <1>3, <2>2
  <2> HIDE DEF sig
  <2> QED
    BY <2>1, <2>3, CongEqual
<1>5. neg \in Coordinates /\ \A f \in Basis : Cong(neg[f], -h[f])
  BY <1>2, NegatedCoordinates
<1>6. VerifyCustodianSig(pk, sig, w) <=>
        \A f \in Basis : Cong(sig[f] * 1 + neg[f] * pk, 0)
  <2> HIDE DEF sig
  <2> QED
    BY <1>1, <1>3, <1>5, PairingOfTwo DEF VerifyCustodianSig
<1>7. <<"hash", m>> \in Basis
  BY BasisElements
<1> HIDE DEF sig, h, neg
<1>8. ASSUME NEW f \in Basis
      PROVE  Cong(sig[f] * 1 + neg[f] * pk, 0) <=> sig[f] = h[f] * pk
  <2>1. /\ sig[f] \in 0..(Q - 1) /\ sig[f] \in Int /\ neg[f] \in Int /\ h[f] \in Int
        /\ h[f] * pk \in 0..(Q - 1) /\ h[f] * pk \in Int
    <3>1. sig[f] \in 0..(Q - 1) /\ neg[f] \in 0..(Q - 1) /\ h[f] \in 0..(Q - 1)
      BY <1>2, <1>3, <1>5 DEF Coordinates
    <3>2. h[f] = 0 \/ h[f] = 1
      BY <1>2
    <3>3. h[f] * pk = 0 \/ h[f] * pk = pk
      BY <1>1, <3>2
    <3> QED
      BY <1>1, <3>1, <3>3
  <2> DEFINE x == sig[f]
             y == h[f] * pk
             ny == neg[f] * pk
             total == sig[f] * 1 + neg[f] * pk
  <2>2. Cong(ny, -y) /\ ny \in Int /\ -y \in Int
    <3>1. -h[f] \in Int /\ -y = (-h[f]) * pk /\ -y \in Int /\ ny \in Int
      BY <1>1, <2>1
    <3> HIDE DEF y
    <3> QED
      BY <1>1, <1>5, <2>1, <3>1, CongTimes
  <2>3. x \in Int /\ y \in Int /\ x \in 0..(Q - 1) /\ y \in 0..(Q - 1) /\ total = x + ny
    BY <1>1, <2>1
  <2> HIDE DEF x, y, ny, total
  <2>4. Cong(x + ny, x + (-y))
    BY <2>2, <2>3, CongAdd, CongSame
  <2>5. x + (-y) = x - y /\ x - y \in Int /\ total \in Int
    BY <2>2, <2>3
  <2>6. Cong(total, x - y) /\ Cong(x - y, total)
    BY <2>3, <2>4, <2>5, CongSwap
  <2>7. ASSUME Cong(total, 0) PROVE x = y
    <3>1. Cong(x - y, 0)
      BY <2>5, <2>6, <2>7, CongChain
    <3>2. PICK d \in Int : x - y = 0 + Q * d
      BY <3>1 DEF Cong
    <3>3. x = y + Q * d
      BY <2>3, <3>2, GroupOrder
    <3> QED
      BY <2>3, <3>3, CongEqual DEF Cong
  <2>8. ASSUME x = y PROVE Cong(total, 0)
    <3>1. x - y = 0
      BY <2>3, <2>8
    <3> QED
      BY <2>6, <3>1
  <2> QED
    BY <2>7, <2>8 DEF total, x, y
<1>9. (\A f \in Basis : sig[f] = h[f] * pk) <=> sk = pk /\ m = w
  <2>1. ASSUME \A f \in Basis : sig[f] = h[f] * pk PROVE sk = pk /\ m = w
    <3>1. sig[e] = sk /\ sk # 0 /\ sig[e] = h[e] * pk
      BY <1>1, <1>4, <1>7, <2>1
    <3>2. h[e] = IF m = w THEN 1 ELSE 0
      BY <1>2, <1>7
    <3>3. h[e] * pk = IF m = w THEN pk ELSE 0
      BY <1>1, <3>2
    <3> QED
      BY <3>1, <3>3
  <2>2. ASSUME sk = pk, m = w, NEW f \in Basis PROVE sig[f] = h[f] * pk
    <3>1. h[f] * pk = IF f = <<"hash", m>> THEN pk ELSE 0
      BY <1>1, <1>2, <2>2
    <3> QED
      BY <1>4, <2>2, <3>1
  <2> QED
    BY <2>1, <2>2
<1> QED
  BY <1>6, <1>8, <1>9 DEF sig

-----------------------------------------------------------------------------
(* The inductive invariant: every proof and signature in circulation was   *)
(* made by its maker's formula.                                            *)
VerifierInv ==
    /\ \A p \in proofs : \E k \in VerificationKey, r \in Randomness :
          \E s \in Statement[k] : p = MadeProof(k, s, r)
    /\ \A g \in signatures : \E pk \in CustodianKey, w \in Word :
          g = [key |-> pk, message |-> w, point |-> G1Mul(HashToG1(w), pk)]
    /\ VerdictsExact

(* Every step keeps the verdicts exact.                                   *)
LEMMA VerifierStep ==
    ASSUME VerifierInv, [VerifierNext]_verifierVars
    PROVE  VerifierInv'
<1> USE DEF VerifierInv
<1>1. ASSUME NEW k \in VerificationKey, NEW r \in Randomness, NEW s \in Statement[k],
             Prove(k, s, r)
      PROVE  VerifierInv'
  BY <1>1 DEF Prove, VerdictsExact
<1>2. ASSUME NEW pk \in CustodianKey, NEW w \in Word, Sign(pk, w)
      PROVE  VerifierInv'
  BY <1>2 DEF Sign, VerdictsExact
<1>3. ASSUME NEW tag, NEW k \in VerificationKey, NEW p \in proofs, NEW words \in Signals,
             CheckProof(tag, k, p, words)
      PROVE  VerifierInv'
  <2> DEFINE s == [j \in DOMAIN words |-> words[j] % Q]
  <2>1. PICK l \in VerificationKey, r \in Randomness : \E t \in Statement[l] : p = MadeProof(l, t, r)
    OBVIOUS
  <2>2. PICK t \in Statement[l] : p = MadeProof(l, t, r)
    BY <2>1
  <2>3. ProofOk(tag, k, p, s) <=> tag = 1 /\ p.key = k /\ p.statement = s
    BY <2>2, ProofVerdict
  <2>4. /\ verdict' = [check |-> "groth16", tag |-> tag, key |-> k, signals |-> words,
                       proof |-> p, ok |-> ProofOk(tag, k, p, s)]
        /\ proofs' = proofs /\ signatures' = signatures
    BY <1>3 DEF CheckProof
  <2>5. VerdictsExact'
    BY <2>3, <2>4 DEF VerdictsExact
  <2> QED
    BY <2>4, <2>5
<1>4. ASSUME NEW pk \in CustodianKey, NEW g \in signatures, NEW w \in Word,
             CheckSignature(pk, g, w)
      PROVE  VerifierInv'
  <2>1. PICK sk \in CustodianKey, m \in Word :
            g = [key |-> sk, message |-> m, point |-> G1Mul(HashToG1(m), sk)]
    OBVIOUS
  <2>2. VerifyCustodianSig(pk, g.point, w) <=> g.key = pk /\ g.message = w
    BY <2>1, SignatureVerdict
  <2>3. /\ verdict' = [check |-> "bls", key |-> pk, message |-> w, signature |-> g,
                       ok |-> VerifyCustodianSig(pk, g.point, w)]
        /\ proofs' = proofs /\ signatures' = signatures
    BY <1>4 DEF CheckSignature
  <2>4. VerdictsExact'
    BY <2>2, <2>3 DEF VerdictsExact
  <2> QED
    BY <2>3, <2>4
<1>5. ASSUME UNCHANGED verifierVars PROVE VerifierInv'
  BY <1>5 DEF verifierVars, VerdictsExact
<1> QED
  BY <1>1, <1>2, <1>3, <1>4, <1>5 DEF VerifierNext

(* A proof passes for its own key and scalars only, and a signature for    *)
(* its own key and word only, in groups of every prime order, with any     *)
(* number of keys and signals.                                             *)
THEOREM VerdictsStayExact == VerifierSpec => []VerdictsExact
<1>1. VerifierInit => VerifierInv
  BY DEF VerifierInit, VerifierInv, VerdictsExact
<1>2. VerifierInv /\ [VerifierNext]_verifierVars => VerifierInv'
  BY VerifierStep
<1>3. VerifierInv => VerdictsExact
  BY DEF VerifierInv
<1> QED
  BY <1>1, <1>2, <1>3, PTL DEF VerifierSpec
================================================================================
