----------------------------- MODULE PublicSignals -----------------------------
(***************************************************************************)
(* The public signals of a proof on their way into the contract, through   *)
(* three parsers of the same layouts: signals.ts (with the bundle checks   *)
(* of codec.ts and the bytes of encoding.ts), signals.rs of the contract,  *)
(* and the Rust SDK.  A bundle is supplied by the caller of attest, so its *)
(* `parsed` part may be anything.                                          *)
(*                                                                         *)
(* A signal is a text: the number it is the canonical decimal of, or       *)
(* Padded, a text such as "01", which is no canonical decimal although     *)
(* BigInt and str::parse read a number in it.  A parsed vector is the      *)
(* sequence of its values, in the order of the layout: flags are BOOLEAN,  *)
(* field elements stay texts, amounts and periods are numbers.             *)
(***************************************************************************)
EXTENDS Integers, Sequences, SequencesExt

CONSTANTS
    N_ASSETS_V3,
    U64Max, U128Max, U256Max,
    Text,                  \* the signals tried: numbers, and Padded
    Edit,                  \* the values tried in the place where `parsed` differs
    Padded, Nothing

ASSUME TextAssumption ==
    /\ N_ASSETS_V3 \in Nat /\ Padded \notin Nat
    /\ Text \subseteq Nat \cup {Padded} /\ Edit \subseteq Nat
    /\ {U64Max, U128Max, U256Max} \subseteq Nat
    /\ U64Max < U128Max /\ U128Max < U256Max

Version == 1..3

(* The public-signal layouts; the three sources agree on the indices. *)
Layout == <<
    <<"flag", "field", "amount", "period">>,
    <<"flag", "field", "field", "amount", "period">>,
    <<"flag", "field", "field">> \o [j \in 1..N_ASSETS_V3 |-> "flag"] \o <<"period">> >>

VARIABLES
    bundle,     \* [version, publicSignals, parsed], or Nothing
    recorded    \* Nothing, or what the contract parsed from the bundle

signalVars == <<bundle, recorded>>

-----------------------------------------------------------------------------
(* assertFieldElement, assert_field_element *)
IsDecimal(text) == text # Padded

Number(text) == IF text = Padded THEN 1 ELSE text

Value(kind, text) ==
    CASE kind = "flag" -> text = 1
      [] kind = "field" -> text
      [] kind \in {"amount", "period"} -> Number(text)

Values(version, signals) ==
    [j \in DOMAIN Layout[version] |-> Value(Layout[version][j], signals[j])]

(* parsePublicSignals, _V2, _V3: integers of any size. *)
ParseTypeScript(version, signals) ==
    IF /\ Len(signals) = Len(Layout[version])
       /\ \A j \in DOMAIN signals :
             /\ IsDecimal(signals[j])
             /\ Layout[version][j] = "flag" => signals[j] \in {0, 1}
    THEN Values(version, signals) ELSE Nothing

(* Fault: liabilities parse as u64. *)
NarrowAmountRust(kind, n) ==
    CASE kind = "flag" -> n \in {0, 1}
      [] kind \in {"amount", "period"} -> n <= U64Max
      [] kind = "field" -> TRUE

(* parse_flag, parse_u128, parse_u64 *)
FitsRust(kind, n) ==
    CASE kind = "flag" -> n \in {0, 1}
      [] kind = "amount" -> n <= U128Max
      [] kind = "period" -> n <= U64Max
      [] kind = "field" -> TRUE

(* parse_public_signals, _v2, _v3 of the Rust SDK *)
ParseRust(version, signals) ==
    IF /\ Len(signals) = Len(Layout[version])
       /\ \A j \in DOMAIN signals :
             IsDecimal(signals[j]) /\ FitsRust(Layout[version][j], signals[j])
    THEN Values(version, signals) ELSE Nothing

EncodeFlag(flag) == IF flag THEN 1 ELSE 0

Texts(version, parsed) ==
    [j \in DOMAIN parsed |->
        IF Layout[version][j] = "flag" THEN EncodeFlag(parsed[j]) ELSE parsed[j]]

FieldsDecimal(version, parsed) ==
    \A j \in DOMAIN parsed : Layout[version][j] = "field" => IsDecimal(parsed[j])

(* encode_public_signals, _v2, _v3 of the Rust SDK *)
EncodeRust(version, parsed) ==
    IF FieldsDecimal(version, parsed) THEN Texts(version, parsed) ELSE Nothing

(* encodePublicSignals, _V2, _V3; v3 also counts the asset flags. *)
EncodeTypeScript(version, parsed) ==
    IF /\ \A j \in DOMAIN parsed :
             Layout[version][j] \in {"amount", "period"} => parsed[j] >= 0
       /\ FieldsDecimal(version, parsed)
       /\ Len(parsed) = Len(Layout[version])
    THEN Texts(version, parsed) ELSE Nothing

(* parse_public_signals, _v2, _v3 of the contract: words of 256 bits, of   *)
(* which a period is narrowed to u128 and compared with u64::MAX.          *)
ParseContract(version, words) ==
    IF /\ Len(words) = Len(Layout[version])
       /\ \A j \in DOMAIN words :
             CASE Layout[version][j] = "flag" -> words[j] \in {0, 1}
               [] Layout[version][j] = "amount" -> words[j] <= U128Max
               [] Layout[version][j] = "period" ->
                     words[j] <= U128Max /\ words[j] <= U64Max
               [] Layout[version][j] = "field" -> TRUE
    THEN Values(version, words) ELSE Nothing

(* signalToBytes has 32 bytes for each signal. *)
Encodable(signals) ==
    \A j \in DOMAIN signals : IsDecimal(signals[j]) /\ signals[j] <= U256Max

(* Fault: v2 and v3 bundles are checked like v1 bundles. *)
ConsistentCommitment(b) ==
    LET parsed == ParseTypeScript(b.version, b.publicSignals)
    IN  parsed # Nothing /\ parsed[2] = b.parsed[2]

(* bundleToContractArgs compares the commitment, assertBundleV2Consistency *)
(* and assertBundleV3Consistency compare everything.                       *)
Consistent(b) ==
    LET parsed == ParseTypeScript(b.version, b.publicSignals)
    IN  /\ parsed # Nothing
        /\ IF b.version = 1 THEN parsed[2] = b.parsed[2] ELSE parsed = b.parsed

-----------------------------------------------------------------------------
WireInit == bundle = Nothing /\ recorded = Nothing

(* A caller of attest, attestV2 or attestV3 makes a bundle of raw signals  *)
(* and a parsed vector that says the same in every place but one.          *)
Offer(version, signals, j, n) ==
    /\ bundle = Nothing
    /\ bundle' = [version |-> version, publicSignals |-> signals,
                  parsed |-> [k \in DOMAIN Layout[version] |->
                                 IF k = j THEN n
                                 ELSE Value(Layout[version][k],
                                            IF k <= Len(signals) THEN signals[k] ELSE 0)]]
    /\ UNCHANGED recorded

Edits(version, j, signals) ==
    IF Layout[version][j] = "flag" THEN BOOLEAN
    ELSE Edit \cup {Value(Layout[version][j], signals[j])}

(* attest, up to what the contract makes of the vector. *)
Submit ==
    /\ bundle # Nothing /\ recorded = Nothing
    /\ Consistent(bundle) /\ Encodable(bundle.publicSignals)
    /\ recorded' = ParseContract(bundle.version, bundle.publicSignals)
    /\ recorded' # Nothing
    /\ UNCHANGED bundle

Vectors(version) ==
    UNION {TupleOf(Text, n) :
               n \in {Len(Layout[version]) - 1, Len(Layout[version])}}

WireNext ==
    \/ /\ bundle = Nothing
       /\ \E version \in Version :
             \E signals \in Vectors(version) :
                \E j \in DOMAIN signals : \E n \in Edits(version, j, signals) :
                   Offer(version, signals, j, n)
    \/ Submit

WireSpec == WireInit /\ [][WireNext]_signalVars

-----------------------------------------------------------------------------
(* The Rust SDK accepts exactly the vectors that the contract accepts,     *)
(* among those that can be encoded at all, reads the same values, and      *)
(* writes the values it has read as the texts it has read them from.       *)
RustAgreesWithContract ==
    bundle # Nothing =>
        LET parsed == ParseRust(bundle.version, bundle.publicSignals)
        IN  /\ Encodable(bundle.publicSignals) =>
                  parsed = ParseContract(bundle.version, bundle.publicSignals)
            /\ parsed # Nothing => EncodeRust(bundle.version, parsed) = bundle.publicSignals

(* Whatever the contract records for a bundle is what the bundle says in   *)
(* `parsed`, the part its owner reads and logs: for v2 and v3 in every     *)
(* field, and encoding that part gives back the signals that were sent;    *)
(* for v1 in the commitment, which is all that is compared.                *)
RecordedAsParsed ==
    recorded # Nothing =>
        IF bundle.version = 1 THEN recorded[2] = bundle.parsed[2]
        ELSE /\ recorded = bundle.parsed
             /\ EncodeTypeScript(bundle.version, bundle.parsed) = bundle.publicSignals

(* The TypeScript parsers of v2 and v3 mirror those of the contract.       *)
TypeScriptMirrorsContract ==
    bundle # Nothing /\ bundle.version > 1 /\ Encodable(bundle.publicSignals) =>
        ParseTypeScript(bundle.version, bundle.publicSignals)
            = ParseContract(bundle.version, bundle.publicSignals)
================================================================================
