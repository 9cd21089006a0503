---------------------------- MODULE SolvencyLedger ----------------------------
(***************************************************************************)
(* What the attestation contract promises its readers, with no signals,    *)
(* proofs, oracles or error codes: a book with one line per statement      *)
(* version, issuer and reporting period.  A line is written once, with a   *)
(* claim of solvency that is provable under the one key adopted for its    *)
(* version; keys and lines never change.                                   *)
(***************************************************************************)
EXTENDS Naturals, Sequences

CONSTANTS Version, Address, Period, VerificationKey, None,
          Provable          \* Provable[k]: the statements provable under k

Line == Version \X Address \X Period

(* The statements under k that assert solvency for period p. *)
SolvencyClaims(k, p) == {c \in Provable[k] : c[1] = 1 /\ c[Len(c)] = p}

VARIABLES key, book

Init ==
    /\ key = [v \in Version |-> None]
    /\ book = [l \in Line |-> None]

AdoptKey(v, k) ==
    /\ key[v] = None
    /\ key' = [key EXCEPT ![v] = k]
    /\ UNCHANGED book

WriteLine(v, issuer, p) ==
    /\ key[v] # None
    /\ book[<<v, issuer, p>>] = None
    /\ \E c \in SolvencyClaims(key[v], p) :
          book' = [book EXCEPT ![<<v, issuer, p>>] = c]
    /\ UNCHANGED key

Next ==
    \/ \E v \in Version, k \in VerificationKey : AdoptKey(v, k)
    \/ \E v \in Version, issuer \in Address, p \in Period : WriteLine(v, issuer, p)

Spec == Init /\ [][Next]_<<key, book>>

=============================================================================
