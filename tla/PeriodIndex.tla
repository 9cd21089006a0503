------------------------------ MODULE PeriodIndex ------------------------------
(***************************************************************************)
(* What an indexer relies on from the attestation contract: lines          *)
(* <<version, issuer, period>> are only ever added, and list_periods names *)
(* the periods of an issuer's lines, in the order in which they were       *)
(* added, whatever their version.  StellarisContract implements this.      *)
(***************************************************************************)
EXTENDS Sequences

CONSTANTS Version, Address, Period

VARIABLES
    lines,     \* the attestations that can be read
    periods    \* list_periods, by issuer

Init ==
    /\ lines = {}
    /\ periods = [issuer \in Address |-> << >>]

Attest(v, issuer, p) ==
    /\ <<v, issuer, p>> \notin lines
    /\ lines' = lines \cup {<<v, issuer, p>>}
    /\ periods' = [periods EXCEPT ![issuer] = Append(@, p)]

Next == \E v \in Version, issuer \in Address, p \in Period : Attest(v, issuer, p)

Spec == Init /\ [][Next]_<<lines, periods>>

===============================================================================
