----------------------------- MODULE MCReconciler -----------------------------
(***************************************************************************)
(* Reconciler with a required and an optional issuer, the first of them    *)
(* listed again as optional, reads that fail at every point, crashes and   *)
(* restarts; and with one issuer alone.                                    *)
(***************************************************************************)
EXTENDS Reconciler

CONSTANTS issuer1, issuer2

MCTargets ==
    << [issuer |-> issuer1, required |-> TRUE], [issuer |-> issuer2, required |-> FALSE],
       [issuer |-> issuer1, required |-> FALSE] >>

MCOneTarget == << [issuer |-> issuer1, required |-> TRUE] >>

===============================================================================
