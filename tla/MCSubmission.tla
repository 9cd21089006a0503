----------------------------- MODULE MCSubmission -----------------------------
(***************************************************************************)
(* Submission with the default options and four others: a stricter policy  *)
(* (ratio and metadata) without local verification, a policy that lets any *)
(* ratio through, a forgotten verification key, and a key that does not    *)
(* belong to the proving key.  The snapshots lie at the edges of the       *)
(* policy, of the comparison in the circuit and of the field (R = 97).     *)
(***************************************************************************)
EXTENDS Submission

CONSTANTS k1, k2

Figures(balances, liabilities, period) ==
    [balances |-> balances, liabilities |-> liabilities, periodId |-> period,
     metadata |-> period # 97]

MCSnapshot ==
    { Figures(<<10>>, 10, 0),     \* a ratio of exactly 100%
      Figures(<<5, 5>>, 7, 0),    \* 142.8%: 14 rounded down, 15 rounded up
      Figures(<<9>>, 10, 0),      \* insolvent
      Figures(<<10>>, 0, 97),     \* no liabilities; the period is 0 modulo R
      Figures(<<10>>, 101, 1),    \* insolvent, but solvent modulo R
      Figures(<<10>>, 70, 1),     \* too large for the comparison
      Figures(<<10>>, 10, 2) }    \* too large for the contract's period

Opts(ratio, key, verifies) ==
    [minReserveRatioBps |-> ratio, requireMetadata |-> ratio = 15, zkey |-> k1,
     verificationKey |-> key, requireLocalVerification |-> verifies]

MCOptions ==
    { Opts(10, k1, TRUE), Opts(15, None, FALSE), Opts(0, k1, TRUE),
      Opts(10, None, TRUE), Opts(10, k2, TRUE) }
===============================================================================
