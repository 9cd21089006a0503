----------------------------- MODULE MCCheckpoint -----------------------------
(***************************************************************************)
(* Two processes with one checkpoint file, saving lists of different       *)
(* lengths at the same time, dying in the middle, and restarting.          *)
(***************************************************************************)
EXTENDS Checkpoint, TLC

CONSTANTS process1, process2, issuer1, issuer2, contract1, contract2

MCSymmetry == Permutations({process1, process2})
===============================================================================
