------------------------------ MODULE MCReadPath ------------------------------
(***************************************************************************)
(* ReadPath with one target, two attempts at a refresh and two at a call,  *)
(* on a chain that grows in two versions.                                  *)
(***************************************************************************)
EXTENDS ReadPath

CONSTANT issuer1

MCTargets == << [issuer |-> issuer1, required |-> TRUE] >>
===============================================================================
