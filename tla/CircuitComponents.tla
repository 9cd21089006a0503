--------------------------- MODULE CircuitComponents ---------------------------
(***************************************************************************)
(* The arithmetic that the circuits share.  A signal is a field element, a *)
(* natural number below P.  A width of n bits is given by its limit 2^n.   *)
(* An instance of a template constrains its signals: the assignment of an  *)
(* adversarial prover either satisfies the constraint or yields no proof.  *)
(***************************************************************************)
EXTENDS Integers

CONSTANTS
    P,          \* order of the scalar field
    BalLimit,   \* 2^balBits, and 2^resBits: what a balance is below
    None

ASSUME OrderAssumption == P \in Nat \ {0}

Field == 0..(P - 1)

FieldAdd(x, y) == (x + y) % P
FieldMul(x, y) == (x * y) % P

(* RangeCheck: x has a decomposition into the bits of the width.  (It has  *)
(* at most one, because limits are below P.)                               *)
RangeCheck(limit, x) == x < limit

(* circomlib's GreaterEqThan(x, y) is LessThan(y, x + 1): y + 2^n - x - 1  *)
(* is decomposed into n + 1 bits, and the result is the negated top bit.   *)
Difference(limit, x, y) == (y + limit - (x + 1)) % P

GteSatisfiable(limit, x, y) == Difference(limit, x, y) < 2 * limit

GteOut(limit, x, y) == Difference(limit, x, y) < limit
================================================================================
