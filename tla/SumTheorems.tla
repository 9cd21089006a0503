------------------------------ MODULE SumTheorems ------------------------------
(***************************************************************************)
(* Facts about recursion and sums over finite sets: that the recursive     *)
(* functions behind the folds of the community modules exist, and what     *)
(* MapThenSumSet does when an element comes, goes or changes.  Induction   *)
(* is over a set: the elements that have the property are the members.     *)
(***************************************************************************)
EXTENDS Integers, FiniteSets, FiniteSetsExt, FiniteSetTheorems, WellFoundedInduction, TLAPS

(* A nonempty set of naturals has a least element. *)
LEMMA LeastNatural ==
    ASSUME NEW T \in SUBSET Nat, T # {}
    PROVE  \E x \in T : \A y \in T : x <= y
<1> DEFINE less == {ss \in Nat \X Nat : ss[1] < ss[2]}
<1>1. IsWellFoundedOn(less, Nat)
  BY NatLessThanWellFounded DEF OpToRel
<1> HIDE DEF less
<1>2. PICK x \in T : \A y \in T : <<y, x>> \notin less
  BY <1>1, WFMin
<1>3. ASSUME NEW y \in T PROVE x <= y
  <2>1. x \in Nat /\ y \in Nat
    OBVIOUS
  <2>2. y < x => <<y, x>> \in less
    BY <2>1 DEF less
  <2> QED
    BY <1>2, <2>1, <2>2
<1> QED
  BY <1>3

(* Induction, for a property given as the set of naturals that have it. *)
LEMMA InductionOnSet ==
    ASSUME NEW H, 0 \in H, \A n \in Nat : n \in H => n + 1 \in H
    PROVE  \A n \in Nat : n \in H
<1> SUFFICES ASSUME NEW n \in Nat, n \notin H PROVE FALSE
  OBVIOUS
<1> DEFINE T == {k \in Nat : k \notin H}
<1>1. PICK x \in T : \A y \in T : x <= y
  BY LeastNatural
<1>2. x - 1 \in Nat /\ x - 1 \notin T
  BY <1>1
<1> QED
  BY <1>1, <1>2

RecursiveOver(S, base, pick, step, g) ==
    g = [s \in SUBSET S |-> IF s = {} THEN base ELSE step[<<s, g[s \ {pick[s]}]>>]]

(* A recursion over the subsets of a finite set, each step of which takes  *)
(* one element away, defines a function.                                   *)
LEMMA SubsetRecursion ==
    ASSUME NEW S, IsFiniteSet(S), NEW V, NEW base \in V,
           NEW pick, \A s \in SUBSET S : s # {} => pick[s] \in s,
           NEW step, \A s \in SUBSET S : \A v \in V : step[<<s, v>>] \in V
    PROVE  \E g \in [SUBSET S -> V] : RecursiveOver(S, base, pick, step, g)
<1> DEFINE Upto(n) == {s \in SUBSET S : Cardinality(s) <= n}
           Rec(g, s) == g[s] = IF s = {} THEN base ELSE step[<<s, g[s \ {pick[s]}]>>]
           H == {n \in Nat : \E g \in [Upto(n) -> V] : \A s \in Upto(n) : Rec(g, s)}
<1>0. \A s \in SUBSET S : IsFiniteSet(s) /\ Cardinality(s) \in Nat
  BY FS_Subset, FS_CardinalityType
<1>00. \A s \in SUBSET S : s # {} =>
          s \ {pick[s]} \in SUBSET S /\ Cardinality(s \ {pick[s]}) = Cardinality(s) - 1
  BY <1>0, FS_RemoveElement
<1>1. 0 \in H
  <2> DEFINE g == [s \in Upto(0) |-> base]
  <2>1. \A s \in Upto(0) : s = {}
    BY <1>0, FS_EmptySet
  <2>2. g \in [Upto(0) -> V] /\ \A s \in Upto(0) : Rec(g, s)
    BY <2>1
  <2> QED
    BY <2>2
<1>2. ASSUME NEW n \in Nat, n \in H PROVE n + 1 \in H
  <2>1. PICK f \in [Upto(n) -> V] : \A s \in Upto(n) : Rec(f, s)
    BY <1>2
  <2> DEFINE g == [s \in Upto(n + 1) |->
                     IF s \in Upto(n) THEN f[s] ELSE step[<<s, f[s \ {pick[s]}]>>]]
  <2>2. ASSUME NEW s \in Upto(n + 1), s # {} PROVE s \ {pick[s]} \in Upto(n)
    BY <1>0, <1>00, <2>2
  <2>3. ASSUME NEW s \in Upto(n + 1) PROVE g[s] \in V /\ Rec(g, s)
    <3>0. /\ s \in SUBSET S /\ g[s] = IF s \in Upto(n) THEN f[s] ELSE step[<<s, f[s \ {pick[s]}]>>]
          /\ \A t \in Upto(n) : t \in Upto(n + 1) /\ g[t] = f[t] /\ f[t] \in V
      BY <1>0, <2>1
    <3>00. s \in Upto(n) => f[s] = IF s = {} THEN base ELSE step[<<s, f[s \ {pick[s]}]>>]
      BY <2>1
    <3>000. s = {} => s \in Upto(n)
      BY FS_EmptySet
    <3> HIDE DEF g, Upto
    <3>1. CASE s = {}
      BY <3>0, <3>00, <3>000, <3>1
    <3>2. CASE s # {}
      <4>1. s \ {pick[s]} \in Upto(n) /\ g[s \ {pick[s]}] = f[s \ {pick[s]}]
            /\ f[s \ {pick[s]}] \in V
        BY <2>2, <3>0, <3>2
      <4>2. g[s] = step[<<s, f[s \ {pick[s]}]>>]
        BY <3>0, <3>00, <3>2
      <4>3. g[s] \in V
        BY <3>0, <4>1, <4>2
      <4> QED
        BY <3>2, <4>1, <4>2, <4>3
    <3> QED
      BY <3>1, <3>2
  <2>4. g \in [Upto(n + 1) -> V]
    BY <2>3
  <2> HIDE DEF g
  <2>5. \A s \in Upto(n + 1) : Rec(g, s)
    BY <2>3
  <2>6. \E h \in [Upto(n + 1) -> V] : \A s \in Upto(n + 1) : Rec(h, s)
    <3> HIDE DEF Upto, Rec
    <3> QED
      BY <2>4, <2>5
  <2> HIDE DEF Upto, Rec
  <2>7. n + 1 \in Nat
    OBVIOUS
  <2> QED
    BY <2>6, <2>7
<1>3. Cardinality(S) \in H
  <2> HIDE DEF H
  <2>1. \A n \in Nat : n \in H
    BY <1>1, <1>2, InductionOnSet
  <2> QED
    BY <2>1, <1>0
<1>4. PICK g \in [Upto(Cardinality(S)) -> V] : \A s \in Upto(Cardinality(S)) : Rec(g, s)
  BY <1>3
<1>5. Upto(Cardinality(S)) = SUBSET S
  BY FS_Subset
<1>6. g \in [SUBSET S -> V] /\ \A s \in SUBSET S : Rec(g, s)
  BY <1>4, <1>5
<1>7. g = [s \in SUBSET S |-> g[s]]
  BY <1>6
<1> HIDE DEF Upto
<1>8. [s \in SUBSET S |-> g[s]] =
      [s \in SUBSET S |-> IF s = {} THEN base ELSE step[<<s, g[s \ {pick[s]}]>>]]
  BY <1>6
<1> QED
  BY <1>6, <1>7, <1>8 DEF RecursiveOver

-----------------------------------------------------------------------------
(* MapThenSumSet of a function of a finite set to the integers.            *)
SumOver(f, S) == MapThenSumSet(LAMBDA x : f[x], S)

SumStep(f, S, g) ==
    g = [s \in SUBSET S |->
           IF s = {} THEN 0
           ELSE f[CHOOSE x \in s : TRUE] + g[s \ {CHOOSE x \in s : TRUE}]]

(* A sum is the recursive function it steps by.                           *)
LEMMA SumUnfolds == \A f, S : SumOver(f, S) = (CHOOSE g : SumStep(f, S, g))[S]
BY DEF SumOver, MapThenSumSet, MapThenFoldSet, SumStep

(* There is a function that steps as a sum does.                          *)
LEMMA SumExists ==
    ASSUME NEW S, IsFiniteSet(S), NEW f, \A x \in S : f[x] \in Int
    PROVE  \E g \in [SUBSET S -> Int] : SumStep(f, S, g)
<1> DEFINE pick == [s \in SUBSET S |-> CHOOSE x \in s : TRUE]
           step == [p \in (SUBSET S) \X Int |->
                      IF p[1] = {} THEN 0 ELSE f[pick[p[1]]] + p[2]]
<1>1. \A s \in SUBSET S : s # {} => pick[s] \in s
  OBVIOUS
<1>2. \A s \in SUBSET S : s # {} => f[pick[s]] \in Int
  BY <1>1
<1>3. ASSUME NEW s \in SUBSET S, NEW v \in Int
      PROVE  /\ s # {} => step[<<s, v>>] = f[pick[s]] + v
             /\ step[<<s, v>>] \in Int
  <2> HIDE DEF pick
  <2>1. step[<<s, v>>] = IF s = {} THEN 0 ELSE f[pick[s]] + v
    OBVIOUS
  <2> HIDE DEF step
  <2>2. CASE s = {}
    BY <2>1, <2>2
  <2>3. CASE s # {}
    BY <1>2, <2>1, <2>3
  <2> QED
    BY <2>2, <2>3
<1> HIDE DEF step
<1>4. PICK g \in [SUBSET S -> Int] : RecursiveOver(S, 0, pick, step, g)
  <2> HIDE DEF pick
  <2> DEFINE V == Int
  <2>1. (\A s \in SUBSET S : \A v \in V : step[<<s, v>>] \in V) /\ 0 \in V
    BY <1>3
  <2> HIDE DEF V
  <2>2. \E g \in [SUBSET S -> V] : RecursiveOver(S, 0, pick, step, g)
    BY <1>1, <2>1, SubsetRecursion
  <2> QED
    BY <2>2 DEF V
<1>5. \A s \in SUBSET S : s # {} =>
         step[<<s, g[s \ {pick[s]}]>>] = f[pick[s]] + g[s \ {pick[s]}]
  <2> HIDE DEF pick
  <2> QED
    BY <1>3
<1>6. SumStep(f, S, g)
  <2>1. g = [s \in SUBSET S |-> IF s = {} THEN 0 ELSE step[<<s, g[s \ {pick[s]}]>>]]
    BY <1>4 DEF RecursiveOver
  <2> HIDE DEF pick
  <2>2. g = [s \in SUBSET S |-> IF s = {} THEN 0 ELSE f[pick[s]] + g[s \ {pick[s]}]]
    BY <1>5, <2>1
  <2> QED
    BY <2>2 DEF SumStep, pick
<1> QED
  BY <1>6

(* Induction on the size of a finite set, for a property given as a set.   *)
LEMMA InductionOnSize ==
    ASSUME NEW S, IsFiniteSet(S), NEW H,
           \A s \in SUBSET S : (\A t \in SUBSET s : t # s => t \in H) => s \in H
    PROVE  \A s \in SUBSET S : s \in H
<1> DEFINE K == {n \in Nat : \A s \in SUBSET S : Cardinality(s) < n => s \in H}
<1>0. \A s \in SUBSET S : IsFiniteSet(s) /\ Cardinality(s) \in Nat
  BY FS_Subset, FS_CardinalityType
<1>1. 0 \in K
  BY <1>0
<1>2. ASSUME NEW n \in Nat, n \in K PROVE n + 1 \in K
  <2>1. ASSUME NEW s \in SUBSET S, Cardinality(s) < n + 1 PROVE s \in H
    <3>1. ASSUME NEW t \in SUBSET s, t # s PROVE t \in H
      <4>1. Cardinality(t) <= Cardinality(s) /\ Cardinality(t) # Cardinality(s)
        BY <1>0, <3>1, FS_Subset
      <4>2. Cardinality(t) < n /\ t \in SUBSET S
        BY <1>0, <2>1, <4>1
      <4> QED
        BY <1>2, <4>2
    <3> QED
      BY <3>1
  <2> QED
    BY <2>1
<1>3. \A n \in Nat : n \in K
  <2> HIDE DEF K
  <2> QED
    BY <1>1, <1>2, InductionOnSet
<1>4. ASSUME NEW s \in SUBSET S PROVE s \in H
  <2>1. Cardinality(s) + 1 \in K /\ Cardinality(s) < Cardinality(s) + 1
    BY <1>0, <1>3
  <2> QED
    BY <2>1
<1> QED
  BY <1>4

(* The equation determines the sums, whatever set they are computed for.   *)
LEMMA SumUnique ==
    ASSUME NEW S, IsFiniteSet(S), NEW T, NEW f, NEW g, NEW h,
           SumStep(f, S, g), SumStep(f, T, h)
    PROVE  \A s \in SUBSET S : s \in SUBSET T => g[s] = h[s]
<1> DEFINE H == {s \in SUBSET S : s \in SUBSET T => g[s] = h[s]}
<1>1. ASSUME NEW s \in SUBSET S, \A t \in SUBSET s : t # s => t \in H
      PROVE  s \in H
  <2> SUFFICES ASSUME s \in SUBSET T PROVE g[s] = h[s]
    OBVIOUS
  <2> DEFINE x == CHOOSE y \in s : TRUE
  <2>1. /\ g[s] = IF s = {} THEN 0 ELSE f[x] + g[s \ {x}]
        /\ h[s] = IF s = {} THEN 0 ELSE f[x] + h[s \ {x}]
    BY DEF SumStep
  <2>2. s # {} => x \in s
    OBVIOUS
  <2> HIDE DEF x
  <2>3. s # {} => s \ {x} \in SUBSET s /\ s \ {x} # s /\ s \ {x} \in SUBSET T
    BY <2>2
  <2>4. s # {} => g[s \ {x}] = h[s \ {x}]
    BY <1>1, <2>3
  <2> QED
    BY <2>1, <2>4
<1> HIDE DEF H
<1>2. \A s \in SUBSET S : s \in H
  BY <1>1, InductionOnSize
<1> QED
  BY <1>2 DEF H

(* The equation of MapThenSumSet, and its type.                            *)
LEMMA SumEquation ==
    ASSUME NEW S, IsFiniteSet(S), NEW f, \A x \in S : f[x] \in Int
    PROVE  /\ SumOver(f, S) \in Int
           /\ S = {} => SumOver(f, S) = 0
           /\ S # {} => \E x \in S : SumOver(f, S) = f[x] + SumOver(f, S \ {x})
<1>1. PICK g \in [SUBSET S -> Int] : SumStep(f, S, g)
  BY SumExists
<1>2. ASSUME NEW s \in SUBSET S PROVE SumOver(f, s) = g[s]
  <2> DEFINE h == CHOOSE h : SumStep(f, s, h)
  <2>1. IsFiniteSet(s) /\ \A x \in s : f[x] \in Int
    BY FS_Subset
  <2>2. SumStep(f, s, h)
    BY <2>1, SumExists
  <2>3. SumOver(f, s) = h[s]
    BY SumUnfolds
  <2> HIDE DEF h
  <2>4. g[s] = h[s]
    BY <1>1, <2>1, <2>2, SumUnique
  <2> QED
    BY <2>3, <2>4
<1> DEFINE x == CHOOSE x \in S : TRUE
<1>3. g[S] = IF S = {} THEN 0 ELSE f[x] + g[S \ {x}]
  BY <1>1 DEF SumStep
<1>4. S # {} => x \in S
  OBVIOUS
<1> HIDE DEF x
<1> QED
  BY <1>1, <1>2, <1>3, <1>4

(* A sum is what any one of its terms adds to the sum of the others.       *)
LEMMA SumPeels ==
    ASSUME NEW S, IsFiniteSet(S), NEW f, \A x \in S : f[x] \in Int, NEW y \in S
    PROVE  SumOver(f, S) = f[y] + SumOver(f, S \ {y})
<1> DEFINE H == {s \in SUBSET S :
                   \A u \in s : SumOver(f, s) = f[u] + SumOver(f, s \ {u})}
<1>0. ASSUME NEW s \in SUBSET S
      PROVE  /\ IsFiniteSet(s) /\ SumOver(f, s) \in Int
             /\ s # {} => \E x \in s : SumOver(f, s) = f[x] + SumOver(f, s \ {x})
  <2>1. IsFiniteSet(s) /\ \A x \in s : f[x] \in Int
    BY FS_Subset
  <2> QED
    BY <2>1, SumEquation
<1>1. ASSUME NEW s \in SUBSET S, \A t \in SUBSET s : t # s => t \in H
      PROVE  s \in H
  <2>1. ASSUME NEW u \in s PROVE SumOver(f, s) = f[u] + SumOver(f, s \ {u})
    <3>1. PICK x \in s : SumOver(f, s) = f[x] + SumOver(f, s \ {x})
      BY <1>0, <2>1
    <3>2. CASE x = u
      BY <3>1, <3>2
    <3>3. CASE x # u
      <4>1. s \ {x} \in H /\ s \ {u} \in H
        BY <1>1, <2>1
      <4>2. /\ SumOver(f, s \ {x}) = f[u] + SumOver(f, (s \ {x}) \ {u})
            /\ SumOver(f, s \ {u}) = f[x] + SumOver(f, (s \ {u}) \ {x})
        BY <3>3, <4>1
      <4>3. (s \ {x}) \ {u} = (s \ {u}) \ {x} /\ (s \ {u}) \ {x} \in SUBSET S
        OBVIOUS
      <4>4. SumOver(f, (s \ {u}) \ {x}) \in Int /\ f[x] \in Int /\ f[u] \in Int
        BY <1>0, <4>3
      <4>5. SumOver(f, (s \ {x}) \ {u}) = SumOver(f, (s \ {u}) \ {x})
        BY <4>3
      <4> DEFINE rest == SumOver(f, (s \ {u}) \ {x})
      <4>6. /\ rest \in Int /\ SumOver(f, s \ {x}) = f[u] + rest
            /\ SumOver(f, s \ {u}) = f[x] + rest
        BY <4>2, <4>4, <4>5
      <4> HIDE DEF rest
      <4>7. f[x] + (f[u] + rest) = f[u] + (f[x] + rest)
        BY <4>4, <4>6
      <4> QED
        BY <3>1, <4>6, <4>7
    <3> QED
      BY <3>2, <3>3
  <2> QED
    BY <2>1
<1> HIDE DEF H
<1>2. S \in H
  BY <1>1, InductionOnSize
<1> QED
  BY <1>2 DEF H

(* A sum of naturals is a natural, and grows with the set.                 *)
LEMMA SumMonotone ==
    ASSUME NEW S, IsFiniteSet(S), NEW f, \A x \in S : f[x] \in Nat
    PROVE  \A T \in SUBSET S :
              SumOver(f, T) \in Nat /\ SumOver(f, T) <= SumOver(f, S)
<1> DEFINE H == {s \in SUBSET S : /\ SumOver(f, s) \in Nat
                                  /\ \A t \in SUBSET s : SumOver(f, t) <= SumOver(f, s)}
<1>0. \A s \in SUBSET S : IsFiniteSet(s) /\ \A x \in s : f[x] \in Int
  BY FS_Subset
<1>1. ASSUME NEW s \in SUBSET S, \A t \in SUBSET s : t # s => t \in H
      PROVE  s \in H
  <2>1. ASSUME NEW y \in s
        PROVE  /\ SumOver(f, s) = f[y] + SumOver(f, s \ {y})
               /\ SumOver(f, s \ {y}) \in Nat /\ f[y] \in Nat
               /\ \A t \in SUBSET (s \ {y}) : SumOver(f, t) <= SumOver(f, s \ {y})
    <3>1. s \ {y} \in H
      BY <1>1, <2>1
    <3> QED
      BY <1>0, <3>1, SumPeels
  <2>2. SumOver(f, s) \in Nat
    <3>1. CASE s = {}
      <4>1. SumOver(f, s) = 0
        BY <1>0, <3>1, SumEquation
      <4> QED
        BY <4>1
    <3>2. CASE s # {}
      <4>1. PICK y \in s : SumOver(f, s) = f[y] + SumOver(f, s \ {y})
        BY <2>1, <3>2
      <4>2. f[y] \in Nat /\ SumOver(f, s \ {y}) \in Nat
        BY <2>1
      <4> QED
        BY <4>1, <4>2
    <3> QED
      BY <3>1, <3>2
  <2>3. ASSUME NEW t \in SUBSET s PROVE SumOver(f, t) <= SumOver(f, s)
    <3>1. CASE t = s
      BY <2>2, <3>1
    <3>2. CASE t # s
      <4>1. PICK y \in s : t \in SUBSET (s \ {y})
        BY <3>2
      <4>2. /\ SumOver(f, s) = f[y] + SumOver(f, s \ {y})
            /\ SumOver(f, s \ {y}) \in Nat /\ f[y] \in Nat
            /\ SumOver(f, t) <= SumOver(f, s \ {y})
        BY <2>1, <4>1
      <4>3. t \in H
        BY <1>1, <3>2
      <4>4. SumOver(f, t) \in Nat
        BY <4>3
      <4> QED
        BY <4>2, <4>4
    <3> QED
      BY <3>1, <3>2
  <2> QED
    BY <2>2, <2>3
<1> HIDE DEF H
<1>2. \A s \in SUBSET S : s \in H
  BY <1>1, InductionOnSize
<1>3. S \in H
  BY <1>2
<1> QED
  BY <1>2, <1>3 DEF H

(* Equal terms have equal sums. *)
LEMMA SumSame ==
    ASSUME NEW S, IsFiniteSet(S), NEW f, NEW g,
           \A x \in S : f[x] \in Int /\ g[x] = f[x]
    PROVE  SumOver(g, S) = SumOver(f, S)
<1> DEFINE H == {s \in SUBSET S : SumOver(g, s) = SumOver(f, s)}
<1>1. ASSUME NEW s \in SUBSET S, \A t \in SUBSET s : t # s => t \in H
      PROVE  s \in H
  <2>0. IsFiniteSet(s) /\ (\A x \in s : f[x] \in Int) /\ (\A x \in s : g[x] \in Int)
    BY FS_Subset
  <2>1. CASE s = {}
    <3>1. SumOver(f, s) = 0 /\ SumOver(g, s) = 0
      BY <2>0, <2>1, SumEquation
    <3> QED
      BY <3>1
  <2>2. CASE s # {}
    <3>1. PICK y \in s : SumOver(f, s) = f[y] + SumOver(f, s \ {y})
      BY <2>0, <2>2, SumEquation
    <3>2. SumOver(g, s) = g[y] + SumOver(g, s \ {y})
      BY <2>0, SumPeels
    <3>3. SumOver(g, s \ {y}) = SumOver(f, s \ {y}) /\ g[y] = f[y]
      BY <1>1
    <3> QED
      BY <3>1, <3>2, <3>3
  <2> QED
    BY <2>1, <2>2
<1> HIDE DEF H
<1>2. S \in H
  BY <1>1, InductionOnSize
<1> QED
  BY <1>2 DEF H

(* A sum after one of its terms has changed.                               *)
LEMMA SumUpdate ==
    ASSUME NEW S, IsFiniteSet(S), NEW f, NEW g, NEW y \in S, g[y] \in Int,
           \A x \in S : f[x] \in Int, \A x \in S : x # y => g[x] = f[x]
    PROVE  SumOver(g, S) = SumOver(f, S) + (g[y] - f[y])
<1>1. \A x \in S : g[x] \in Int
  OBVIOUS
<1>2. SumOver(f, S) = f[y] + SumOver(f, S \ {y})
  BY SumPeels
<1>3. SumOver(g, S) = g[y] + SumOver(g, S \ {y})
  BY <1>1, SumPeels
<1>4. IsFiniteSet(S \ {y}) /\ \A x \in S \ {y} : f[x] \in Int /\ g[x] = f[x]
  BY FS_Subset
<1>5. SumOver(g, S \ {y}) = SumOver(f, S \ {y})
  BY <1>4, SumSame
<1>6. SumOver(f, S \ {y}) \in Int /\ f[y] \in Int
  BY <1>4, SumEquation
<1> QED
  BY <1>2, <1>3, <1>5, <1>6

(* A sum of nothing but zeros. *)
LEMMA SumOfZeros ==
    ASSUME NEW S, IsFiniteSet(S), NEW f, \A x \in S : f[x] = 0
    PROVE  SumOver(f, S) = 0
<1> DEFINE H == {s \in SUBSET S : SumOver(f, s) = 0}
<1>1. ASSUME NEW s \in SUBSET S, \A t \in SUBSET s : t # s => t \in H
      PROVE  s \in H
  <2>0. IsFiniteSet(s) /\ (\A x \in s : f[x] \in Int)
    BY FS_Subset
  <2>1. CASE s = {}
    BY <2>0, <2>1, SumEquation
  <2>2. CASE s # {}
    <3>1. PICK y \in s : SumOver(f, s) = f[y] + SumOver(f, s \ {y})
      BY <2>0, <2>2, SumEquation
    <3>2. SumOver(f, s \ {y}) = 0 /\ f[y] = 0
      BY <1>1
    <3>3. SumOver(f, s) = 0
      BY <3>1, <3>2
    <3> QED
      BY <3>3
  <2> QED
    BY <2>1, <2>2
<1> HIDE DEF H
<1>2. S \in H
  BY <1>1, InductionOnSize
<1> QED
  BY <1>2 DEF H

-----------------------------------------------------------------------------
(* A set has twice as many subsets with one more element. *)
LEMMA PowerDoubles ==
    ASSUME NEW k \in Nat
    PROVE  2^k \in Nat \ {0} /\ 2^(k + 1) = 2 * 2^k
<1> DEFINE S == 1..k
           T == 1..(k + 1)
           Split == [u \in SUBSET T |-> <<u \cap S, IF k + 1 \in u THEN 1 ELSE 0>>]
<1>1. /\ IsFiniteSet(S) /\ Cardinality(S) = k
      /\ IsFiniteSet(T) /\ Cardinality(T) = k + 1
  BY FS_Interval
<1>2. /\ IsFiniteSet(SUBSET S) /\ Cardinality(SUBSET S) = 2^k
      /\ IsFiniteSet(SUBSET T) /\ Cardinality(SUBSET T) = 2^(k + 1)
  BY <1>1, FS_SUBSET
<1>3. IsFiniteSet({0, 1}) /\ Cardinality({0, 1}) = 2
  <2>1. 1 \notin {0} /\ {0, 1} = {0} \cup {1}
    OBVIOUS
  <2>2. IsFiniteSet({0}) /\ Cardinality({0}) = 1
    BY FS_Singleton
  <2>3. IsFiniteSet({0} \cup {1}) /\ Cardinality({0} \cup {1}) = Cardinality({0}) + 1
    BY <2>1, <2>2, FS_AddElement
  <2> QED
    BY <2>1, <2>2, <2>3
<1>4. /\ IsFiniteSet((SUBSET S) \X {0, 1})
      /\ Cardinality((SUBSET S) \X {0, 1}) = 2^k * 2
  BY <1>2, <1>3, FS_Product
<1>5. Split \in Bijection(SUBSET T, (SUBSET S) \X {0, 1})
  <2>1. T = S \cup {k + 1} /\ (k + 1) \notin S
    OBVIOUS
  <2>2. Split \in [SUBSET T -> (SUBSET S) \X {0, 1}]
    <3>1. ASSUME NEW u \in SUBSET T
          PROVE  <<u \cap S, IF k + 1 \in u THEN 1 ELSE 0>> \in (SUBSET S) \X {0, 1}
      <4> HIDE DEF S, T
      <4> QED
        OBVIOUS
    <3> HIDE DEF S, T
    <3> QED
      BY <3>1
  <2>3. ASSUME NEW u \in SUBSET T, NEW v \in SUBSET T, Split[u] = Split[v] PROVE u = v
    <3> HIDE DEF S, T
    <3>1. /\ u \cap S = v \cap S
          /\ (IF k + 1 \in u THEN 1 ELSE 0) = (IF k + 1 \in v THEN 1 ELSE 0)
      BY <2>3
    <3>2. k + 1 \in u <=> k + 1 \in v
      BY <3>1
    <3> QED
      BY <2>1, <3>1, <3>2
  <2>4. ASSUME NEW x \in SUBSET S, NEW b \in {0, 1}
        PROVE  \E u \in SUBSET T : Split[u] = <<x, b>>
    <3> DEFINE u == IF b = 1 THEN x \cup {k + 1} ELSE x
    <3> HIDE DEF S, T
    <3>1. u \in SUBSET T /\ u \cap S = x /\ (k + 1 \in u <=> b = 1)
      BY <2>1
    <3> HIDE DEF u
    <3>2. (IF k + 1 \in u THEN 1 ELSE 0) = b
      BY <3>1
    <3>3. Split[u] = <<x, b>>
      BY <3>1, <3>2
    <3> QED
      BY <3>1, <3>3
  <2>5. ASSUME NEW y \in (SUBSET S) \X {0, 1} PROVE \E u \in SUBSET T : Split[u] = y
    <3> HIDE DEF S, T, Split
    <3>1. y = <<y[1], y[2]>> /\ y[1] \in SUBSET S /\ y[2] \in {0, 1}
      OBVIOUS
    <3> QED
      BY <2>4, <3>1
  <2> HIDE DEF Split, S, T
  <2> QED
    BY <2>2, <2>3, <2>5 DEF Bijection, Injection, Surjection, IsInjective
<1>6. 2^(k + 1) = 2^k * 2
  BY <1>2, <1>4, <1>5, FS_Bijection DEF ExistsBijection
<1>7. 2^k \in Nat /\ 2^k # 0
  <2>1. 2^k \in Nat
    BY <1>2, FS_CardinalityType
  <2>2. SUBSET S # {}
    OBVIOUS
  <2> QED
    BY <1>2, <2>1, <2>2, FS_EmptySet
<1> QED
  BY <1>6, <1>7

(* Powers of two grow with their exponents.                               *)
LEMMA PowerGrows ==
    ASSUME NEW n \in Nat
    PROVE  \A k \in 0..n : 2^k <= 2^n
<1> DEFINE H == {j \in Nat : \A k \in 0..j : 2^k <= 2^j}
<1>1. 0 \in H
  <2>1. \A k \in 0..0 : k = 0
    OBVIOUS
  <2>2. \A k \in 0..0 : 2^k = 2^0
    BY <2>1
  <2>3. 2^0 \in Nat
    BY PowerDoubles
  <2>4. \A k \in 0..0 : 2^k <= 2^0
    BY <2>2, <2>3
  <2> QED
    BY <2>4
<1>2. ASSUME NEW j \in Nat, j \in H PROVE j + 1 \in H
  <2>1. 2^j \in Nat /\ 2^(j + 1) = 2 * 2^j
    BY PowerDoubles
  <2>2. ASSUME NEW k \in 0..(j + 1) PROVE 2^k <= 2^(j + 1)
    <3>1. CASE k = j + 1
      BY <2>1, <3>1
    <3>2. CASE k \in 0..j
      <4>1. 2^k <= 2^j /\ 2^k \in Nat
        BY <1>2, <3>2, PowerDoubles
      <4> QED
        BY <2>1, <4>1
    <3> QED
      BY <3>1, <3>2
  <2> QED
    BY <2>2
<1> HIDE DEF H
<1>3. n \in H
  BY <1>1, <1>2, InductionOnSet
<1> QED
  BY <1>3 DEF H

(* Summing one term more. *)
LEMMA SumOfInterval ==
    ASSUME NEW n \in Nat, NEW f, \A j \in 1..(n + 1) : f[j] \in Int
    PROVE  SumOver(f, 1..n) \in Int /\ SumOver(f, 1..(n + 1)) = f[n + 1] + SumOver(f, 1..n)
<1>1. n + 1 \in 1..(n + 1) /\ (1..(n + 1)) \ {n + 1} = 1..n
  OBVIOUS
<1>2. IsFiniteSet(1..(n + 1)) /\ IsFiniteSet(1..n)
  BY FS_Interval
<1>3. \A j \in 1..n : f[j] \in Int
  OBVIOUS
<1>4. SumOver(f, 1..(n + 1)) = f[n + 1] + SumOver(f, (1..(n + 1)) \ {n + 1})
  BY <1>1, <1>2, SumPeels
<1>5. SumOver(f, 1..n) \in Int
  BY <1>2, <1>3, SumEquation
<1> QED
  BY <1>1, <1>4, <1>5

(* A sum of n numbers up to m is at most n times m.                        *)
LEMMA SumIsBounded ==
    ASSUME NEW n \in Nat, NEW m \in Nat, NEW f, \A j \in 1..n : f[j] \in 0..m
    PROVE  SumOver(f, 1..n) \in 0..(n * m)
<1> DEFINE H == {k \in Nat : k <= n => SumOver(f, 1..k) \in 0..(k * m)}
<1>1. 0 \in H
  <2>1. 1..0 = {} /\ 0 * m = 0
    OBVIOUS
  <2> QED
    BY <2>1, SumOfZeros, FS_EmptySet
<1>2. ASSUME NEW k \in Nat, k \in H PROVE k + 1 \in H
  <2> SUFFICES ASSUME k + 1 <= n PROVE SumOver(f, 1..(k + 1)) \in 0..((k + 1) * m)
    OBVIOUS
  <2>1. \A j \in 1..(k + 1) : f[j] \in Int
    OBVIOUS
  <2>2. SumOver(f, 1..(k + 1)) = f[k + 1] + SumOver(f, 1..k)
    BY <2>1, SumOfInterval
  <2>3. SumOver(f, 1..k) \in 0..(k * m) /\ f[k + 1] \in 0..m
    BY <1>2
  <2>4. k * m \in Nat /\ (k + 1) * m = k * m + m
    OBVIOUS
  <2> DEFINE lower == k * m
             upper == (k + 1) * m
             part == SumOver(f, 1..k)
             whole == SumOver(f, 1..(k + 1))
  <2>5. lower \in Nat /\ upper = lower + m /\ part \in 0..lower /\ whole = f[k + 1] + part
    BY <2>2, <2>3, <2>4
  <2> HIDE DEF lower, upper, part, whole
  <2>6. whole \in 0..upper
    BY <2>3, <2>5
  <2> QED
    BY <2>6 DEF whole, upper
<1> HIDE DEF H
<1>3. \A k \in Nat : k \in H
  BY <1>1, <1>2, InductionOnSet
<1> QED
  BY <1>3 DEF H

(* Summing a sequence of 2n terms in pairs.                                *)
LEMMA SumOfPairs ==
    ASSUME NEW N \in Nat, NEW f, \A j \in 1..(2 * N) : f[j] \in Int,
           NEW g, \A j \in 1..N : g[j] = f[2 * j - 1] + f[2 * j]
    PROVE  SumOver(g, 1..N) = SumOver(f, 1..(2 * N))
<1> DEFINE H == {n \in Nat : n <= N => SumOver(g, 1..n) = SumOver(f, 1..(2 * n))}
<1>0. \A j \in 1..N : g[j] \in Int
  <2> TAKE j \in 1..N
  <2>1. 2 * j - 1 \in 1..(2 * N) /\ 2 * j \in 1..(2 * N)
    OBVIOUS
  <2>2. f[2 * j - 1] \in Int /\ f[2 * j] \in Int /\ g[j] = f[2 * j - 1] + f[2 * j]
    BY <2>1
  <2> QED
    BY <2>2
<1>1. 0 \in H
  <2>1. 1..0 = {} /\ 1..(2 * 0) = {} /\ IsFiniteSet({})
    BY FS_EmptySet
  <2>2. SumOver(g, {}) = 0 /\ SumOver(f, {}) = 0
    BY <2>1, SumOfZeros
  <2> QED
    BY <2>1, <2>2
<1>2. ASSUME NEW n \in Nat, n \in H PROVE n + 1 \in H
  <2> SUFFICES ASSUME n + 1 <= N PROVE SumOver(g, 1..(n + 1)) = SumOver(f, 1..(2 * (n + 1)))
    OBVIOUS
  <2>1. SumOver(g, 1..n) = SumOver(f, 1..(2 * n))
    BY <1>2
  <2>2. SumOver(g, 1..(n + 1)) = g[n + 1] + SumOver(g, 1..n)
    <3>1. \A j \in 1..(n + 1) : g[j] \in Int
      BY <1>0
    <3> QED
      BY <3>1, SumOfInterval
  <2>3. PICK m \in Nat : m = 2 * n
    OBVIOUS
  <2>4. m + 2 <= 2 * N /\ 2 * (n + 1) = (m + 1) + 1 /\ n + 1 \in 1..N
    BY <2>3
  <2>5. \A j \in 1..((m + 1) + 1) : f[j] \in Int
    BY <2>4
  <2>6. /\ SumOver(f, 1..((m + 1) + 1)) = f[(m + 1) + 1] + SumOver(f, 1..(m + 1))
        /\ f[(m + 1) + 1] \in Int /\ SumOver(f, 1..(m + 1)) \in Int
    BY <2>5, SumOfInterval
  <2>7. /\ SumOver(f, 1..(m + 1)) = f[m + 1] + SumOver(f, 1..m)
        /\ f[m + 1] \in Int /\ SumOver(f, 1..m) \in Int
    <3>1. \A j \in 1..(m + 1) : f[j] \in Int
      BY <2>5
    <3> QED
      BY <3>1, SumOfInterval
  <2>8. g[n + 1] = f[m + 1] + f[(m + 1) + 1]
    <3>1. 2 * (n + 1) - 1 = m + 1
      BY <2>3
    <3> QED
      BY <2>4, <3>1
  <2>9. SumOver(g, 1..n) = SumOver(f, 1..m)
    BY <2>1, <2>3
  <2>10. f[(m + 1) + 1] + (f[m + 1] + SumOver(f, 1..m))
            = (f[m + 1] + f[(m + 1) + 1]) + SumOver(f, 1..m)
    BY <2>6, <2>7
  <2> QED
    BY <2>2, <2>4, <2>6, <2>7, <2>8, <2>9, <2>10
<1> HIDE DEF H
<1>3. N \in H
  BY <1>1, <1>2, InductionOnSet
<1> QED
  BY <1>3 DEF H

(* The same, for sums of a few terms. *)
LEMMA SumOfNext ==
    ASSUME NEW n \in Nat, NEW m, m = n + 1, NEW t, \A j \in 1..m : t[j] \in Int
    PROVE  SumOver(t, 1..m) = t[m] + SumOver(t, 1..n)
BY SumOfInterval

(* A sum over two numbers, written out.                                   *)
LEMMA SumOfTwo ==
    ASSUME NEW t, \A j \in 1..2 : t[j] \in Int
    PROVE  SumOver(t, 1..2) = t[1] + t[2]
<1>1. SumOver(t, 1..0) = 0
  <2>1. 1..0 = {} /\ IsFiniteSet({})
    BY FS_EmptySet
  <2>2. SumOver(t, {}) = 0
    BY <2>1, SumOfZeros
  <2> QED
    BY <2>1, <2>2
<1>2. 1 = 0 + 1 /\ 2 = 1 + 1 /\ \A j \in 1..1 : t[j] \in Int
  OBVIOUS
<1>3. SumOver(t, 1..1) = t[1] + SumOver(t, 1..0)
  BY <1>2, SumOfNext
<1>4. SumOver(t, 1..2) = t[2] + SumOver(t, 1..1)
  BY <1>2, SumOfNext
<1> QED
  BY <1>1, <1>3, <1>4

(* A sum over four numbers, written out.                                  *)
LEMMA SumOfFour ==
    ASSUME NEW t, \A j \in 1..4 : t[j] \in Int
    PROVE  SumOver(t, 1..4) = t[1] + t[2] + t[3] + t[4]
<1>1. SumOver(t, 1..2) = t[1] + t[2]
  BY SumOfTwo
<1>2. 3 = 2 + 1 /\ 4 = 3 + 1 /\ \A j \in 1..3 : t[j] \in Int
  OBVIOUS
<1>3. SumOver(t, 1..3) = t[3] + SumOver(t, 1..2)
  BY <1>2, SumOfNext
<1>4. SumOver(t, 1..4) = t[4] + SumOver(t, 1..3)
  BY <1>2, SumOfNext
<1> QED
  BY <1>1, <1>3, <1>4

-----------------------------------------------------------------------------
(* A finite set of integers has a greatest element, the one Max chooses.   *)
LEMMA MaxIsGreatest ==
    ASSUME NEW S, IsFiniteSet(S), S # {}, \A x \in S : x \in Int
    PROVE  Max(S) \in S /\ \A x \in S : x <= Max(S)
<1> DEFINE H == {s \in SUBSET S : s # {} => \E x \in s : \A y \in s : x >= y}
<1>1. ASSUME NEW s \in SUBSET S, \A t \in SUBSET s : t # s => t \in H
      PROVE  s \in H
  <2> SUFFICES ASSUME s # {} PROVE \E x \in s : \A y \in s : x >= y
    OBVIOUS
  <2>1. PICK z \in s : TRUE
    OBVIOUS
  <2>2. CASE s \ {z} = {}
    <3>1. \A y \in s : y = z
      BY <2>2
    <3>2. \A y \in s : z >= y
      BY <2>1, <3>1
    <3> QED
      BY <2>1, <3>2
  <2>3. CASE s \ {z} # {}
    <3>1. s \ {z} \in H
      BY <1>1, <2>1
    <3>2. PICK x \in s \ {z} : \A y \in s \ {z} : x >= y
      BY <2>3, <3>1
    <3>3. (\A y \in s : x >= y) \/ (\A y \in s : z >= y)
      <4>1. x \in Int /\ z \in Int
        BY <2>1, <3>2
      <4> QED
        BY <3>2, <4>1
    <3> QED
      BY <2>1, <3>2, <3>3
  <2> QED
    BY <2>2, <2>3
<1> HIDE DEF H
<1>2. S \in H
  BY <1>1, InductionOnSize
<1>3. PICK x \in S : \A y \in S : x >= y
  BY <1>2 DEF H
<1>4. Max(S) \in S /\ \A y \in S : Max(S) >= y
  BY <1>3 DEF Max
<1> QED
  BY <1>4
================================================================================
