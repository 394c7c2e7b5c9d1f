------------------------------ MODULE Extrema ------------------------------
(* Least and greatest elements: what makes a CHOOSE of an earliest file, a  *)
(* nearest frame or a preferred variable well defined.  That the order of   *)
(* the naturals is well founded stands in for induction: the element that a *)
(* proof looks for is that of a least counterexample.  So it is with a sum  *)
(* over a finite set, whose recursion has a solution (SumIsDefined) that is *)
(* the same in any order (SumSplits).  And the bounds of a quotient: the    *)
(* provers multiply badly, so that proofs about scales use the products     *)
(* that bound a quotient instead of it.                                     *)
EXTENDS Integers, FiniteSets, FiniteSetsExt, FiniteSetTheorems, FunctionTheorems, WellFoundedInduction, TLAPS

(* A nonempty set of naturals has a least element.                          *)
THEOREM LeastNatural ==
    ASSUME NEW S, S \subseteq Nat, S # {}
    PROVE  \E n \in S : \A m \in S : n <= m
  <1>1. PICK R : /\ IsWellFoundedOn(R, Nat)
                 /\ \A m, n \in Nat : m < n => <<m, n>> \in R
    <2>1. IsWellFoundedOn(OpToRel(<, Nat), Nat)
      BY NatLessThanWellFounded
    <2>2. \A m, n \in Nat : m < n => <<m, n>> \in OpToRel(<, Nat)
      BY DEF OpToRel
    <2> QED BY <2>1, <2>2, Zenon
  <1>2. PICK n \in S : \A m \in S : ~(<<m, n>> \in R)
    <2>1. IsWellFoundedOn(R, Nat)
      BY <1>1
    <2> QED BY <2>1, WFMin
  <1>3. ASSUME NEW m \in S PROVE n <= m
    <2>1. m \in Nat /\ n \in Nat
      OBVIOUS
    <2>2. ~(m < n)
      BY <1>1, <1>2, <2>1, Zenon
    <2> QED BY <2>1, <2>2
  <1> QED BY <1>3

(* A nonempty finite set on which f is an integer has an element where f is *)
(* greatest: of the sets that have none, one of least size would have one.  *)
THEOREM FiniteMaximum ==
    ASSUME NEW T, IsFiniteSet(T), T # {}, NEW f, \A x \in T : f[x] \in Int
    PROVE  \E x \in T : \A y \in T : f[x] >= f[y]
  <1> DEFINE HasNone(S) == S # {} /\ \A x \in S : \E y \in S : ~(f[x] >= f[y])
             Sizes == {n \in Nat : \E S \in SUBSET T : HasNone(S) /\ Cardinality(S) = n}
  <1> SUFFICES ASSUME HasNone(T) PROVE FALSE
    OBVIOUS
  <1>1. Sizes # {}
    <2>1. Cardinality(T) \in Nat
      BY FS_CardinalityType
    <2> QED BY <2>1
  <1>2. PICK n \in Sizes : \A m \in Sizes : n <= m
    BY <1>1, LeastNatural
  <1>3. PICK S \in SUBSET T : HasNone(S) /\ Cardinality(S) = n
    OBVIOUS
  <1>4. IsFiniteSet(S)
    BY FS_Subset
  <1>5. PICK x \in S : TRUE
    BY <1>3
  <1> DEFINE rest == S \ {x}
  <1>6. /\ IsFiniteSet(rest) /\ Cardinality(rest) = n - 1 /\ Cardinality(rest) \in Nat
    BY <1>3, <1>4, <1>5, FS_RemoveElement, FS_CardinalityType
  <1>7. ~HasNone(rest)
    <2>1. HasNone(rest) => n - 1 \in Sizes
      BY <1>6
    <2> QED BY <2>1, <1>2, <1>6
  <1>8. CASE rest = {}
    <2>1. S = {x}
      BY <1>8, <1>5
    <2>2. f[x] >= f[x]
      BY <1>5
    <2> QED BY <2>1, <2>2, <1>3
  <1>9. CASE rest # {}
    <2>1. PICK z \in rest : \A y \in rest : f[z] >= f[y]
      BY <1>7, <1>9
    <2>2. f[x] \in Int /\ f[z] \in Int /\ \A y \in rest : f[y] \in Int
      BY <1>5, <2>1
    <2>3. CASE f[x] >= f[z]
      <3>1. \A y \in S : f[x] >= f[y]
        BY <2>1, <2>2, <2>3
      <3> QED BY <3>1, <1>3, <1>5
    <2>4. CASE ~(f[x] >= f[z])
      <3>1. \A y \in S : f[z] >= f[y]
        BY <2>1, <2>2, <2>4
      <3> QED BY <3>1, <1>3, <2>1
    <2> QED BY <2>3, <2>4
  <1> QED BY <1>8, <1>9

(* A total order R numbers the elements of a finite set: every rank from 1  *)
(* to the size of the set is that of exactly one element, where the rank of *)
(* an element is the number of those up to it.  So a sequence of the        *)
(* elements by rank is the set, sorted.                                     *)
THEOREM RanksNumber ==
    ASSUME NEW S, IsFiniteSet(S), NEW R,
           \A x \in S : <<x, x>> \in R,
           \A x, y \in S : <<x, y>> \in R \/ <<y, x>> \in R,
           \A x, y \in S : <<x, y>> \in R /\ <<y, x>> \in R => x = y,
           \A x, y, z \in S : <<x, y>> \in R /\ <<y, z>> \in R => <<x, z>> \in R
    PROVE  LET Upto(p) == {q \in S : <<q, p>> \in R}
           IN  /\ Cardinality(S) \in Nat
               /\ \A p \in S : Cardinality(Upto(p)) \in 1 .. Cardinality(S)
               /\ \A i \in 1 .. Cardinality(S) : \E p \in S : Cardinality(Upto(p)) = i
               /\ \A p, q \in S :
                    <<p, q>> \in R <=> Cardinality(Upto(p)) <= Cardinality(Upto(q))
  <1> DEFINE Upto(p) == {q \in S : <<q, p>> \in R}
             n == Cardinality(S)
  <1>1. n \in Nat
    BY FS_CardinalityType
  <1>2. ASSUME NEW p \in S
        PROVE  Cardinality(Upto(p)) \in 1 .. n /\ IsFiniteSet(Upto(p))
    <2>1. /\ IsFiniteSet(Upto(p)) /\ Cardinality(Upto(p)) <= n
          /\ Cardinality(Upto(p)) \in Nat
      BY FS_Subset, FS_CardinalityType
    <2>2. Upto(p) # {}
      OBVIOUS
    <2>3. Cardinality(Upto(p)) # 0
      BY <2>1, <2>2, FS_EmptySet
    <2> HIDE DEF Upto, n
    <2> QED BY <1>1, <2>1, <2>3
  <1>3. ASSUME NEW p \in S, NEW q \in S, <<p, q>> \in R, p # q
        PROVE  Cardinality(Upto(p)) < Cardinality(Upto(q))
    <2>1. Upto(p) \in SUBSET Upto(q)
      BY <1>3
    <2>2. q \in Upto(q) /\ q \notin Upto(p)
      BY <1>3
    <2>3. /\ Cardinality(Upto(p)) <= Cardinality(Upto(q))
          /\ Cardinality(Upto(p)) # Cardinality(Upto(q))
      BY <1>2, <2>1, <2>2, FS_Subset
    <2>4. Cardinality(Upto(p)) \in Nat /\ Cardinality(Upto(q)) \in Nat
      BY <1>1, <1>2
    <2> HIDE DEF Upto
    <2> QED BY <2>3, <2>4
  <1> DEFINE f == [p \in S |-> Cardinality(Upto(p))]
  <1>4. \A p, q \in S : f[p] = f[q] => p = q
    <2> SUFFICES ASSUME NEW p \in S, NEW q \in S, f[p] = f[q], p # q PROVE FALSE
      OBVIOUS
    <2>1. f[p] \in Nat /\ f[q] \in Nat
      BY <1>1, <1>2
    <2>2. f[p] < f[q] \/ f[q] < f[p]
      <3>1. f[p] = Cardinality(Upto(p)) /\ f[q] = Cardinality(Upto(q))
        OBVIOUS
      <3>2. CASE <<p, q>> \in R
        BY <1>3, <3>1, <3>2
      <3>3. CASE <<q, p>> \in R
        BY <1>3, <3>1, <3>3
      <3> QED BY <3>2, <3>3
    <2> HIDE DEF f
    <2> QED BY <2>1, <2>2
  <1>5. f \in Injection(S, 1 .. n)
    BY <1>2, <1>4, Fun_IsInj
  <1>6. f \in Surjection(S, 1 .. n)
    <2>1. IsFiniteSet(1 .. n) /\ Cardinality(1 .. n) = n
      BY <1>1, FS_Interval
    <2>2. Cardinality(S) = Cardinality(1 .. n)
      BY <2>1
    <2> HIDE DEF f, n
    <2>3. (Cardinality(S) = Cardinality(1 .. n)) <=> f \in Surjection(S, 1 .. n)
      BY <1>5, <2>1, FS_Injection
    <2> QED BY <2>2, <2>3
  <1>7. \A i \in 1 .. n : \E p \in S : f[p] = i
    <2> HIDE DEF f, n
    <2> QED BY <1>6, Fun_SurjectionProperties
  <1>8. ASSUME NEW p \in S, NEW q \in S
        PROVE  <<p, q>> \in R <=> f[p] <= f[q]
    <2>1. f[p] \in Nat /\ f[q] \in Nat
      BY <1>1, <1>2
    <2>2. <<p, q>> \in R /\ p # q => f[p] < f[q]
      BY <1>3
    <2>3. <<q, p>> \in R /\ p # q => f[q] < f[p]
      BY <1>3
    <2>4. (<<p, q>> \in R \/ <<q, p>> \in R) /\ <<p, p>> \in R
      OBVIOUS
    <2> HIDE DEF f
    <2> QED BY <2>1, <2>2, <2>3, <2>4
  <1> QED BY <1>1, <1>2, <1>7, <1>8

(* f adds up h over the subsets of T, taking away c[s] of each s first.       *)
Accumulates(f, T, h, c) ==
    /\ f[{}] = 0
    /\ \A s \in SUBSET T : s # {} => f[s] = h[c[s]] + f[s \ {c[s]}]

Picks(c, T) == \A s \in SUBSET T : s # {} => c[s] \in s

(* A recursion over the subsets of a finite set has a solution: take away an *)
(* element of each, add its number to what is said of the rest.              *)
LEMMA SumIsDefined ==
    ASSUME NEW T, IsFiniteSet(T), NEW h, NEW c, Picks(c, T)
    PROVE  \E f : Accumulates(f, T, h, c)
  <1> DEFINE one(s) == c[s]
             step(g) == [s \in SUBSET T |-> IF s = {} THEN 0 ELSE h[one(s)] + g[s \ {one(s)}]]
             upto(n) == {s \in SUBSET T : Cardinality(s) <= n}
             Solves(g, n) == /\ g = [s \in SUBSET T |-> g[s]]
                             /\ \A s \in upto(n) : g[s] = step(g)[s]
             Unsolved == {n \in Nat : ~\E g : Solves(g, n)}
  <1>1. ASSUME NEW s \in SUBSET T
        PROVE  IsFiniteSet(s) /\ Cardinality(s) \in Nat /\ (Cardinality(s) = 0 <=> s = {})
    BY FS_Subset, FS_CardinalityType, FS_EmptySet
  <1>2. ASSUME NEW s \in SUBSET T, s # {}
        PROVE  /\ one(s) \in s /\ s \ {one(s)} \in SUBSET T
               /\ Cardinality(s \ {one(s)}) = Cardinality(s) - 1
    <2>1. one(s) \in s
      BY <1>2 DEF Picks
    <2> HIDE DEF one
    <2> QED
      BY <1>1, <2>1, FS_RemoveElement
  <1> HIDE DEF one
  <1>3. 0 \notin Unsolved
    <2> DEFINE g == [s \in SUBSET T |-> 0]
    <2>1. \A s \in upto(0) : s = {}
      BY <1>1
    <2>2. Solves(g, 0)
      BY <2>1
    <2> QED
      BY <2>2
  <1>4. ASSUME NEW n \in Nat, n \notin Unsolved
        PROVE  n + 1 \notin Unsolved
    <2>1. PICK g : Solves(g, n)
      BY <1>4
    <2> DEFINE f == [s \in SUBSET T |-> step(g)[s]]
    <2>2. ASSUME NEW s \in upto(n + 1) PROVE f[s] = step(f)[s]
      <3>1. CASE s = {}
        BY <3>1, Zenon
      <3>2. CASE s # {}
        <4>1. s \ {one(s)} \in upto(n)
          BY <1>1, <1>2, <3>2
        <4>2. g[s \ {one(s)}] = f[s \ {one(s)}]
          BY <2>1, <4>1
        <4> QED
          BY <3>2, <4>2
      <3> QED
        BY <3>1, <3>2
    <2>3. Solves(f, n + 1)
      BY <2>2
    <2> HIDE DEF Solves, f
    <2> QED
      BY <2>3
  <1>5. Unsolved = {}
    <2> SUFFICES ASSUME Unsolved # {} PROVE FALSE
      OBVIOUS
    <2>1. PICK n \in Unsolved : \A m \in Unsolved : n <= m
      BY LeastNatural
    <2> HIDE DEF Unsolved
    <2>2. n \in Nat /\ n # 0
      BY <1>3, <2>1 DEF Unsolved
    <2>3. n - 1 \in Nat /\ n - 1 \notin Unsolved /\ n - 1 + 1 = n
      BY <2>1, <2>2
    <2> QED
      BY <1>4, <2>1, <2>3
  <1>6. PICK g : Solves(g, Cardinality(T))
    <2>1. Cardinality(T) \in Nat
      BY <1>1
    <2> QED
      BY <1>5, <2>1
  <1>7. g = step(g)
    <2>1. \A s \in SUBSET T : s \in upto(Cardinality(T))
      BY <1>1, FS_Subset
    <2>2. \A s \in SUBSET T : g[s] = step(g)[s]
      BY <1>6, <2>1
    <2>3. g = [s \in SUBSET T |-> g[s]]
      BY <1>6
    <2> QED
      BY <2>2, <2>3
  <1>8. \A s \in SUBSET T : g[s] = IF s = {} THEN 0 ELSE h[one(s)] + g[s \ {one(s)}]
    BY <1>7
  <1> QED
    BY <1>8 DEF Accumulates, one

SumOver(h, T) == MapThenSumSet(LAMBDA x : h[x], T)

(* A sum is the value, for the whole set, of such a recursion.              *)
LEMMA SumIsOfParts ==
    ASSUME NEW T, IsFiniteSet(T), NEW h
    PROVE  \E f, c : Picks(c, T) /\ Accumulates(f, T, h, c) /\ SumOver(h, T) = f[T]
  <1> DEFINE one(s) == CHOOSE y \in s : TRUE
             c == [s \in SUBSET T |-> one(s)]
             iter[s \in SUBSET T] ==
               IF s = {} THEN 0
               ELSE LET x == CHOOSE y \in s : TRUE IN h[x] + iter[s \ {x}]
  <1>1. iter = [s \in SUBSET T |-> IF s = {} THEN 0 ELSE h[one(s)] + iter[s \ {one(s)}]]
    <2>1. Picks(c, T)
      BY DEF Picks
    <2> HIDE DEF c
    <2>2. PICK sum : Accumulates(sum, T, h, c)
      BY <2>1, SumIsDefined, Zenon
    <2> DEFINE g == [s \in SUBSET T |-> sum[s]]
    <2>3. ASSUME NEW s \in SUBSET T
          PROVE  g[s] = IF s = {} THEN 0 ELSE h[one(s)] + g[s \ {one(s)}]
      BY <2>2 DEF c, Accumulates
    <2>4. g = [s \in SUBSET T |-> IF s = {} THEN 0 ELSE h[one(s)] + g[s \ {one(s)}]]
      <3> HIDE DEF one
      <3> QED
        BY <2>3
    <2> QED
      BY <2>4
  <1>2. SumOver(h, T) = iter[T]
    BY DEF SumOver, MapThenSumSet, MapThenFoldSet
  <1> HIDE DEF iter
  <1>3. Picks(c, T)
    BY DEF Picks
  <1>4. Accumulates(iter, T, h, c)
    <2>1. {} \in SUBSET T
      OBVIOUS
    <2>2. \A s \in SUBSET T : iter[s] = IF s = {} THEN 0 ELSE h[one(s)] + iter[s \ {one(s)}]
      <3> HIDE DEF one
      <3> QED BY <1>1
    <2>3. \A s \in SUBSET T : c[s] = one(s)
      <3> HIDE DEF one
      <3> QED OBVIOUS
    <2> HIDE DEF one, c
    <2> QED
      BY <2>1, <2>2, <2>3 DEF Accumulates
  <1> HIDE DEF c
  <1> QED
    BY <1>2, <1>3, <1>4

(* The sum of naturals over a finite set is a natural, no less than any of  *)
(* them, and that of one element is its number.                             *)
THEOREM SumIsAtLeast ==
    ASSUME NEW T, IsFiniteSet(T), NEW h, \A x \in T : h[x] \in Nat
    PROVE  /\ SumOver(h, T) \in Nat
           /\ \A x \in T : SumOver(h, T) >= h[x] /\ (T = {x} => SumOver(h, T) = h[x])
  <1>1. PICK f, c : Picks(c, T) /\ Accumulates(f, T, h, c) /\ SumOver(h, T) = f[T]
    BY SumIsOfParts
  <1> DEFINE one(s) == c[s]
  <1> DEFINE IsSum(s) == f[s] \in Nat /\ \A x \in s : f[s] >= h[x]
             Wrong == {n \in Nat : \E s \in SUBSET T : Cardinality(s) = n /\ ~IsSum(s)}
  <1>2. ASSUME NEW s \in SUBSET T, s # {}
        PROVE  /\ one(s) \in s /\ s \ {one(s)} \in SUBSET T
               /\ Cardinality(s) \in Nat /\ Cardinality(s \ {one(s)}) = Cardinality(s) - 1
               /\ Cardinality(s \ {one(s)}) \in Nat
    <2>1. one(s) \in s
      BY <1>1, <1>2 DEF Picks
    <2>2. IsFiniteSet(s)
      BY FS_Subset
    <2> HIDE DEF one
    <2> QED
      BY <2>1, <2>2, FS_RemoveElement, FS_CardinalityType
  <1> HIDE DEF one
  <1>3. ASSUME NEW s \in SUBSET T, s = {} \/ IsSum(s \ {one(s)})
        PROVE  IsSum(s)
    <2>1. CASE s = {}
      BY <1>1, <2>1 DEF Accumulates
    <2>2. CASE s # {}
      <3>1. f[s] = h[one(s)] + f[s \ {one(s)}]
        BY <1>1, <2>2 DEF Accumulates, one
      <3>2. one(s) \in s /\ h[one(s)] \in Nat
        BY <1>2, <2>2
      <3>3. f[s \ {one(s)}] \in Nat /\ \A x \in s \ {one(s)} : f[s \ {one(s)}] >= h[x]
        BY <1>3, <2>2
      <3> QED
        BY <3>1, <3>2, <3>3
    <2> QED
      BY <2>1, <2>2
  <1>4. Wrong = {}
    <2> SUFFICES ASSUME Wrong # {} PROVE FALSE
      OBVIOUS
    <2>1. PICK n \in Wrong : \A m \in Wrong : n <= m
      BY LeastNatural
    <2>2. PICK s \in SUBSET T : Cardinality(s) = n /\ ~IsSum(s)
      BY <2>1
    <2> HIDE DEF IsSum
    <2>3. s # {} /\ ~IsSum(s \ {one(s)})
      BY <1>3, <2>2
    <2>4. n - 1 \in Wrong
      BY <1>2, <2>2, <2>3
    <2> QED
      BY <2>1, <2>4
  <1>5. IsSum(T)
    <2>1. Cardinality(T) \in Nat
      BY FS_CardinalityType
    <2> HIDE DEF IsSum
    <2> QED
      BY <1>4, <2>1
  <1>6. ASSUME NEW x \in T, T = {x} PROVE f[T] = h[x]
    <2>1. one(T) = x
      BY <1>2, <1>6
    <2>2. T \ {one(T)} = {}
      BY <1>6, <2>1
    <2>3. f[{}] = 0
      BY <1>1 DEF Accumulates
    <2>4. f[T] = h[one(T)] + f[T \ {one(T)}]
      BY <1>1, <1>6 DEF Accumulates, one
    <2> QED
      BY <1>6, <2>1, <2>2, <2>3, <2>4
  <1> QED
    BY <1>1, <1>5, <1>6

(* Among subsets of a finite set there is one from which no element can be  *)
(* taken away.                                                              *)
LEMMA LeastSubset ==
    ASSUME NEW T, IsFiniteSet(T), NEW Bad, Bad \subseteq SUBSET T, Bad # {}
    PROVE  \E s \in Bad : \A y \in s : s \ {y} \notin Bad
  <1> DEFINE Sizes == {n \in Nat : \E s \in Bad : Cardinality(s) = n}
  <1>1. ASSUME NEW s \in Bad
        PROVE  /\ IsFiniteSet(s) /\ Cardinality(s) \in Nat
               /\ \A y \in s : Cardinality(s \ {y}) = Cardinality(s) - 1
    BY FS_Subset, FS_RemoveElement, FS_CardinalityType
  <1>2. Sizes # {}
    BY <1>1
  <1>3. PICK n \in Sizes : \A m \in Sizes : n <= m
    BY <1>2, LeastNatural
  <1>4. PICK s \in Bad : Cardinality(s) = n
    BY <1>3
  <1>5. ASSUME NEW y \in s, s \ {y} \in Bad PROVE FALSE
    <2>1. Cardinality(s \ {y}) = n - 1 /\ n \in Nat
      BY <1>1, <1>3, <1>4
    <2>2. n - 1 \in Sizes
      BY <1>1, <1>5, <2>1
    <2> QED
      BY <1>3, <2>1, <2>2
  <1> QED
    BY <1>4, <1>5

(* The same sum, whichever element is taken away first.                     *)
THEOREM SumSplits ==
    ASSUME NEW T, IsFiniteSet(T), NEW h, \A x \in T : h[x] \in Nat, NEW z \in T
    PROVE  SumOver(h, T) = h[z] + SumOver(h, T \ {z})
  <1>1. PICK f, c : Picks(c, T) /\ Accumulates(f, T, h, c) /\ SumOver(h, T) = f[T]
    BY SumIsOfParts
  <1> DEFINE U == T \ {z}
  <1>2. IsFiniteSet(U) /\ U \subseteq T
    BY FS_RemoveElement
  <1>3. PICK g, d : Picks(d, U) /\ Accumulates(g, U, h, d) /\ SumOver(h, U) = g[U]
    BY <1>2, SumIsOfParts
  <1>4. ASSUME NEW s \in SUBSET T, s # {}
        PROVE  c[s] \in s /\ f[s] = h[c[s]] + f[s \ {c[s]}] /\ h[c[s]] \in Nat
    BY <1>1, <1>4 DEF Picks, Accumulates
  <1>5. \A s \in SUBSET T : f[s] \in Nat
    <2> DEFINE Bad == {s \in SUBSET T : f[s] \notin Nat}
    <2> SUFFICES ASSUME Bad # {} PROVE FALSE
      OBVIOUS
    <2>1. PICK s \in Bad : \A y \in s : s \ {y} \notin Bad
      BY LeastSubset
    <2>2. s # {}
      <3>1. f[{}] \in Nat
        BY <1>1 DEF Accumulates
      <3> QED
        BY <2>1, <3>1
    <2>3. f[s \ {c[s]}] \in Nat
      BY <1>4, <2>1, <2>2
    <2> QED
      BY <1>4, <2>1, <2>2, <2>3
  <1>6. \A s \in SUBSET T : \A x \in s : f[s] = h[x] + f[s \ {x}]
    <2> DEFINE Bad == {s \in SUBSET T : \E x \in s : f[s] # h[x] + f[s \ {x}]}
    <2> SUFFICES ASSUME Bad # {} PROVE FALSE
      OBVIOUS
    <2>1. PICK s \in Bad : \A y \in s : s \ {y} \notin Bad
      BY LeastSubset
    <2>2. PICK x \in s : f[s] # h[x] + f[s \ {x}]
      BY <2>1
    <2> DEFINE k == c[s]
               less == s \ {x, k}
    <2>3. k \in s /\ f[s] = h[k] + f[s \ {k}] /\ k # x
      BY <1>4, <2>1, <2>2
    <2>4. s \ {k} \in SUBSET T /\ x \in s \ {k} /\ (s \ {k}) \ {x} = less
      BY <2>1, <2>2, <2>3
    <2>5. s \ {x} \in SUBSET T /\ k \in s \ {x} /\ (s \ {x}) \ {k} = less
      BY <2>1, <2>2, <2>3
    <2>6. f[s \ {k}] = h[x] + f[(s \ {k}) \ {x}]
      <3>1. s \ {k} \notin Bad
        BY <2>1, <2>3
      <3> HIDE DEF k, less
      <3> QED
        BY <2>4, <3>1
    <2>7. f[s \ {x}] = h[k] + f[(s \ {x}) \ {k}]
      <3>1. s \ {x} \notin Bad
        BY <2>1, <2>2
      <3> HIDE DEF k, less
      <3> QED
        BY <2>5, <3>1
    <2>8. h[x] \in Nat /\ h[k] \in Nat /\ f[less] \in Nat
      BY <1>5, <2>1, <2>2, <2>3
    <2>9. f[s \ {k}] = h[x] + f[less] /\ f[s \ {x}] = h[k] + f[less]
      BY <2>4, <2>5, <2>6, <2>7, Zenon
    <2> HIDE DEF k, less
    <2> QED
      BY <2>2, <2>3, <2>8, <2>9
  <1>7. \A s \in SUBSET U : g[s] = f[s]
    <2> DEFINE Bad == {s \in SUBSET U : g[s] # f[s]}
    <2> SUFFICES ASSUME Bad # {} PROVE FALSE
      OBVIOUS
    <2> HIDE DEF U
    <2>1. PICK s \in Bad : \A y \in s : s \ {y} \notin Bad
      BY <1>2, LeastSubset
    <2>2. s # {}
      BY <1>1, <1>3, <2>1 DEF Accumulates
    <2>3. d[s] \in s /\ g[s] = h[d[s]] + g[s \ {d[s]}]
      BY <1>3, <2>1, <2>2 DEF Picks, Accumulates
    <2>4. g[s \ {d[s]}] = f[s \ {d[s]}]
      BY <2>1, <2>3
    <2>5. f[s] = h[d[s]] + f[s \ {d[s]}]
      BY <1>2, <1>6, <2>1, <2>3
    <2> QED
      BY <2>1, <2>3, <2>4, <2>5
  <1>8. f[T] = h[z] + f[U]
    BY <1>6
  <1> QED
    BY <1>1, <1>3, <1>7, <1>8

(* Products are in the order of one factor.                                 *)
LEMMA ProductsOrder ==
    ASSUME NEW a \in Int, NEW b \in Int, NEW c \in Nat \ {0}
    PROVE  /\ a * c < b * c <=> a < b
           /\ a * c <= b * c <=> a <= b
  OBVIOUS

(* A quotient is the only number between its bounds.                        *)
LEMMA QuotientBounds ==
    ASSUME NEW a \in Nat, NEW p \in Nat \ {0}
    PROVE  /\ a \div p \in Nat
           /\ (a \div p) * p <= a
           /\ a < ((a \div p) + 1) * p
  OBVIOUS

(* A quotient is what two products bound.                                   *)
LEMMA QuotientIs ==
    ASSUME NEW a \in Nat, NEW p \in Nat \ {0}, NEW q \in Int,
           q * p <= a, a < (q + 1) * p
    PROVE  a \div p = q
  <1>1. (a \div p) \in Int /\ (a \div p) * p <= a /\ a < ((a \div p) + 1) * p
    BY QuotientBounds
  <1>2. q * p < ((a \div p) + 1) * p /\ (a \div p) * p < (q + 1) * p
    BY <1>1
  <1>3. q < (a \div p) + 1 /\ a \div p < q + 1
    BY <1>1, <1>2, ProductsOrder
  <1> QED
    BY <1>1, <1>3

(* A number is at most a quotient just if its product is at most the dividend. *)
LEMMA QuotientAtLeast ==
    ASSUME NEW a \in Nat, NEW p \in Nat \ {0}, NEW q \in Int
    PROVE  q <= a \div p <=> q * p <= a
  <1>1. (a \div p) \in Int /\ (a \div p) * p <= a /\ a < ((a \div p) + 1) * p
    BY QuotientBounds
  <1>2. ASSUME q <= a \div p PROVE q * p <= a
    <2>1. q * p <= (a \div p) * p
      BY <1>1, <1>2, ProductsOrder
    <2> QED
      BY <1>1, <2>1
  <1>3. ASSUME q * p <= a PROVE q <= a \div p
    <2>1. q * p < ((a \div p) + 1) * p
      BY <1>1, <1>3
    <2>2. q < (a \div p) + 1
      BY <1>1, <2>1, ProductsOrder
    <2> QED
      BY <1>1, <2>2
  <1> QED
    BY <1>2, <1>3
=============================================================================
