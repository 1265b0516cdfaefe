----------------------------- MODULE Recursion -----------------------------
(***************************************************************************)
(* Induction over the natural numbers for sets in the place of predicates, *)
(* and functions defined by recursion over them, whose steps are given by  *)
(* functions in the place of operators: what loops of the models compute.  *)
(* Then sums over finite sets (SumFunction), and what changes them.        *)
(***************************************************************************)
EXTENDS Integers, Functions, FiniteSets, FiniteSetsExt, FiniteSetTheorems, WellFoundedInduction, TLAPS

\* A set of numbers that is not empty has a least one.
LEMMA LeastNat ==
    ASSUME NEW T \in SUBSET Nat, T # {}
    PROVE  \E m \in T : \A k \in T : m <= k
  <1>1. PICK m \in T : \A k \in T : ~ (<<k, m>> \in OpToRel(<, Nat))
    BY NatLessThanWellFounded, WFMin
  <1>2. \A k \in T : ~ (k < m)
    BY <1>1 DEF OpToRel
  <1>3. \A k \in T : k \in Nat /\ m \in Nat
    OBVIOUS
  <1>4. \A k \in T : m <= k
    BY <1>2, <1>3
  <1> QED
    BY <1>4

\* What holds of zero and is handed on holds of every number.
LEMMA SetInduction ==
    ASSUME NEW T, 0 \in T, \A n \in Nat : n \in T => n + 1 \in T
    PROVE  Nat \subseteq T
  <1> SUFFICES ASSUME Nat \ T # {} PROVE FALSE
    OBVIOUS
  <1>1. PICK m \in Nat \ T : \A k \in Nat \ T : m <= k
    BY LeastNat
  <1>2. m - 1 \in Nat /\ m - 1 \in T
    BY <1>1
  <1> QED
    BY <1>1, <1>2

\* The equation of a loop of n rounds that starts with base: round i makes F[v, i]
\* of the value v it begins with.
Rounds(f, F, base, n) == f = [i \in 0 .. n |-> IF i = 0 THEN base ELSE F[<<f[i - 1], i>>]]

\* The equation has a solution.
LEMMA RoundsExist ==
    ASSUME NEW F, NEW base, NEW n \in Nat
    PROVE  \E f : Rounds(f, F, base, n)
  <1> DEFINE T == {m \in Nat : \E f : Rounds(f, F, base, m)}
  <1>1. 0 \in T
    <2>1. Rounds([i \in 0 .. 0 |-> base], F, base, 0)
      BY DEF Rounds
    <2> QED
      BY <2>1
  <1>2. ASSUME NEW m \in T PROVE m + 1 \in T
    <2>1. m \in Nat /\ \E g : Rounds(g, F, base, m)
      BY <1>2
    <2>2. PICK g : Rounds(g, F, base, m)
      BY <2>1
    <2> DEFINE f == [i \in 0 .. m + 1 |-> IF i = m + 1 THEN F[<<g[m], m + 1>>] ELSE g[i]]
    <2>3. \A i \in 0 .. m : /\ g[i] = IF i = 0 THEN base ELSE F[<<g[i - 1], i>>]
                            /\ f[i] = g[i]
                            /\ i # 0 => f[i - 1] = g[i - 1]
      BY <2>1, <2>2 DEF Rounds
    <2>4. /\ f[m + 1] = F[<<g[m], m + 1>>] /\ f[m] = g[m]
          /\ f = [i \in 0 .. m + 1 |-> f[i]]
      BY <2>1
    <2> HIDE DEF f
    <2>5. \A i \in 0 .. m + 1 : f[i] = IF i = 0 THEN base ELSE F[<<f[i - 1], i>>]
      <3>1. ASSUME NEW i \in 0 .. m PROVE f[i] = IF i = 0 THEN base ELSE F[<<f[i - 1], i>>]
        BY <2>3
      <3>2. f[m + 1] = IF m + 1 = 0 THEN base ELSE F[<<f[m + 1 - 1], m + 1>>]
        <4>1. m + 1 # 0 /\ m + 1 - 1 = m
          BY <2>1
        <4> QED
          BY <2>4, <4>1
      <3>3. \A i \in 0 .. m + 1 : i \in 0 .. m \/ i = m + 1
        BY <2>1
      <3> QED
        BY <3>1, <3>2, <3>3
    <2>6. Rounds(f, F, base, m + 1)
      BY <2>4, <2>5 DEF Rounds
    <2> QED
      BY <2>1, <2>6
  <1> HIDE DEF T
  <1>3. Nat \subseteq T
    BY <1>1, <1>2, SetInduction
  <1> QED
    BY <1>3 DEF T

\* It has one whose values stay in a set that the rounds do not leave.
LEMMA RoundsStay ==
    ASSUME NEW S, NEW n \in Nat, NEW F \in [S \X (1 .. n) -> S], NEW base \in S
    PROVE  \E f \in [0 .. n -> S] : Rounds(f, F, base, n)
  <1>1. PICK f : Rounds(f, F, base, n)
    BY RoundsExist
  <1>2. /\ f = [i \in 0 .. n |-> f[i]]
        /\ \A i \in 0 .. n : f[i] = IF i = 0 THEN base ELSE F[<<f[i - 1], i>>]
    BY <1>1 DEF Rounds
  <1> DEFINE T == {i \in Nat : i <= n => f[i] \in S}
  <1>3. 0 \in T
    <2>1. 0 \in 0 .. n
      OBVIOUS
    <2>2. f[0] = base
      BY <1>2, <2>1
    <2> QED
      BY <2>2
  <1>4. ASSUME NEW i \in T PROVE i + 1 \in T
    <2>1. CASE i + 1 <= n
      <3>1. i + 1 \in 0 .. n /\ i + 1 # 0 /\ (i + 1) - 1 = i /\ i + 1 \in 1 .. n /\ f[i] \in S
        BY <2>1
      <3>2. f[i + 1] = F[<<f[i], i + 1>>]
        BY <1>2, <3>1
      <3> QED
        BY <3>1, <3>2
    <2>2. CASE ~ (i + 1 <= n)
      BY <2>2
    <2> QED
      BY <2>1, <2>2
  <1> HIDE DEF T
  <1>5. Nat \subseteq T
    BY <1>3, <1>4, SetInduction
  <1>6. \A i \in 0 .. n : f[i] \in S
    BY <1>5 DEF T
  <1> QED
    BY <1>1, <1>2, <1>6

-----------------------------------------------------------------------------
(* Sums *)

Pick(s) == CHOOSE x \in s : TRUE

\* The equation of the sums of g over the subsets of D
Sums(h, g, D) ==
    h = [s \in SUBSET D |-> IF s = {} THEN 0 ELSE g[Pick(s)] + h[s \ {Pick(s)}]]

LEMMA Picked ==
    ASSUME NEW S, S # {}
    PROVE  Pick(S) \in S
  BY DEF Pick

\* The sizes of finite sets are what induction over them is about.
LEMMA Smaller ==
    ASSUME NEW S, NEW x \in S, NEW n \in Nat, IsFiniteSet(S), Cardinality(S) <= n + 1
    PROVE  IsFiniteSet(S \ {x}) /\ Cardinality(S \ {x}) <= n /\ Cardinality(S \ {x}) \in Nat
  <1>1. /\ IsFiniteSet(S \ {x}) /\ Cardinality(S \ {x}) = Cardinality(S) - 1
        /\ Cardinality(S) \in Nat /\ Cardinality(S \ {x}) \in Nat
    BY FS_RemoveElement, FS_CardinalityType
  <1> QED
    BY <1>1

LEMMA Smallest ==
    ASSUME NEW S, IsFiniteSet(S), Cardinality(S) <= 0
    PROVE  S = {}
  <1>1. Cardinality(S) \in Nat
    BY FS_CardinalityType
  <1>2. Cardinality(S) = 0
    BY <1>1
  <1> QED
    BY <1>2, FS_EmptySet

\* The equation has a solution.
LEMMA SumsExist ==
    ASSUME NEW g, NEW D, IsFiniteSet(D)
    PROVE  \E h : Sums(h, g, D)
  <1> DEFINE Upto(n) == {s \in SUBSET D : Cardinality(s) <= n}
             Part(h, n) == h = [s \in Upto(n) |-> IF s = {} THEN 0 ELSE g[Pick(s)] + h[s \ {Pick(s)}]]
             T == {n \in Nat : \E h : Part(h, n)}
  <1>0. \A s \in SUBSET D : IsFiniteSet(s) /\ Cardinality(s) \in Nat
    BY FS_Subset, FS_CardinalityType
  <1>1. 0 \in T
    <2> DEFINE h == [s \in Upto(0) |-> 0]
    <2>1. \A s \in Upto(0) : s = {}
      BY <1>0, Smallest
    <2>2. Part(h, 0)
      BY <2>1
    <2> QED
      BY <2>2
  <1>2. ASSUME NEW n \in T PROVE n + 1 \in T
    <2>1. n \in Nat
      OBVIOUS
    <2>2. PICK k : Part(k, n)
      OBVIOUS
    <2> DEFINE F(s) == IF s = {} THEN 0 ELSE g[Pick(s)] + k[s \ {Pick(s)}]
               h == [s \in Upto(n + 1) |-> F(s)]
    <2>3. Upto(n) \subseteq Upto(n + 1)
      BY <1>0, <2>1
    <2>4. \A s \in Upto(n) : k[s] = F(s)
      BY <2>2
    <2>5. \A s \in Upto(n + 1) : s # {} => s \ {Pick(s)} \in Upto(n)
      BY <1>0, <2>1, Picked, Smaller
    <2>6. \A s \in Upto(n + 1) : h[s] = F(s)
      OBVIOUS
    <2> HIDE DEF F, Upto
    <2>7. \A s \in Upto(n) : h[s] = k[s]
      BY <2>3, <2>4, <2>6
    <2>8. \A s \in Upto(n + 1) : s # {} => h[s \ {Pick(s)}] = k[s \ {Pick(s)}]
      BY <2>5, <2>7
    <2>9. \A s \in Upto(n + 1) : h[s] = IF s = {} THEN 0 ELSE g[Pick(s)] + h[s \ {Pick(s)}]
      BY <2>6, <2>8 DEF F
    <2>10. h = [s \in Upto(n + 1) |-> h[s]]
      OBVIOUS
    <2> HIDE DEF h
    <2>11. Part(h, n + 1)
      BY <2>9, <2>10
    <2> QED
      BY <2>1, <2>11
  <1> HIDE DEF T
  <1>3. Cardinality(D) \in T
    BY <1>0, <1>1, <1>2, SetInduction
  <1>4. PICK h : Part(h, Cardinality(D))
    BY <1>3 DEF T
  <1>5. Upto(Cardinality(D)) = SUBSET D
    BY FS_Subset
  <1> HIDE DEF Upto
  <1>6. Sums(h, g, D)
    BY <1>4, <1>5 DEF Sums
  <1> QED
    BY <1>6

\* Solutions for functions that agree on a set agree on it, and are sums of numbers.
LEMMA SumsAgree ==
    ASSUME NEW g, NEW D, NEW h, Sums(h, g, D),
           NEW f, NEW E, NEW k, Sums(k, f, E),
           NEW S, IsFiniteSet(S), S \subseteq D, S \subseteq E, \A x \in S : f[x] = g[x] /\ g[x] \in Nat
    PROVE  h[S] = k[S] /\ h[S] \in Nat
  <1> DEFINE T == {n \in Nat : \A s \in SUBSET S : Cardinality(s) <= n => h[s] = k[s] /\ h[s] \in Nat}
  <1>0. \A s \in SUBSET S : IsFiniteSet(s) /\ Cardinality(s) \in Nat
    BY FS_Subset, FS_CardinalityType
  <1>1. \A s \in SUBSET S : /\ h[s] = IF s = {} THEN 0 ELSE g[Pick(s)] + h[s \ {Pick(s)}]
                            /\ k[s] = IF s = {} THEN 0 ELSE f[Pick(s)] + k[s \ {Pick(s)}]
    BY DEF Sums
  <1>2. 0 \in T
    <2>1. \A s \in SUBSET S : Cardinality(s) <= 0 => s = {}
      BY <1>0, Smallest
    <2>2. \A s \in SUBSET S : s = {} => h[s] = k[s] /\ h[s] \in Nat
      BY <1>1
    <2> QED
      BY <2>1, <2>2
  <1>3. ASSUME NEW n \in T PROVE n + 1 \in T
    <2>1. n \in Nat
      OBVIOUS
    <2>2. ASSUME NEW s \in SUBSET S, Cardinality(s) <= n + 1, s # {}
          PROVE  h[s] = k[s] /\ h[s] \in Nat
      <3>1. Pick(s) \in s
        BY <2>2, Picked
      <3>2. Cardinality(s \ {Pick(s)}) <= n
        BY <1>0, <2>1, <2>2, <3>1, Smaller
      <3>3. s \ {Pick(s)} \in SUBSET S
        OBVIOUS
      <3>4. h[s \ {Pick(s)}] = k[s \ {Pick(s)}] /\ h[s \ {Pick(s)}] \in Nat
        BY <3>2, <3>3
      <3>5. f[Pick(s)] = g[Pick(s)] /\ g[Pick(s)] \in Nat
        BY <3>1
      <3>6. h[s] = g[Pick(s)] + h[s \ {Pick(s)}] /\ k[s] = f[Pick(s)] + k[s \ {Pick(s)}]
        BY <1>1, <2>2
      <3> QED
        BY <3>4, <3>5, <3>6
    <2>3. \A s \in SUBSET S : s = {} => h[s] = k[s] /\ h[s] \in Nat
      BY <1>1
    <2> QED
      BY <2>1, <2>2, <2>3
  <1> HIDE DEF T
  <1>4. Cardinality(S) \in T
    BY <1>0, <1>2, <1>3, SetInduction
  <1> QED
    BY <1>0, <1>4 DEF T

\* Any element may be taken first.
LEMMA SumsFirst ==
    ASSUME NEW g, NEW D, NEW h, Sums(h, g, D), IsFiniteSet(D), \A x \in D : g[x] \in Nat
    PROVE  \A y \in D : h[D] = g[y] + h[D \ {y}]
  <1> DEFINE T == {n \in Nat : \A s \in SUBSET D : Cardinality(s) <= n =>
                                  \A y \in s : h[s] = g[y] + h[s \ {y}]}
  <1>0. \A s \in SUBSET D : IsFiniteSet(s) /\ Cardinality(s) \in Nat
    BY FS_Subset, FS_CardinalityType
  <1>1. \A s \in SUBSET D : s # {} => h[s] = g[Pick(s)] + h[s \ {Pick(s)}]
    BY DEF Sums
  <1>2. \A s \in SUBSET D : h[s] \in Nat
    BY <1>0, SumsAgree
  <1>3. 0 \in T
    BY <1>0, Smallest
  <1>4. ASSUME NEW n \in T PROVE n + 1 \in T
    <2>1. n \in Nat
      OBVIOUS
    <2>2. ASSUME NEW s \in SUBSET D, Cardinality(s) <= n + 1, NEW y \in s
          PROVE  h[s] = g[y] + h[s \ {y}]
      <3> DEFINE x == Pick(s)
      <3>1. x \in s
        BY Picked
      <3>2. h[s] = g[x] + h[s \ {x}]
        BY <1>1
      <3>3. CASE x = y
        BY <3>2, <3>3
      <3>4. CASE x # y
        <4> HIDE DEF x
        <4>1. s \ {x} \in SUBSET D /\ Cardinality(s \ {x}) <= n /\ y \in s \ {x}
          BY <1>0, <2>1, <2>2, <3>1, <3>4, Smaller
        <4>2. s \ {y} \in SUBSET D /\ Cardinality(s \ {y}) <= n /\ x \in s \ {y}
          BY <1>0, <2>1, <2>2, <3>1, <3>4, Smaller
        <4>3. h[s \ {x}] = g[y] + h[(s \ {x}) \ {y}]
          BY <4>1
        <4>4. h[s \ {y}] = g[x] + h[(s \ {y}) \ {x}]
          BY <4>2
        <4>5. (s \ {x}) \ {y} = (s \ {y}) \ {x}
          OBVIOUS
        <4> DEFINE rest == h[(s \ {x}) \ {y}]
        <4>6. h[s] = g[x] + (g[y] + rest) /\ h[s \ {y}] = g[x] + rest
          BY <3>2, <4>3, <4>4, <4>5
        <4>7. g[x] \in Nat /\ g[y] \in Nat /\ rest \in Nat
          BY <1>2, <3>1
        <4> HIDE DEF rest
        <4> QED
          BY <4>6, <4>7
      <3> QED
        BY <3>3, <3>4
    <2> QED
      BY <2>1, <2>2
  <1> HIDE DEF T
  <1>5. Cardinality(D) \in T
    BY <1>0, <1>3, <1>4, SetInduction
  <1> QED
    BY <1>0, <1>5 DEF T

\* The sum of the values of a function is a solution at its domain.
LEMMA SumOfFunction ==
    ASSUME NEW g, IsFiniteSet(DOMAIN g)
    PROVE  \E h : Sums(h, g, DOMAIN g) /\ SumFunction(g) = h[DOMAIN g]
  <1> DEFINE h == CHOOSE h : Sums(h, g, DOMAIN g)
  <1>1. Sums(h, g, DOMAIN g)
    BY SumsExist
  <1>2. SumFunction(g) = LET iter[s \in SUBSET DOMAIN g] ==
                                 IF s = {} THEN 0 ELSE g[Pick(s)] + iter[s \ {Pick(s)}]
                         IN  iter[DOMAIN g]
    BY DEF SumFunction, SumFunctionOnSet, FoldFunctionOnSet, MapThenFoldSet, Pick
  <1>3. SumFunction(g) = h[DOMAIN g]
    BY <1>2 DEF Sums
  <1> QED
    BY <1>1, <1>3

\* What changes a sum: the value of one argument, which may be new.
LEMMA SumChanges ==
    ASSUME NEW f, NEW g, NEW y, IsFiniteSet(DOMAIN f), \A x \in DOMAIN f : f[x] \in Nat,
           DOMAIN g = DOMAIN f \cup {y}, g[y] \in Nat, \A x \in DOMAIN f \ {y} : g[x] = f[x]
    PROVE  /\ SumFunction(f) \in Nat /\ SumFunction(g) \in Nat
           /\ y \in DOMAIN f => SumFunction(g) + f[y] = SumFunction(f) + g[y]
           /\ y \notin DOMAIN f => SumFunction(g) = SumFunction(f) + g[y]
  <1> DEFINE D == DOMAIN f
             E == DOMAIN g
             R == D \ {y}
  <1>1. IsFiniteSet(E) /\ IsFiniteSet(R)
    BY FS_AddElement, FS_RemoveElement
  <1>2. PICK k : Sums(k, f, D) /\ SumFunction(f) = k[D]
    BY SumOfFunction
  <1>3. PICK h : Sums(h, g, E) /\ SumFunction(g) = h[E]
    BY <1>1, SumOfFunction
  <1>4. \A x \in E : g[x] \in Nat
    OBVIOUS
  <1>5. k[D] \in Nat /\ h[E] \in Nat
    BY <1>1, <1>2, <1>3, <1>4, SumsAgree
  <1>6. h[E] = g[y] + h[E \ {y}]
    BY <1>1, <1>3, <1>4, SumsFirst
  <1>7. E \ {y} = R
    OBVIOUS
  <1>8. h[R] = k[R] /\ h[R] \in Nat
    <2>1. R \subseteq E /\ R \subseteq D /\ \A x \in R : f[x] = g[x] /\ g[x] \in Nat
      OBVIOUS
    <2> QED
      BY <1>1, <1>2, <1>3, <2>1, SumsAgree
  <1>9. y \in D => k[D] = f[y] + k[R] /\ f[y] \in Nat
    <2>1. \A x \in D : k[D] = f[x] + k[D \ {x}]
      BY <1>2, SumsFirst
    <2> QED
      BY <2>1
  <1>10. y \notin D => k[D] = k[R]
    <2>1. y \notin D => R = D
      OBVIOUS
    <2> QED
      BY <2>1
  <1> HIDE DEF D, E, R
  <1>11. /\ y \in D => h[E] + f[y] = k[D] + g[y]
         /\ y \notin D => h[E] = k[D] + g[y]
    <2> DEFINE sum == h[E]
               whole == k[D]
               rest == k[R]
               old == f[y]
               new == g[y]
    <2>1. /\ sum = new + rest /\ rest \in Nat /\ new \in Nat
          /\ y \in D => whole = old + rest /\ old \in Nat
          /\ y \notin D => whole = rest
      BY <1>6, <1>7, <1>8, <1>9, <1>10
    <2> HIDE DEF sum, whole, rest, old, new
    <2>2. /\ y \in D => sum + old = whole + new
          /\ y \notin D => sum = whole + new
      BY <2>1
    <2> QED
      BY <2>2 DEF sum, whole, old, new
  <1> QED
    BY <1>2, <1>3, <1>5, <1>11 DEF D

LEMMA SumIsNat ==
    ASSUME NEW f, IsFiniteSet(DOMAIN f), \A x \in DOMAIN f : f[x] \in Nat
    PROVE  SumFunction(f) \in Nat
  <1>1. PICK h : Sums(h, f, DOMAIN f) /\ SumFunction(f) = h[DOMAIN f]
    BY SumOfFunction
  <1>2. h[DOMAIN f] \in Nat
    BY <1>1, SumsAgree
  <1> QED
    BY <1>1, <1>2

LEMMA SumOfZeros ==
    ASSUME NEW f, IsFiniteSet(DOMAIN f), \A x \in DOMAIN f : f[x] = 0
    PROVE  SumFunction(f) = 0
  <1> DEFINE D == DOMAIN f
  <1>1. PICK h : Sums(h, f, D) /\ SumFunction(f) = h[D]
    BY SumOfFunction
  <1> DEFINE T == {n \in Nat : \A s \in SUBSET D : Cardinality(s) <= n => h[s] = 0}
  <1>2. \A s \in SUBSET D : IsFiniteSet(s) /\ Cardinality(s) \in Nat
    BY FS_Subset, FS_CardinalityType
  <1>3. \A s \in SUBSET D : h[s] = IF s = {} THEN 0 ELSE f[Pick(s)] + h[s \ {Pick(s)}]
    BY <1>1 DEF Sums
  <1>4. 0 \in T
    <2>1. \A s \in SUBSET D : Cardinality(s) <= 0 => s = {}
      BY <1>2, Smallest
    <2>2. \A s \in SUBSET D : s = {} => h[s] = 0
      BY <1>3
    <2> QED
      BY <2>1, <2>2
  <1>5. ASSUME NEW n \in T PROVE n + 1 \in T
    <2>1. n \in Nat
      OBVIOUS
    <2>2. ASSUME NEW s \in SUBSET D, Cardinality(s) <= n + 1, s # {} PROVE h[s] = 0
      <3>1. Pick(s) \in s
        BY <2>2, Picked
      <3>2. Cardinality(s \ {Pick(s)}) <= n /\ s \ {Pick(s)} \in SUBSET D
        BY <1>2, <2>1, <2>2, <3>1, Smaller
      <3>3. h[s \ {Pick(s)}] = 0 /\ f[Pick(s)] = 0
        BY <3>1, <3>2
      <3>4. h[s] = f[Pick(s)] + h[s \ {Pick(s)}]
        BY <1>3, <2>2
      <3> QED
        BY <3>3, <3>4
    <2>3. \A s \in SUBSET D : s = {} => h[s] = 0
      BY <1>3
    <2> QED
      BY <2>1, <2>2, <2>3
  <1> HIDE DEF T
  <1>6. Cardinality(D) \in T
    BY <1>2, <1>4, <1>5, SetInduction
  <1> QED
    BY <1>1, <1>2, <1>6 DEF T

\* The sum of the values of g over a part of its domain
Total(g, D) == SumFunction([x \in D |-> g[x]])

LEMMA TotalSame ==
    ASSUME NEW f, NEW g, NEW D, \A x \in D : f[x] = g[x]
    PROVE  Total(f, D) = Total(g, D)
  <1>1. [x \in D |-> f[x]] = [x \in D |-> g[x]]
    OBVIOUS
  <1> QED
    BY <1>1 DEF Total

LEMMA TotalIsNat ==
    ASSUME NEW g, NEW D, IsFiniteSet(D), \A x \in D : g[x] \in Nat
    PROVE  Total(g, D) \in Nat
  BY SumIsNat DEF Total

LEMMA TotalOfNone ==
    ASSUME NEW g
    PROVE  Total(g, {}) = 0
  <1>1. DOMAIN [x \in {} |-> g[x]] = {}
    OBVIOUS
  <1> QED
    BY <1>1, FS_EmptySet, SumOfZeros DEF Total

\* One more summand
LEMMA TotalAdd ==
    ASSUME NEW g, NEW D, NEW y, IsFiniteSet(D), y \notin D,
           \A x \in D : g[x] \in Nat, g[y] \in Nat
    PROVE  /\ Total(g, D \cup {y}) = Total(g, D) + g[y]
           /\ Total(g, D) \in Nat
  <1> DEFINE old == [x \in D |-> g[x]]
             new == [x \in D \cup {y} |-> g[x]]
  <1>1. /\ DOMAIN old = D /\ DOMAIN new = DOMAIN old \cup {y}
        /\ \A x \in DOMAIN old : old[x] \in Nat
        /\ new[y] = g[y] /\ \A x \in DOMAIN old \ {y} : new[x] = old[x]
    OBVIOUS
  <1> HIDE DEF old, new
  <1>2. SumFunction(new) = SumFunction(old) + new[y] /\ SumFunction(old) \in Nat
    BY <1>1, SumChanges
  <1> QED
    BY <1>1, <1>2 DEF Total, old, new

\* The sum over a larger set is not smaller.
LEMMA TotalGrows ==
    ASSUME NEW g, NEW D, NEW E \in SUBSET D, IsFiniteSet(D), \A x \in D : g[x] \in Nat
    PROVE  /\ Total(g, E) <= Total(g, D)
           /\ Total(g, E) \in Nat /\ Total(g, D) \in Nat
  <1> DEFINE T == {n \in Nat : \A e \in SUBSET D :
                                 Cardinality(D \ e) <= n => Total(g, e) <= Total(g, D)}
  <1>1. \A e \in SUBSET D : /\ IsFiniteSet(e) /\ IsFiniteSet(D \ e)
                            /\ Cardinality(D \ e) \in Nat /\ Total(g, e) \in Nat
    BY FS_Subset, FS_CardinalityType, TotalIsNat
  <1>2. Total(g, D) \in Nat
    BY TotalIsNat
  <1>3. 0 \in T
    <2>1. ASSUME NEW e \in SUBSET D, Cardinality(D \ e) <= 0 PROVE e = D
      BY <1>1, <2>1, Smallest
    <2>2. \A e \in SUBSET D : Cardinality(D \ e) <= 0 => Total(g, e) <= Total(g, D)
      BY <1>2, <2>1
    <2> QED
      BY <2>2
  <1>4. ASSUME NEW n \in Nat, n \in T PROVE n + 1 \in T
    <2>1. ASSUME NEW e \in SUBSET D, Cardinality(D \ e) <= n + 1, e # D
          PROVE  Total(g, e) <= Total(g, D)
      <3>1. PICK y \in D : y \notin e
        BY <2>1
      <3>2. D \ (e \cup {y}) = (D \ e) \ {y} /\ e \cup {y} \in SUBSET D
        BY <3>1
      <3>3. Cardinality(D \ (e \cup {y})) <= n
        BY <1>1, <2>1, <3>1, <3>2, Smaller
      <3>4. Total(g, e \cup {y}) <= Total(g, D)
        BY <1>4, <3>2, <3>3
      <3>5. Total(g, e \cup {y}) = Total(g, e) + g[y] /\ g[y] \in Nat /\ Total(g, e) \in Nat
        BY <1>1, <3>1, TotalAdd
      <3> QED
        BY <1>2, <3>4, <3>5
    <2>2. \A e \in SUBSET D : Cardinality(D \ e) <= n + 1 => Total(g, e) <= Total(g, D)
      BY <1>2, <2>1
    <2> QED
      BY <2>2
  <1> HIDE DEF T
  <1>5. Nat \subseteq T
    BY <1>3, <1>4, SetInduction
  <1>6. Cardinality(D \ E) \in T
    BY <1>1, <1>5
  <1>7. Total(g, E) <= Total(g, D)
    BY <1>1, <1>6 DEF T
  <1> QED
    BY <1>1, <1>2, <1>7

\* The sum of as many values under other names
LEMMA TotalRenamed ==
    ASSUME NEW f, NEW g, NEW b, NEW D, IsFiniteSet(D),
           \A x \in D : f[x] = g[b[x]] /\ f[x] \in Nat,
           \A x, y \in D : b[x] = b[y] => x = y
    PROVE  Total(f, D) = Total(g, {b[x] : x \in D})
  <1> DEFINE Image(s) == {b[x] : x \in s}
             T == {n \in Nat : \A s \in SUBSET D :
                                 Cardinality(s) <= n => Total(f, s) = Total(g, Image(s))}
  <1>1. \A s \in SUBSET D : /\ IsFiniteSet(s) /\ IsFiniteSet(Image(s)) /\ Cardinality(s) \in Nat
                            /\ \A x \in s : f[x] \in Nat
                            /\ \A z \in Image(s) : g[z] \in Nat
    <2> SUFFICES ASSUME NEW s \in SUBSET D
                 PROVE  /\ IsFiniteSet(s) /\ IsFiniteSet(Image(s)) /\ Cardinality(s) \in Nat
                        /\ \A x \in s : f[x] \in Nat
                        /\ \A z \in Image(s) : g[z] \in Nat
      OBVIOUS
    <2>1. IsFiniteSet(s) /\ Cardinality(s) \in Nat
      BY FS_Subset, FS_CardinalityType
    <2>2. [x \in s |-> b[x]] \in Surjection(s, Image(s))
      BY DEF Surjection
    <2>3. IsFiniteSet(Image(s))
      <3> HIDE DEF Image
      <3> QED
        BY <2>1, <2>2, FS_Surjection
    <2> QED
      BY <2>1, <2>3
  <1>2. 0 \in T
    <2>1. ASSUME NEW s \in SUBSET D, Cardinality(s) <= 0 PROVE Total(f, s) = Total(g, Image(s))
      <3>1. s = {}
        BY <1>1, <2>1, Smallest
      <3>2. Image(s) = {}
        BY <3>1
      <3> HIDE DEF Image
      <3> QED
        BY <3>1, <3>2, TotalOfNone
    <2>2. \A s \in SUBSET D : Cardinality(s) <= 0 => Total(f, s) = Total(g, Image(s))
      BY <2>1
    <2> QED
      BY <2>2
  <1>3. ASSUME NEW n \in Nat, n \in T PROVE n + 1 \in T
    <2>1. ASSUME NEW s \in SUBSET D, Cardinality(s) <= n + 1, s # {}
          PROVE  Total(f, s) = Total(g, Image(s))
      <3>1. PICK y \in s : TRUE
        BY <2>1
      <3> DEFINE r == s \ {y}
      <3>2. r \in SUBSET D /\ s = r \cup {y} /\ y \notin r
        BY <3>1
      <3>3. Cardinality(r) <= n
        BY <1>1, <2>1, <3>1, Smaller
      <3>4. Image(s) = Image(r) \cup {b[y]} /\ b[y] \notin Image(r)
        BY <3>1
      <3>5. Total(f, r) = Total(g, Image(r))
        BY <1>3, <3>2, <3>3
      <3>6. f[y] = g[b[y]] /\ f[y] \in Nat
        BY <3>1
      <3> HIDE DEF Image, r, T
      <3>7. Total(f, r \cup {y}) = Total(f, r) + f[y]
        BY <1>1, <3>2, <3>6, TotalAdd
      <3>8. Total(g, Image(r) \cup {b[y]}) = Total(g, Image(r)) + g[b[y]]
        <4> DEFINE S == Image(r)
                   z == b[y]
        <4>1. IsFiniteSet(S) /\ (\A x \in S : g[x] \in Nat) /\ g[z] \in Nat /\ z \notin S
          BY <1>1, <3>2, <3>4, <3>6
        <4> HIDE DEF S, z
        <4>2. Total(g, S \cup {z}) = Total(g, S) + g[z]
          BY <4>1, TotalAdd
        <4> QED
          BY <4>2 DEF S, z
      <3> QED
        BY <3>2, <3>4, <3>5, <3>6, <3>7, <3>8
    <2>2. \A s \in SUBSET D : Cardinality(s) <= n + 1 => Total(f, s) = Total(g, Image(s))
      <3>1. ASSUME NEW s \in SUBSET D, s = {} PROVE Total(f, s) = Total(g, Image(s))
        <4>1. Image(s) = {}
          BY <3>1
        <4> HIDE DEF Image
        <4> QED
          BY <3>1, <4>1, TotalOfNone
      <3> HIDE DEF Image
      <3> QED
        BY <2>1, <3>1
    <2> QED
      BY <2>2
  <1> HIDE DEF T
  <1>4. Nat \subseteq T
    BY <1>2, <1>3, SetInduction
  <1>5. Cardinality(D) \in T
    BY <1>1, <1>4
  <1> QED
    BY <1>1, <1>5 DEF T

\* Numbers that are one less
LEMMA TotalShifted ==
    ASSUME NEW f, NEW g, NEW D \in SUBSET Nat, IsFiniteSet(D),
           \A x \in D : f[x] = g[x + 1] /\ f[x] \in Nat
    PROVE  Total(f, D) = Total(g, {x + 1 : x \in D})
  <1> DEFINE b == [x \in D |-> x + 1]
             S == D
  <1>1. \A x \in D : b[x] = x + 1 /\ x \in Nat
    OBVIOUS
  <1>2. {b[x] : x \in S} = {x + 1 : x \in D}
    OBVIOUS
  <1> HIDE DEF b
  <1>3. IsFiniteSet(S) /\ \A x \in S : f[x] = g[b[x]] /\ f[x] \in Nat
    BY <1>1
  <1>4. \A x, y \in S : b[x] = b[y] => x = y
    BY <1>1
  <1> HIDE DEF S
  <1>5. Total(f, S) = Total(g, {b[x] : x \in S})
    BY <1>3, <1>4, TotalRenamed
  <1> QED
    BY <1>2, <1>5 DEF S

\* A solution for the sums of g is the sum of g over D.
LEMMA SumsTotal ==
    ASSUME NEW g, NEW D, NEW h, Sums(h, g, D), IsFiniteSet(D), \A x \in D : g[x] \in Nat
    PROVE  h[D] = Total(g, D)
  <1> DEFINE r == [x \in D |-> g[x]]
  <1>1. DOMAIN r = D /\ \A x \in D : r[x] = g[x]
    OBVIOUS
  <1> HIDE DEF r
  <1>2. PICK j : Sums(j, r, D) /\ SumFunction(r) = j[D]
    BY <1>1, SumOfFunction
  <1>3. h[D] = j[D]
    BY <1>1, <1>2, SumsAgree
  <1> QED
    BY <1>2, <1>3 DEF Total, r

-----------------------------------------------------------------------------
(* Folds over sequences *)

\* The last of some numbers up to n, and of all of them
LEMMA LastNumber ==
    ASSUME NEW n \in Nat, NEW s \in SUBSET (1 .. n), s # {}
    PROVE  Max(s) \in s /\ \A x \in s : x <= Max(s)
  <1> DEFINE T == {n - x : x \in s}
  <1>1. \A x \in s : x \in Nat /\ n - x \in Nat
    OBVIOUS
  <1>2. T \in SUBSET Nat /\ T # {}
    BY <1>1
  <1>3. PICK m \in T : \A k \in T : m <= k
    BY <1>2, LeastNat
  <1>4. PICK x \in s : m = n - x
    BY <1>3
  <1>5. ASSUME NEW y \in s PROVE x >= y
    <2>1. n - y \in T
      OBVIOUS
    <2>2. n - x <= n - y
      BY <1>3, <1>4, <2>1
    <2> QED
      BY <1>1, <2>2
  <1>6. Max(s) \in s /\ \A y \in s : Max(s) >= y
    BY <1>5 DEF Max
  <1> QED
    BY <1>6

\* The equation of a fold over 1 .. n as the library states it: the fold of a set
\* is a step from the fold of what comes before its last element.
Folds(h, F, base, n) ==
    \A s \in SUBSET (1 .. n) : h[s] = IF s = {} THEN base ELSE F[<<h[s \ {Max(s)}], Max(s)>>]

\* It has a solution whose values stay in a set that the steps do not leave.
LEMMA FoldsExist ==
    ASSUME NEW V, NEW n \in Nat, NEW F \in [V \X (1 .. n) -> V], NEW base \in V
    PROVE  \E h \in [SUBSET (1 .. n) -> V] : Folds(h, F, base, n)
  <1> DEFINE Has(m) == \E h \in [SUBSET (1 .. m) -> V] : Folds(h, F, base, m)
             T == {m \in Nat : m <= n => Has(m)}
  <1>1. 0 \in T
    <2> DEFINE h == [s \in SUBSET (1 .. 0) |-> base]
    <2>1. \A s \in SUBSET (1 .. 0) : s = {}
      OBVIOUS
    <2>2. h \in [SUBSET (1 .. 0) -> V] /\ Folds(h, F, base, 0)
      BY <2>1 DEF Folds
    <2> QED
      BY <2>2
  <1>2. ASSUME NEW m \in Nat, m + 1 <= n, Has(m) PROVE Has(m + 1)
    <2>1. m <= n /\ 1 .. m \subseteq 1 .. m + 1 /\ 1 .. m + 1 \subseteq 1 .. n
      BY <1>2
    <2>2. PICK k \in [SUBSET (1 .. m) -> V] : Folds(k, F, base, m)
      BY <1>2
    <2> DEFINE G(s) == IF s = {} THEN base ELSE F[<<k[s \ {Max(s)}], Max(s)>>]
               h == [s \in SUBSET (1 .. m + 1) |-> G(s)]
    <2>3. ASSUME NEW s \in SUBSET (1 .. m + 1), s # {}
          PROVE  Max(s) \in 1 .. n /\ s \ {Max(s)} \in SUBSET (1 .. m)
      <3>1. Max(s) \in s /\ \A x \in s : x <= Max(s)
        BY <2>1, <2>3, LastNumber
      <3>2. ASSUME NEW x \in s, x # Max(s) PROVE x \in 1 .. m
        <4> DEFINE l == Max(s)
        <4>1. x \in 1 .. m + 1 /\ l \in 1 .. m + 1 /\ x <= l /\ x # l
          BY <3>1, <3>2
        <4> HIDE DEF l
        <4> QED
          BY <2>1, <4>1
      <3> QED
        BY <2>1, <3>1, <3>2
    <2>4. \A s \in SUBSET (1 .. m + 1) : G(s) \in V
      <3> SUFFICES ASSUME NEW s \in SUBSET (1 .. m + 1), s # {} PROVE F[<<k[s \ {Max(s)}], Max(s)>>] \in V
        OBVIOUS
      <3>1. k[s \ {Max(s)}] \in V /\ Max(s) \in 1 .. n
        BY <2>3
      <3> QED
        BY <3>1
    <2>5. h \in [SUBSET (1 .. m + 1) -> V] /\ \A s \in SUBSET (1 .. m + 1) : h[s] = G(s)
      BY <2>4
    <2>6. \A s \in SUBSET (1 .. m) : k[s] = G(s) /\ s \in SUBSET (1 .. m + 1)
      BY <2>1, <2>2 DEF Folds
    <2> HIDE DEF h, G
    <2>7. \A s \in SUBSET (1 .. m + 1) : s # {} => h[s \ {Max(s)}] = k[s \ {Max(s)}]
      BY <2>3, <2>5, <2>6
    <2>8. \A s \in SUBSET (1 .. m + 1) : h[s] = IF s = {} THEN base ELSE F[<<h[s \ {Max(s)}], Max(s)>>]
      BY <2>5, <2>7 DEF G
    <2> QED
      BY <2>5, <2>8 DEF Folds
  <1> HIDE DEF Has
  <1>3. \A m \in Nat : m \in T => m + 1 \in T
    BY <1>2
  <1> HIDE DEF T
  <1>4. n \in T
    BY <1>1, <1>3, SetInduction
  <1>5. Has(n)
    BY <1>4 DEF T
  <1> QED
    BY <1>5 DEF Has

\* The last of the first numbers
LEMMA LastOfFirst ==
    ASSUME NEW k \in Nat
    PROVE  /\ 1 .. k + 1 # {} /\ Max(1 .. k + 1) = k + 1
           /\ (1 .. k + 1) \ {k + 1} = 1 .. k
  <1>1. 1 .. k + 1 # {} /\ k + 1 \in 1 .. k + 1
    BY Zenon, SMT
  <1>2. Max(1 .. k + 1) \in 1 .. k + 1 /\ \A x \in 1 .. k + 1 : x <= Max(1 .. k + 1)
    <2>1. k + 1 \in Nat /\ 1 .. k + 1 \in SUBSET (1 .. k + 1)
      OBVIOUS
    <2> QED
      BY <1>1, <2>1, LastNumber
  <1>3. Max(1 .. k + 1) = k + 1
    BY <1>1, <1>2
  <1> QED
    BY <1>1, <1>3
=============================================================================
