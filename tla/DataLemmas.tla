----------------------------- MODULE DataLemmas -----------------------------
(***************************************************************************)
(* Facts about naturals, division and sums that the proofs about the       *)
(* components share.  Induction is stated for a set of naturals, which a   *)
(* proof gives as the set of those that have the property at hand.         *)
(***************************************************************************)
EXTENDS Integers, FiniteSets, Functions, WellFoundedInduction, FiniteSetTheorems, TLAPS

-----------------------------------------------------------------------------
(* A set of naturals that is not empty has a least element. *)
LEMMA LeastElement ==
  ASSUME NEW T \in SUBSET Nat, T # {}
  PROVE  \E n \in T : \A m \in T : n <= m
<1> DEFINE R == OpToRel(<, Nat)
<1>1. IsWellFoundedOn(R, Nat)
  BY NatLessThanWellFounded
<1>2. PICK n \in T : \A m \in T : ~ (<<m, n>> \in R)
  BY <1>1, WFMin
<1>3. \A m \in T : ~ (m < n)
  BY <1>2 DEF OpToRel
<1> QED
  BY <1>3

(* Induction: a set that has 0 and with every natural its successor has all. *)
LEMMA Induction ==
  ASSUME NEW T, 0 \in T, \A n \in Nat : n \in T => n + 1 \in T
  PROVE  Nat \subseteq T
<1> DEFINE C == Nat \ T
<1>1. SUFFICES ASSUME C # {} PROVE FALSE
  OBVIOUS
<1>2. PICK n \in C : \A m \in C : n <= m
  BY <1>1, LeastElement
<1>3. n - 1 \in Nat /\ n - 1 \notin C
  BY <1>2
<1> QED
  BY <1>2, <1>3

-----------------------------------------------------------------------------
(* Multiplication and division by a positive number *)

(* Multiplication by a natural number is monotone. *)
LEMMA TimesMonotone ==
  ASSUME NEW x \in Int, NEW y \in Int, NEW d \in Nat, x <= y
  PROVE  x * d <= y * d
  OBVIOUS

(* A quotient times the divisor is within one divisor of the dividend. *)
LEMMA DivBounds ==
  ASSUME NEW a \in Int, NEW d \in Nat \ {0}
  PROVE  a \div d \in Int /\ (a \div d) * d <= a /\ a < (a \div d + 1) * d
  OBVIOUS

(* The quotient is the only number with these bounds. *)
LEMMA DivUnique ==
  ASSUME NEW a \in Int, NEW d \in Nat \ {0}, NEW q \in Int, q * d <= a, a < (q + 1) * d
  PROVE  a \div d = q
<1> DEFINE r == a \div d
<1>1. r \in Int /\ r * d <= a /\ a < (r + 1) * d
  BY DivBounds
<1> HIDE DEF r
<1>2. CASE q < r
  <2>1. (q + 1) * d <= r * d
    BY <1>1, <1>2, TimesMonotone
  <2> QED
    BY <1>1, <2>1
<1>3. CASE r < q
  <2>1. (r + 1) * d <= q * d
    BY <1>1, <1>3, TimesMonotone
  <2> QED
    BY <1>1, <2>1
<1> QED
  BY <1>1, <1>2, <1>3 DEF r

(* Adding k divisors adds k to the quotient. *)
LEMMA DivShift ==
  ASSUME NEW a \in Int, NEW k \in Int, NEW d \in Nat \ {0}
  PROVE  (a + k * d) \div d = a \div d + k
<1> DEFINE r == a \div d
<1>1. r \in Int /\ r * d <= a /\ a < (r + 1) * d
  BY DivBounds
<1> HIDE DEF r
<1>2. (r + k) * d = r * d + k * d /\ (r + k + 1) * d = (r + 1) * d + k * d
  BY <1>1
<1>3. k * d \in Int
  OBVIOUS
<1>4. (r + k) * d <= a + k * d /\ a + k * d < (r + k + 1) * d
  BY <1>1, <1>2, <1>3
<1>5. (a + k * d) \div d = r + k
  BY <1>1, <1>3, <1>4, DivUnique
<1> QED
  BY <1>5 DEF r

(* Of two numbers the one with the smaller quotient is the smaller. *)
LEMMA DivMonotone ==
  ASSUME NEW a \in Int, NEW b \in Int, NEW d \in Nat \ {0}, a \div d < b \div d
  PROVE  a < b
<1> DEFINE q == a \div d
           r == b \div d
<1>1. q \in Int /\ r \in Int /\ a < (q + 1) * d /\ r * d <= b
  BY DivBounds
<1> HIDE DEF q, r
<1>2. (q + 1) * d <= r * d
  BY <1>1, TimesMonotone DEF q, r
<1> QED
  BY <1>1, <1>2

(* div_ceil: the least number of groups of d that hold n. *)
LEMMA DivCeilBounds ==
  ASSUME NEW n \in Nat \ {0}, NEW d \in Nat \ {0}
  PROVE  LET c == (n + d - 1) \div d
         IN  c \in Nat \ {0} /\ (c - 1) * d < n /\ n <= c * d
<1> DEFINE a == n + d - 1
           c == a \div d
<1>1. a \in Int /\ c \in Int /\ c * d <= a /\ a < (c + 1) * d
  BY DivBounds
<1> HIDE DEF c
<1>2. (c - 1) * d = c * d - d /\ (c + 1) * d = c * d + d /\ c * d \in Int
  BY <1>1
<1>3. (c - 1) * d < n /\ n <= c * d
  BY <1>1, <1>2
<1>4. CASE c <= 0
  <2>1. c * d <= 0 * d
    BY <1>1, <1>4, TimesMonotone
  <2> QED
    BY <1>3, <2>1
<1> QED
  BY <1>1, <1>3, <1>4 DEF c

-----------------------------------------------------------------------------
(* Sums over finite sets *)

Pick(s) == CHOOSE x \in s : TRUE

(* g gives every subset of S the sum of f over it, taken in Pick's order. *)
SumsOf(f, S, g) ==
    g = [s \in SUBSET S |-> IF s = {} THEN 0 ELSE f[Pick(s)] + g[s \ {Pick(s)}]]

(* A finite set without one of its elements has one element less. *)
LEMMA SmallerSet ==
  ASSUME NEW n \in Nat, NEW s, IsFiniteSet(s), Cardinality(s) = n + 1, NEW x \in s
  PROVE  IsFiniteSet(s \ {x}) /\ Cardinality(s \ {x}) = n
<1>1. IsFiniteSet(s \ {x}) /\ Cardinality(s \ {x}) = Cardinality(s) - 1
  BY FS_RemoveElement
<1> QED
  BY <1>1

(* What CHOOSE picks of a set that is not empty is in it. *)
LEMMA PickInSet ==
  ASSUME NEW s, s # {}
  PROVE  Pick(s) \in s
  BY DEF Pick

(* The recursive function that a sum over a finite set chooses exists. *)
LEMMA SumsExist ==
  ASSUME NEW S, IsFiniteSet(S), NEW f
  PROVE  \E g : SumsOf(f, S, g)
<1> DEFINE Fin(n) == {s \in SUBSET S : Cardinality(s) <= n}
           Defined(n) == \E g : g = [s \in Fin(n) |->
                            IF s = {} THEN 0 ELSE f[Pick(s)] + g[s \ {Pick(s)}]]
           T == {n \in Nat : Defined(n)}
<1>0. \A s \in SUBSET S : IsFiniteSet(s) /\ Cardinality(s) \in Nat
  BY FS_Subset, FS_CardinalityType
<1>1. 0 \in T
  <2>1. \A s \in Fin(0) : s = {}
    BY <1>0, FS_EmptySet
  <2> DEFINE g == [s \in Fin(0) |-> 0]
  <2>2. g = [s \in Fin(0) |-> IF s = {} THEN 0 ELSE f[Pick(s)] + g[s \ {Pick(s)}]]
    <3> HIDE DEF Fin
    <3> QED
      BY <2>1
  <2> QED
    BY <2>2
<1>2. ASSUME NEW n \in Nat, n \in T PROVE n + 1 \in T
  <2>1. PICK h : h = [s \in Fin(n) |-> IF s = {} THEN 0 ELSE f[Pick(s)] + h[s \ {Pick(s)}]]
    BY <1>2
  <2> DEFINE g == [s \in Fin(n + 1) |-> IF s = {} THEN 0 ELSE f[Pick(s)] + h[s \ {Pick(s)}]]
  <2>2. ASSUME NEW s \in Fin(n + 1), s # {}
        PROVE  s \ {Pick(s)} \in Fin(n) /\ s \ {Pick(s)} \in Fin(n + 1)
    <3>1. Cardinality(s \ {Pick(s)}) = Cardinality(s) - 1 /\ Cardinality(s) \in Nat
      BY <1>0, <2>2, FS_RemoveElement, PickInSet
    <3>2. Cardinality(s \ {Pick(s)}) <= n /\ Cardinality(s \ {Pick(s)}) <= n + 1
      BY <3>1
    <3> QED
      BY <3>2
  <2>3. Fin(n) \subseteq Fin(n + 1)
    BY <1>0
  <2> HIDE DEF Fin
  <2>4. \A s \in Fin(n) : g[s] = h[s]
    BY <2>1, <2>3
  <2> HIDE DEF g
  <2>5. g = [s \in Fin(n + 1) |-> IF s = {} THEN 0 ELSE f[Pick(s)] + g[s \ {Pick(s)}]]
    BY <2>2, <2>4 DEF g
  <2>6. Defined(n + 1)
    BY <2>5
  <2> HIDE DEF Defined
  <2> QED
    BY <2>6
<1>3. Cardinality(S) \in T
  <2> HIDE DEF T
  <2> QED
    BY <1>1, <1>2, Induction, FS_CardinalityType
<1>4. Fin(Cardinality(S)) = SUBSET S
  BY FS_Subset
<1> QED
  BY <1>3, <1>4 DEF SumsOf

(* SumFunctionOnSet is that function's value on the whole set. *)
LEMMA SumFunctionSums ==
  ASSUME NEW S, IsFiniteSet(S), NEW f
  PROVE  \E g : SumsOf(f, S, g) /\ SumFunctionOnSet(f, S) = g[S]
<1> DEFINE g == CHOOSE h : SumsOf(f, S, h)
<1>1. SumsOf(f, S, g)
  BY SumsExist
<1>2. SumFunctionOnSet(f, S) = g[S]
  BY DEF SumFunctionOnSet, FoldFunctionOnSet, MapThenFoldSet, SumsOf, Pick
<1> QED
  BY <1>1, <1>2

(* A sum is one term and the sum of the rest. *)
LEMMA SumsUnfold ==
  ASSUME NEW S, NEW f, NEW g, SumsOf(f, S, g)
  PROVE  /\ g[{}] = 0
         /\ \A s \in SUBSET S : s # {} => g[s] = f[Pick(s)] + g[s \ {Pick(s)}]
<1>1. \A s \in SUBSET S : g[s] = IF s = {} THEN 0 ELSE f[Pick(s)] + g[s \ {Pick(s)}]
  BY DEF SumsOf
<1> QED
  BY <1>1

(* The sums of integers are integers. *)
LEMMA SumsAreIntegers ==
  ASSUME NEW S, IsFiniteSet(S), NEW f, \A x \in S : f[x] \in Int, NEW g, SumsOf(f, S, g)
  PROVE  \A s \in SUBSET S : g[s] \in Int
<1> DEFINE T == {n \in Nat : \A s \in SUBSET S : Cardinality(s) = n => g[s] \in Int}
<1>0. \A s \in SUBSET S : IsFiniteSet(s) /\ Cardinality(s) \in Nat
  BY FS_Subset, FS_CardinalityType
<1>1. 0 \in T
  BY <1>0, FS_EmptySet, SumsUnfold
<1>2. ASSUME NEW n \in Nat, n \in T PROVE n + 1 \in T
  <2> SUFFICES ASSUME NEW s \in SUBSET S, Cardinality(s) = n + 1 PROVE g[s] \in Int
    OBVIOUS
  <2>1. s # {}
    BY FS_EmptySet
  <2>2. Pick(s) \in s
    BY <2>1, PickInSet
  <2>3. Cardinality(s \ {Pick(s)}) = n
    BY <1>0, <2>2, SmallerSet
  <2>4. g[s \ {Pick(s)}] \in Int
    BY <1>2, <2>3
  <2>5. g[s] = f[Pick(s)] + g[s \ {Pick(s)}]
    <3>1. \A t \in SUBSET S : t # {} => g[t] = f[Pick(t)] + g[t \ {Pick(t)}]
      BY SumsUnfold
    <3> QED
      BY <2>1, <3>1, Zenon
  <2>6. f[Pick(s)] \in Int
    BY <2>2
  <2> QED
    BY <2>4, <2>5, <2>6
<1>3. Nat \subseteq T
  <2> HIDE DEF T
  <2> QED
    BY <1>1, <1>2, Induction
<1> QED
  BY <1>0, <1>3

(* The order does not matter: any element may be taken out first. *)
LEMMA SumsRemove ==
  ASSUME NEW S, IsFiniteSet(S), NEW f, \A x \in S : f[x] \in Int, NEW g, SumsOf(f, S, g)
  PROVE  \A s \in SUBSET S : \A y \in s : g[s] = f[y] + g[s \ {y}]
<1> DEFINE T == {n \in Nat : \A s \in SUBSET S : Cardinality(s) = n =>
                                \A y \in s : g[s] = f[y] + g[s \ {y}]}
<1>0. \A s \in SUBSET S : IsFiniteSet(s) /\ Cardinality(s) \in Nat
  BY FS_Subset, FS_CardinalityType
<1>1. 0 \in T
  BY <1>0, FS_EmptySet
<1>2. ASSUME NEW n \in Nat, n \in T PROVE n + 1 \in T
  <2> SUFFICES ASSUME NEW s \in SUBSET S, Cardinality(s) = n + 1, NEW y \in s
               PROVE  g[s] = f[y] + g[s \ {y}]
    OBVIOUS
  <2> DEFINE x == Pick(s)
  <2>1. s # {} /\ x \in s
    BY PickInSet
  <2>2. g[s] = f[x] + g[s \ {x}]
    BY <2>1, SumsUnfold
  <2> HIDE DEF x
  <2>3. CASE x = y
    BY <2>2, <2>3
  <2>4. CASE x # y
    <3>1. Cardinality(s \ {x}) = n /\ Cardinality(s \ {y}) = n
      BY <1>0, <2>1, SmallerSet
    <3>2. g[s \ {x}] = f[y] + g[(s \ {x}) \ {y}]
      BY <1>2, <2>4, <3>1
    <3>3. g[s \ {y}] = f[x] + g[(s \ {y}) \ {x}]
      BY <1>2, <2>1, <2>4, <3>1
    <3>4. (s \ {x}) \ {y} = (s \ {y}) \ {x}
      OBVIOUS
    <3>5. f[x] \in Int /\ f[y] \in Int /\ g[(s \ {x}) \ {y}] \in Int
      BY <2>1, SumsAreIntegers
    <3> DEFINE u == g[(s \ {x}) \ {y}]
    <3>6. g[s \ {x}] = f[y] + u /\ g[s \ {y}] = f[x] + u /\ u \in Int
      BY <3>2, <3>3, <3>4, <3>5
    <3> HIDE DEF u
    <3> QED
      BY <2>2, <3>5, <3>6
  <2> QED
    BY <2>3, <2>4
<1>3. Nat \subseteq T
  <2> HIDE DEF T
  <2> QED
    BY <1>1, <1>2, Induction
<1> QED
  BY <1>0, <1>3

(* Functions that agree on a set have the same sum over it. *)
LEMMA SumsAgree ==
  ASSUME NEW S, IsFiniteSet(S), NEW f, NEW e, NEW g, NEW h, SumsOf(f, S, g), SumsOf(e, S, h)
  PROVE  \A s \in SUBSET S : (\A x \in s : f[x] = e[x]) => g[s] = h[s]
<1> DEFINE T == {n \in Nat : \A s \in SUBSET S : Cardinality(s) = n =>
                                ((\A x \in s : f[x] = e[x]) => g[s] = h[s])}
<1>0. \A s \in SUBSET S : IsFiniteSet(s) /\ Cardinality(s) \in Nat
  BY FS_Subset, FS_CardinalityType
<1>1. 0 \in T
  <2>1. g[{}] = 0 /\ h[{}] = 0
    BY SumsUnfold
  <2>2. \A s \in SUBSET S : Cardinality(s) = 0 => s = {}
    BY <1>0, FS_EmptySet
  <2> QED
    BY <2>1, <2>2
<1>2. ASSUME NEW n \in Nat, n \in T PROVE n + 1 \in T
  <2> SUFFICES ASSUME NEW s \in SUBSET S, Cardinality(s) = n + 1, \A x \in s : f[x] = e[x]
               PROVE  g[s] = h[s]
    OBVIOUS
  <2>1. s # {}
    BY FS_EmptySet
  <2>2. Pick(s) \in s
    BY <2>1, PickInSet
  <2>3. Cardinality(s \ {Pick(s)}) = n
    BY <1>0, <2>2, SmallerSet
  <2>4. g[s \ {Pick(s)}] = h[s \ {Pick(s)}]
    BY <1>2, <2>3
  <2> QED
    BY <2>1, <2>2, <2>4, SumsUnfold
<1>3. Nat \subseteq T
  <2> HIDE DEF T
  <2> QED
    BY <1>1, <1>2, Induction
<1> QED
  BY <1>0, <1>3

(* A sum of integers is one, and when one of them changes it changes by as  *)
(* much.                                                                    *)
LEMMA SumUpdate ==
  ASSUME NEW S, IsFiniteSet(S), NEW f, NEW e, DOMAIN f = S, DOMAIN e = S,
         \A x \in S : f[x] \in Int, \A x \in S : e[x] \in Int,
         NEW y \in S, \A x \in S \ {y} : f[x] = e[x]
  PROVE  SumFunction(e) = SumFunction(f) - f[y] + e[y]
<1>1. PICK g : SumsOf(f, S, g) /\ SumFunction(f) = g[S]
  BY SumFunctionSums DEF SumFunction
<1>2. PICK h : SumsOf(e, S, h) /\ SumFunction(e) = h[S]
  BY SumFunctionSums DEF SumFunction
<1>3. g[S] = f[y] + g[S \ {y}]
  BY <1>1, SumsRemove
<1>4. h[S] = e[y] + h[S \ {y}]
  BY <1>2, SumsRemove
<1>5. g[S \ {y}] = h[S \ {y}]
  BY <1>1, <1>2, SumsAgree
<1>6. g[S \ {y}] \in Int
  BY <1>1, SumsAreIntegers
<1> QED
  BY <1>1, <1>2, <1>3, <1>4, <1>5, <1>6

(* SumFunction of a function to the integers is an integer. *)
LEMMA SumType ==
  ASSUME NEW S, IsFiniteSet(S), NEW f, DOMAIN f = S, \A x \in S : f[x] \in Int
  PROVE  SumFunction(f) \in Int
<1>1. PICK g : SumsOf(f, S, g) /\ SumFunction(f) = g[S]
  BY SumFunctionSums DEF SumFunction
<1> QED
  BY <1>1, SumsAreIntegers
=============================================================================
