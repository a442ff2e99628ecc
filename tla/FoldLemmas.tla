----------------------------- MODULE FoldLemmas -----------------------------
(***************************************************************************)
(* Induction, and what it gives for functions that are defined by it.  The *)
(* sums and the folds of the models are functions on the subsets of a set, *)
(* or on the numbers up to one: here such a function is shown to exist and *)
(* to satisfy its equation, and what it yields to depend as little on the  *)
(* order of its steps as a reader would expect.                            *)
(*                                                                         *)
(* The induction theorems of the library take a predicate as a parameter;  *)
(* here the predicate is the set of what is good, which the provers can    *)
(* instantiate.                                                            *)
(***************************************************************************)
EXTENDS Integers, FiniteSets, Functions, FiniteSetTheorems, WellFoundedInduction, TLAPS

\* A nonempty set of numbers has a least one.
LEMMA LeastExists ==
  ASSUME NEW S \in SUBSET Nat, S # {}
  PROVE  \E m \in S : \A x \in S : m <= x
<1>1. IsWellFoundedOn(OpToRel(<, Nat), Nat)
  BY NatLessThanWellFounded
<1>2. PICK m \in S : \A x \in S : ~(<<x, m>> \in OpToRel(<, Nat))
  BY <1>1, WFMin
<1>3. \A x \in S : ~(x < m)
  BY <1>2 DEF OpToRel
<1> QED BY <1>3

\* Induction over the numbers, for the members of a set.
LEMMA NumberInduction ==
  ASSUME NEW Good, 0 \in Good, \A n \in Nat : n \in Good => n + 1 \in Good
  PROVE  Nat \subseteq Good
<1> DEFINE Bad == {n \in Nat : n \notin Good}
<1>1. SUFFICES ASSUME Bad # {} PROVE FALSE
  OBVIOUS
<1>2. PICK m \in Bad : \A x \in Bad : m <= x
  <2>1. Bad \in SUBSET Nat
    OBVIOUS
  <2> HIDE DEF Bad
  <2> QED BY <1>1, <2>1, LeastExists
<1>3. m \in Nat /\ m # 0
  OBVIOUS
<1>4. m - 1 \in Nat /\ m - 1 \notin Bad
  BY <1>2, <1>3
<1> QED BY <1>3, <1>4

\* The subsets of a finite set, by size.
LEMMA SubsetSizes ==
  ASSUME NEW S, IsFiniteSet(S), NEW s \in SUBSET S
  PROVE  /\ IsFiniteSet(s) /\ Cardinality(s) \in Nat /\ Cardinality(s) <= Cardinality(S)
         /\ Cardinality(s) <= 0 => s = {}
         /\ \A n \in Nat, x \in s : Cardinality(s) <= n + 1 => Cardinality(s \ {x}) <= n
<1>1. IsFiniteSet(s) /\ Cardinality(s) \in Nat /\ Cardinality(s) <= Cardinality(S)
  BY FS_Subset, FS_CardinalityType
<1>2. ASSUME Cardinality(s) <= 0 PROVE s = {}
  <2>1. Cardinality(s) = 0
    BY <1>1, <1>2
  <2> QED BY <1>1, <2>1, FS_EmptySet
<1>3. ASSUME NEW n \in Nat, NEW x \in s, Cardinality(s) <= n + 1
      PROVE  Cardinality(s \ {x}) <= n
  <2>1. Cardinality(s \ {x}) = Cardinality(s) - 1
    BY <1>1, FS_RemoveElement
  <2> QED BY <1>1, <1>3, <2>1
<1> QED BY <1>1, <1>2, <1>3

\* Induction over the subsets of a finite set, for the members of a set.
LEMMA SubsetInduction ==
  ASSUME NEW S, IsFiniteSet(S), NEW Good, {} \in Good,
         \A s \in SUBSET S : s # {} /\ (\A x \in s : s \ {x} \in Good) => s \in Good
  PROVE  SUBSET S \subseteq Good
<1> DEFINE Small(n) == {s \in SUBSET S : Cardinality(s) <= n}
           Fine == {n \in Nat : Small(n) \subseteq Good}
<1>1. 0 \in Fine
  BY SubsetSizes
<1>2. ASSUME NEW n \in Nat, n \in Fine PROVE n + 1 \in Fine
  <2>1. ASSUME NEW s \in SUBSET S, Cardinality(s) <= n + 1, s # {} PROVE s \in Good
    <3>1. ASSUME NEW x \in s PROVE s \ {x} \in Good
      <4>1. Cardinality(s \ {x}) <= n
        BY <2>1, SubsetSizes
      <4>2. s \ {x} \in Small(n)
        BY <4>1
      <4> QED BY <1>2, <4>2
    <3> QED BY <2>1, <3>1
  <2>2. Small(n + 1) \subseteq Good
    BY <2>1
  <2> QED BY <2>2
<1>3. Nat \subseteq Fine
  <2> HIDE DEF Fine
  <2> QED BY <1>1, <1>2, NumberInduction
<1>4. ASSUME NEW s \in SUBSET S PROVE s \in Good
  <2>1. s \in Small(Cardinality(S)) /\ Cardinality(S) \in Nat
    BY SubsetSizes, FS_CardinalityType
  <2> QED BY <1>3, <2>1
<1> QED BY <1>4

\* c names a member of every nonempty subset; h takes a member and a value to
\* a value; g is the fold that takes the elements in the order of c.
Chooses(c, S) == \A s \in SUBSET S : s # {} => c[s] \in s
Combines(h, S, V) == \A x \in S, v \in V : h[<<x, v>>] \in V
FoldOf(g, base, c, h, S) ==
  \A s \in SUBSET S : g[s] = IF s = {} THEN base ELSE h[<<c[s], g[s \ {c[s]}]>>]

\* A fold over the subsets of a finite set, which takes the elements in the
\* order of c: there is a function that satisfies its equation.
LEMMA FoldExists ==
  ASSUME NEW S, IsFiniteSet(S), NEW V, NEW base \in V,
         NEW c, Chooses(c, S), NEW h, Combines(h, S, V)
  PROVE  \E g \in [SUBSET S -> V] : FoldOf(g, base, c, h, S)
<1> USE DEF Chooses, Combines
<1> DEFINE Next(g) == [s \in SUBSET S |-> IF s = {} THEN base ELSE h[<<c[s], g[s \ {c[s]}]>>]]
           Upto(g, n) == \A s \in SUBSET S : Cardinality(s) <= n => g[s] = Next(g)[s]
           Good == {n \in Nat : \E g \in [SUBSET S -> V] : Upto(g, n)}
<1>1. ASSUME NEW g \in [SUBSET S -> V] PROVE Next(g) \in [SUBSET S -> V]
  <2>1. \A s \in SUBSET S : s # {} => c[s] \in S /\ s \ {c[s]} \in SUBSET S
    OBVIOUS
  <2> QED BY <2>1
<1>2. 0 \in Good
  <2> DEFINE g == [s \in SUBSET S |-> base]
  <2>1. g \in [SUBSET S -> V]
    OBVIOUS
  <2>2. ASSUME NEW s \in SUBSET S, Cardinality(s) <= 0 PROVE g[s] = Next(g)[s]
    <3>1. s = {}
      BY <2>2, SubsetSizes
    <3> QED BY <3>1
  <2>3. Upto(g, 0)
    BY <2>2
  <2> HIDE DEF g, Upto
  <2> QED BY <2>1, <2>3
<1>3. ASSUME NEW n \in Nat, n \in Good PROVE n + 1 \in Good
  <2>1. PICK g \in [SUBSET S -> V] : Upto(g, n)
    BY <1>3
  <2>2. ASSUME NEW s \in SUBSET S, Cardinality(s) <= n + 1
        PROVE  Next(g)[s] = Next(Next(g))[s]
    <3>1. CASE s = {}
      BY <3>1
    <3>2. CASE s # {}
      <4> DEFINE r == s \ {c[s]}
      <4>1. r \in SUBSET S /\ Cardinality(r) <= n
        BY <2>2, <3>2, SubsetSizes
      <4>2. Next(g)[r] = g[r]
        BY <2>1, <4>1
      <4> QED BY <3>2, <4>1, <4>2
    <3> QED BY <3>1, <3>2
  <2>3. Upto(Next(g), n + 1)
    BY <2>2
  <2>4. Next(g) \in [SUBSET S -> V]
    BY <1>1
  <2> HIDE DEF Next, Upto
  <2> QED BY <2>3, <2>4
<1>4. Nat \subseteq Good
  <2> HIDE DEF Good
  <2> QED BY <1>2, <1>3, NumberInduction
<1>5. PICK g \in [SUBSET S -> V] : Upto(g, Cardinality(S))
  BY <1>4, FS_CardinalityType
<1>6. \A s \in SUBSET S : g[s] = Next(g)[s]
  BY <1>5, SubsetSizes
<1> QED BY <1>6 DEF FoldOf

\* A function on the numbers up to n, each value made of the one before.
RecursionOf(f, base, h, n) == f[0] = base /\ \A i \in 1 .. n : f[i] = h[<<i, f[i - 1]>>]

LEMMA RecursionExists ==
  ASSUME NEW n \in Nat, NEW V, NEW base \in V, NEW h, Combines(h, 1 .. n, V)
  PROVE  \E f \in [0 .. n -> V] : RecursionOf(f, base, h, n)
<1> USE DEF RecursionOf, Combines
<1> DEFINE Upto(f, m) == f[0] = base /\ \A i \in 1 .. m : f[i] = h[<<i, f[i - 1]>>]
           Good == {m \in Nat : m <= n => \E f \in [0 .. m -> V] : Upto(f, m)}
<1>1. 0 \in Good
  <2> DEFINE f == [i \in 0 .. 0 |-> base]
  <2>1. f \in [0 .. 0 -> V] /\ Upto(f, 0)
    OBVIOUS
  <2> QED BY <2>1
<1>2. ASSUME NEW m \in Nat, m \in Good PROVE m + 1 \in Good
  <2>1. SUFFICES ASSUME m + 1 <= n PROVE \E f \in [0 .. m + 1 -> V] : Upto(f, m + 1)
    OBVIOUS
  <2>2. PICK f \in [0 .. m -> V] : Upto(f, m)
    BY <1>2, <2>1
  <2> DEFINE g == [i \in 0 .. m + 1 |-> IF i = m + 1 THEN h[<<m + 1, f[m]>>] ELSE f[i]]
  <2>3. f[m] \in V /\ m + 1 \in 1 .. n
    BY <2>1
  <2>4. h[<<m + 1, f[m]>>] \in V
    BY <2>3
  <2>5. g \in [0 .. m + 1 -> V]
    BY <2>4
  <2>6. g[0] = base
    BY <2>2
  <2>7. ASSUME NEW i \in 1 .. m + 1 PROVE g[i] = h[<<i, g[i - 1]>>]
    <3>1. g[i - 1] = f[i - 1]
      OBVIOUS
    <3>2. i # m + 1 => g[i] = f[i] /\ f[i] = h[<<i, f[i - 1]>>]
      BY <2>2
    <3>3. i = m + 1 => g[i] = h[<<i, f[i - 1]>>]
      <4>1. i = m + 1 => i - 1 = m /\ g[i] = h[<<i, f[m]>>]
        OBVIOUS
      <4> QED BY <4>1
    <3> HIDE DEF g
    <3> QED BY <3>1, <3>2, <3>3
  <2>8. Upto(g, m + 1)
    BY <2>6, <2>7
  <2> HIDE DEF g, Upto
  <2> QED BY <2>5, <2>8
<1>3. Nat \subseteq Good
  <2> HIDE DEF Good
  <2> QED BY <1>1, <1>2, NumberInduction
<1> QED BY <1>3

-----------------------------------------------------------------------------
(* Sums.                                                                    *)

\* g holds the sums of f over the subsets of D, in whatever order they are
\* taken.
SumsOf(g, f, D) ==
  /\ g \in [SUBSET D -> Int] /\ g[{}] = 0
  /\ \A s \in SUBSET D : \A x \in s : g[s] = f[x] + g[s \ {x}]

\* SumFunction, which takes the elements as CHOOSE gives them, is one of those.
LEMMA SumUnfolds ==
  ASSUME NEW D, IsFiniteSet(D), NEW f \in [D -> Int]
  PROVE  \E g : SumsOf(g, f, D) /\ SumFunction(f) = g[D]
<1> DEFINE c == [s \in SUBSET D |-> CHOOSE x \in s : TRUE]
           h == [p \in D \X Int |-> f[p[1]] + p[2]]
           Eq(g) == g = [s \in SUBSET D |->
                IF s = {} THEN 0 ELSE LET x == CHOOSE x \in s : TRUE IN f[x] + g[s \ {x}]]
           it == CHOOSE g : Eq(g)
<1>1. \A s \in SUBSET D : s # {} => c[s] \in s
  OBVIOUS
<1>2. \A x \in D, v \in Int : h[<<x, v>>] = f[x] + v /\ h[<<x, v>>] \in Int
  OBVIOUS
<1>3. PICK g \in [SUBSET D -> Int] : \A s \in SUBSET D :
        g[s] = IF s = {} THEN 0 ELSE h[<<c[s], g[s \ {c[s]}]>>]
  <2> DEFINE V == Int
             zero == 0
  <2>1. Combines(h, D, V) /\ Chooses(c, D) /\ zero \in V
    BY <1>1, <1>2 DEF Combines, Chooses
  <2>2. \E g \in [SUBSET D -> V] : FoldOf(g, zero, c, h, D)
    <3> HIDE DEF c, h, V, zero
    <3> QED BY <2>1, FoldExists
  <2> HIDE DEF c, h
  <2> QED BY <2>2 DEF FoldOf
<1>4. Eq(g)
  <2>1. ASSUME NEW s \in SUBSET D, s # {}
        PROVE  h[<<c[s], g[s \ {c[s]}]>>] = f[c[s]] + g[s \ {c[s]}]
    <3>1. c[s] \in D /\ s \ {c[s]} \in SUBSET D
      BY <1>1, <2>1
    <3> HIDE DEF c, h
    <3> QED BY <1>2, <1>3, <3>1
  <2>2. \A s \in SUBSET D : g[s] = IF s = {} THEN 0 ELSE f[c[s]] + g[s \ {c[s]}]
    <3> HIDE DEF c, h
    <3> QED BY <1>3, <2>1
  <2>3. \A s \in SUBSET D : g[s] = IF s = {} THEN 0 ELSE LET x == CHOOSE x \in s : TRUE
                                                          IN f[x] + g[s \ {x}]
    BY <2>2
  <2> HIDE DEF h, c
  <2> QED BY <2>3
<1>5. Eq(it)
  <2>1. \E x : Eq(x)
    BY <1>4
  <2> HIDE DEF Eq
  <2> QED BY <2>1
<1>6. SumFunction(f) = it[D]
  BY Zenon DEF SumFunction, SumFunctionOnSet, FoldFunctionOnSet, MapThenFoldSet
<1>7. ASSUME NEW s \in SUBSET D, s # {} PROVE it[s] = f[c[s]] + it[s \ {c[s]}]
  BY <1>5, <1>7
<1>8. it[{}] = 0 /\ it = [s \in SUBSET D |-> it[s]]
  BY <1>5
<1> HIDE DEF it, c
<1> DEFINE Typed == {s \in SUBSET D : it[s] \in Int}
           Free == {s \in SUBSET D : \A x \in s : it[s] = f[x] + it[s \ {x}]}
<1>9. SUBSET D \subseteq Typed
  <2>1. {} \in Typed
    BY <1>8
  <2>2. ASSUME NEW s \in SUBSET D, s # {}, \A x \in s : s \ {x} \in Typed PROVE s \in Typed
    <3>1. it[s] = f[c[s]] + it[s \ {c[s]}] /\ c[s] \in s
      BY <1>1, <1>7, <2>2
    <3>2. it[s \ {c[s]}] \in Int /\ f[c[s]] \in Int
      BY <2>2, <3>1
    <3> QED BY <3>1, <3>2
  <2> HIDE DEF Typed
  <2> QED BY <2>1, <2>2, SubsetInduction
<1>10. \A s \in SUBSET D : it[s] \in Int
  BY <1>9
<1>11. SUBSET D \subseteq Free
  <2>1. {} \in Free
    OBVIOUS
  <2>2. ASSUME NEW s \in SUBSET D, s # {}, \A x \in s : s \ {x} \in Free PROVE s \in Free
    <3>1. SUFFICES ASSUME NEW x \in s, x # c[s] PROVE it[s] = f[x] + it[s \ {x}]
      BY <1>7, <2>2
    <3> DEFINE y == c[s]
               r == s \ {x, y}
    <3>2. y \in s /\ f[x] \in Int /\ f[y] \in Int /\ it[r] \in Int
      BY <1>1, <1>10, <2>2
    <3>3. (s \ {y}) \ {x} = r /\ (s \ {x}) \ {y} = r
      OBVIOUS
    <3>4. it[s] = f[y] + it[s \ {y}]
      BY <1>7, <2>2
    <3>5. it[s \ {y}] = f[x] + it[r]
      <4>1. s \ {y} \in Free /\ x \in s \ {y}
        BY <2>2, <3>1, <3>2
      <4>2. it[s \ {y}] = f[x] + it[(s \ {y}) \ {x}]
        BY <4>1
      <4> QED BY <3>3, <4>2
    <3>6. it[s \ {x}] = f[y] + it[r]
      <4>1. s \ {x} \in Free /\ y \in s \ {x}
        BY <2>2, <3>1, <3>2
      <4>2. it[s \ {x}] = f[y] + it[(s \ {x}) \ {y}]
        BY <4>1
      <4> QED BY <3>3, <4>2
    <3> HIDE DEF y, r
    <3> QED BY <3>2, <3>4, <3>5, <3>6
  <2> HIDE DEF Free
  <2> QED BY <2>1, <2>2, SubsetInduction
<1>12. SumsOf(it, f, D)
  BY <1>8, <1>10, <1>11 DEF SumsOf
<1> QED BY <1>6, <1>12

\* What is summed over a set depends on the values there only.
LEMMA SumsAgree ==
  ASSUME NEW D, NEW E, NEW S \in SUBSET (D \cap E), IsFiniteSet(S),
         NEW f \in [D -> Int], NEW h \in [E -> Int], \A x \in S : f[x] = h[x],
         NEW g, SumsOf(g, f, D), NEW k, SumsOf(k, h, E)
  PROVE  g[S] = k[S]
<1> DEFINE Good == {s \in SUBSET S : g[s] = k[s]}
<1>1. {} \in Good
  BY DEF SumsOf
<1>2. ASSUME NEW s \in SUBSET S, s # {}, \A x \in s : s \ {x} \in Good PROVE s \in Good
  <2>1. PICK x \in s : TRUE
    BY <1>2
  <2>2. g[s] = f[x] + g[s \ {x}] /\ k[s] = h[x] + k[s \ {x}]
    BY <2>1 DEF SumsOf
  <2>3. g[s \ {x}] = k[s \ {x}] /\ f[x] = h[x]
    BY <1>2, <2>1
  <2> QED BY <2>2, <2>3
<1>3. SUBSET S \subseteq Good
  <2> HIDE DEF Good
  <2> QED BY <1>1, <1>2, SubsetInduction
<1> QED BY <1>3

LEMMA SumType ==
  ASSUME NEW D, IsFiniteSet(D), NEW f \in [D -> Int]
  PROVE  SumFunction(f) \in Int
<1>1. PICK g : SumsOf(g, f, D) /\ SumFunction(f) = g[D]
  BY SumUnfolds
<1> QED BY <1>1 DEF SumsOf

\* The sum of nothing, and of zeroes.
LEMMA SumOfZeroes ==
  ASSUME NEW D, IsFiniteSet(D), NEW f \in [D -> Int], \A x \in D : f[x] = 0
  PROVE  SumFunction(f) = 0
<1>1. PICK g : SumsOf(g, f, D) /\ SumFunction(f) = g[D]
  BY SumUnfolds
<1> DEFINE Good == {s \in SUBSET D : g[s] = 0}
<1>2. {} \in Good
  BY <1>1 DEF SumsOf
<1>3. ASSUME NEW s \in SUBSET D, s # {}, \A x \in s : s \ {x} \in Good PROVE s \in Good
  <2>1. PICK x \in s : g[s] = f[x] + g[s \ {x}]
    BY <1>1, <1>3 DEF SumsOf
  <2>2. f[x] = 0 /\ g[s \ {x}] = 0
    BY <1>3
  <2> QED BY <2>1, <2>2
<1>4. SUBSET D \subseteq Good
  <2> HIDE DEF Good
  <2> QED BY <1>2, <1>3, SubsetInduction
<1> QED BY <1>1, <1>4

\* One value changes.
LEMMA SumChanges ==
  ASSUME NEW D, IsFiniteSet(D), NEW f \in [D -> Int], NEW h \in [D -> Int],
         NEW x \in D, \A y \in D \ {x} : h[y] = f[y]
  PROVE  SumFunction(h) = SumFunction(f) + h[x] - f[x]
<1>1. PICK g : SumsOf(g, f, D) /\ SumFunction(f) = g[D]
  BY SumUnfolds
<1>2. PICK k : SumsOf(k, h, D) /\ SumFunction(h) = k[D]
  BY SumUnfolds
<1>3. D \ {x} \in SUBSET (D \cap D) /\ IsFiniteSet(D \ {x})
  BY FS_RemoveElement
<1>4. g[D \ {x}] = k[D \ {x}]
  BY <1>1, <1>2, <1>3, SumsAgree
<1>5. g[D] = f[x] + g[D \ {x}] /\ k[D] = h[x] + k[D \ {x}] /\ g[D \ {x}] \in Int
  BY <1>1, <1>2 DEF SumsOf
<1> QED BY <1>1, <1>2, <1>4, <1>5

\* One element more.
LEMMA SumGrows ==
  ASSUME NEW D, IsFiniteSet(D), NEW x, x \notin D, NEW f \in [D -> Int],
         NEW h \in [D \cup {x} -> Int], \A y \in D : h[y] = f[y]
  PROVE  SumFunction(h) = SumFunction(f) + h[x]
<1> DEFINE E == D \cup {x}
<1>1. PICK g : SumsOf(g, f, D) /\ SumFunction(f) = g[D]
  BY SumUnfolds
<1>2. PICK k : SumsOf(k, h, E) /\ SumFunction(h) = k[E]
  BY SumUnfolds, FS_AddElement
<1>3. D \in SUBSET (D \cap E)
  OBVIOUS
<1>4. g[D] = k[D]
  BY <1>1, <1>2, <1>3, SumsAgree
<1>5. k[E] = h[x] + k[D] /\ k[D] \in Int
  <2>1. E \ {x} = D
    OBVIOUS
  <2> QED BY <1>2, <2>1 DEF SumsOf
<1> QED BY <1>1, <1>2, <1>4, <1>5
=============================================================================
