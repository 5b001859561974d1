---- MODULE Sums ----
(***************************************************************************)
(* Sums over finite sets of rows and accounts, as the folds of the         *)
(* community modules compute them: what one more summand adds, and when    *)
(* two sums are equal.  Induction over the set is by a least               *)
(* counterexample, since the natural numbers are well founded.             *)
(***************************************************************************)
EXTENDS Integers, FiniteSetsExt, FiniteSetTheorems, WellFoundedInduction, TLAPS

(* The sum of F[x] for the x in S; MapThenSumSet of a function. *)
Sum(F, S) == MapThenSumSet(LAMBDA x : F[x], S)

(* One round of the fold: g sums up what is left when an element is taken. *)
Round(F, g, s) ==
    IF s = {} THEN 0 ELSE LET x == CHOOSE x \in s : TRUE IN F[x] + g[s \ {x}]

Solves(g, F, S) == g = [s \in SUBSET S |-> Round(F, g, s)]

(* A nonempty set of numbers has a least one. *)
LEMMA LeastNat ==
    ASSUME NEW R \in SUBSET Nat, R # {}
    PROVE  \E k \in R : \A j \in R : k <= j
  <1>1. IsWellFoundedOn(OpToRel(<, Nat), Nat)
    BY NatLessThanWellFounded
  <1>2. PICK k \in R : \A j \in R : <<j, k>> \notin OpToRel(<, Nat)
    BY <1>1, WFMin
  <1>3. \A j \in R : ~ j < k
    BY <1>2 DEF OpToRel
  <1> QED
    BY <1>3

(* What holds of a finite set when it holds of its proper subsets, holds of
   all its subsets: a smallest counterexample would be none. *)
LEMMA SubsetInduction ==
    ASSUME NEW S, IsFiniteSet(S), NEW Good,
           \A s \in SUBSET S : (\A t \in SUBSET s : t # s => t \in Good) => s \in Good
    PROVE  SUBSET S \subseteq Good
  <1> DEFINE Bad == {s \in SUBSET S : s \notin Good}
             Sizes == {Cardinality(s) : s \in Bad}
  <1>1. ASSUME NEW s \in SUBSET S PROVE IsFiniteSet(s) /\ Cardinality(s) \in Nat
    BY FS_Subset, FS_CardinalityType
  <1>2. SUFFICES ASSUME Bad # {} PROVE FALSE
    OBVIOUS
  <1>3. Sizes \in SUBSET Nat /\ Sizes # {}
    BY <1>1, <1>2
  <1>4. PICK k \in Sizes : \A j \in Sizes : k <= j
    <2> HIDE DEF Sizes
    <2> QED BY <1>3, LeastNat
  <1>5. PICK s \in Bad : Cardinality(s) = k
    OBVIOUS
  <1>6. ASSUME NEW t \in SUBSET s, t # s PROVE t \in Good
    <2>1. Cardinality(t) < Cardinality(s)
      BY <1>1, <1>6, FS_Subset
    <2>2. t \in Bad => k <= Cardinality(t)
      BY <1>4
    <2> QED BY <1>1, <1>5, <2>1, <2>2
  <1> QED BY <1>6

(* The fold is the value at S of a function that satisfies its recursion. *)
LEMMA Unfolded ==
    ASSUME NEW F, NEW S
    PROVE  Sum(F, S) = (CHOOSE g : Solves(g, F, S))[S]
  BY DEF Sum, MapThenSumSet, MapThenFoldSet, Round, Solves

(* Such a function exists: level by level of the size of the subsets. *)
LEMMA Solvable ==
    ASSUME NEW F, NEW S, IsFiniteSet(S)
    PROVE  \E g : Solves(g, F, S)
  <1> DEFINE Upto(n) == {s \in SUBSET S : Cardinality(s) <= n}
             Solved(n) == \E g : g = [s \in Upto(n) |-> Round(F, g, s)]
             Bad == {n \in Nat : ~Solved(n)}
  <1>1. ASSUME NEW s \in SUBSET S
        PROVE  IsFiniteSet(s) /\ Cardinality(s) \in Nat /\ Cardinality(s) <= Cardinality(S)
    BY FS_Subset, FS_CardinalityType
  <1>2. ASSUME NEW s \in SUBSET S, s # {}
        PROVE  LET x == CHOOSE x \in s : TRUE
               IN  s \ {x} \in SUBSET S /\ Cardinality(s \ {x}) = Cardinality(s) - 1
    BY <1>1, <1>2, FS_RemoveElement
  <1>3. Solved(0)
    <2> DEFINE g == [s \in Upto(0) |-> 0]
    <2>1. ASSUME NEW s \in Upto(0) PROVE s = {}
      BY <1>1, FS_EmptySet
    <2>2. g = [s \in Upto(0) |-> Round(F, g, s)]
      BY <2>1 DEF Round
    <2> QED BY <2>2
  <1>4. ASSUME NEW n \in Nat, Solved(n) PROVE Solved(n + 1)
    <2>1. PICK g : g = [s \in Upto(n) |-> Round(F, g, s)]
      BY <1>4
    <2> DEFINE h == [s \in Upto(n + 1) |-> Round(F, g, s)]
    <2>2. ASSUME NEW s \in Upto(n) PROVE s \in Upto(n + 1) /\ h[s] = g[s]
      BY <1>1, <2>1
    <2>3. ASSUME NEW s \in Upto(n + 1) PROVE Round(F, g, s) = Round(F, h, s)
      <3>1. CASE s = {}
        BY <3>1 DEF Round
      <3>2. CASE s # {}
        <4> DEFINE x == CHOOSE x \in s : TRUE
        <4>1. s \ {x} \in Upto(n)
          BY <1>1, <1>2, <3>2
        <4>2. h[s \ {x}] = g[s \ {x}]
          BY <2>2, <4>1
        <4> HIDE DEF h
        <4> QED BY <3>2, <4>2 DEF Round
      <3> QED BY <3>1, <3>2
    <2>4. h = [s \in Upto(n + 1) |-> Round(F, h, s)]
      <3> DEFINE A == Upto(n + 1)
      <3> HIDE DEF A, Upto
      <3> QED BY <2>3
    <2> QED BY <2>4
  <1>5. Solved(Cardinality(S))
    <2>1. Cardinality(S) \in Nat
      BY <1>1
    <2>2. SUFFICES ASSUME Bad # {} PROVE FALSE
      BY <2>1
    <2> HIDE DEF Solved
    <2>3. PICK k \in Bad : \A j \in Bad : k <= j
      BY <2>2, LeastNat
    <2>4. k # 0 /\ k \in Nat
      BY <1>3
    <2>5. k - 1 \in Nat /\ k - 1 \notin Bad
      BY <2>3, <2>4
    <2>6. Solved((k - 1) + 1)
      BY <1>4, <2>5
    <2> QED BY <2>4, <2>6
  <1>6. Upto(Cardinality(S)) = SUBSET S
    BY <1>1
  <1> QED BY <1>5, <1>6 DEF Solves

(* Two sums agree where their summands do. *)
LEMMA Agree ==
    ASSUME NEW F, NEW S, IsFiniteSet(S), NEW g, Solves(g, F, S),
           NEW G, NEW T, NEW h, Solves(h, G, T)
    PROVE  \A s \in SUBSET (S \cap T) : (\A x \in s : F[x] = G[x]) => g[s] = h[s]
  <1> DEFINE U == S \cap T
             Good == {s \in SUBSET U : (\A x \in s : F[x] = G[x]) => g[s] = h[s]}
  <1>1. ASSUME NEW s \in SUBSET U, \A t \in SUBSET s : t # s => t \in Good
        PROVE  s \in Good
    <2> SUFFICES ASSUME \A x \in s : F[x] = G[x] PROVE g[s] = h[s]
      OBVIOUS
    <2>1. g[s] = Round(F, g, s) /\ h[s] = Round(G, h, s)
      BY DEF Solves
    <2>2. CASE s = {}
      BY <2>1, <2>2 DEF Round
    <2>3. CASE s # {}
      <3> DEFINE x == CHOOSE x \in s : TRUE
      <3>1. x \in s
        BY <2>3
      <3>2. g[s \ {x}] = h[s \ {x}]
        <4>1. s \ {x} \in SUBSET s /\ s \ {x} # s
          BY <3>1
        <4>2. s \ {x} \in Good
          BY <1>1, <4>1
        <4> QED BY <4>2
      <3> QED BY <2>1, <2>3, <3>1, <3>2 DEF Round
    <2> QED BY <2>2, <2>3
  <1>2. IsFiniteSet(U)
    BY FS_Subset
  <1>3. SUBSET U \subseteq Good
    <2> HIDE DEF Good, U
    <2> QED BY <1>1, <1>2, SubsetInduction
  <1> QED BY <1>3

(* Whatever satisfies the recursion is the sum. *)
LEMMA Solution ==
    ASSUME NEW F, NEW S, IsFiniteSet(S), NEW g, Solves(g, F, S),
           NEW s \in SUBSET S
    PROVE  Sum(F, s) = g[s]
  <1>1. IsFiniteSet(s)
    BY FS_Subset
  <1>2. PICK h : Solves(h, F, s) /\ Sum(F, s) = h[s]
    <2> DEFINE f == CHOOSE f : Solves(f, F, s)
    <2>1. Solves(f, F, s)
      BY <1>1, Solvable
    <2>2. Sum(F, s) = f[s]
      BY Unfolded
    <2> HIDE DEF f
    <2> QED BY <2>1, <2>2
  <1>4. g[s] = h[s]
    <2>1. s \in SUBSET (S \cap s)
      OBVIOUS
    <2>2. ASSUME NEW G, Solves(h, G, s), \A x \in s : F[x] = G[x] PROVE g[s] = h[s]
      BY <2>1, <2>2, Agree
    <2> QED BY <1>2, <2>2
  <1> QED BY <1>2, <1>4

(* The recursion, without the function that solves it. *)
LEMMA SumRound ==
    ASSUME NEW F, NEW S, IsFiniteSet(S), S # {}
    PROVE  \E x \in S : Sum(F, S) = F[x] + Sum(F, S \ {x})
  <1>1. PICK g : Solves(g, F, S)
    BY Solvable
  <1> DEFINE x == CHOOSE x \in S : TRUE
  <1>2. x \in S
    OBVIOUS
  <1>3. g[S] = F[x] + g[S \ {x}]
    BY <1>1 DEF Round, Solves
  <1>4. Sum(F, S) = g[S] /\ Sum(F, S \ {x}) = g[S \ {x}]
    BY <1>1, Solution
  <1> QED BY <1>2, <1>3, <1>4

(* Nothing adds up to zero. *)
LEMMA SumEmpty == ASSUME NEW F PROVE Sum(F, {}) = 0
  <1>1. IsFiniteSet({})
    BY FS_EmptySet
  <1>2. PICK g : Solves(g, F, {})
    BY <1>1, Solvable
  <1>3. g[{}] = 0
    BY <1>2 DEF Round, Solves
  <1> QED BY <1>1, <1>2, <1>3, Solution

(* A sum of integers is an integer. *)
LEMMA SumType ==
    ASSUME NEW F, NEW S, IsFiniteSet(S), \A x \in S : F[x] \in Int
    PROVE  Sum(F, S) \in Int
  <1> DEFINE Good == {s \in SUBSET S : Sum(F, s) \in Int}
  <1>1. ASSUME NEW s \in SUBSET S, \A t \in SUBSET s : t # s => t \in Good
        PROVE  s \in Good
    <2>1. IsFiniteSet(s)
      BY FS_Subset
    <2>2. CASE s = {}
      BY <2>2, SumEmpty
    <2>3. CASE s # {}
      <3>1. PICK x \in s : Sum(F, s) = F[x] + Sum(F, s \ {x})
        BY <2>1, <2>3, SumRound
      <3>2. s \ {x} \in SUBSET s /\ s \ {x} # s
        OBVIOUS
      <3>3. Sum(F, s \ {x}) \in Int
        BY <1>1, <3>2
      <3> QED BY <3>1, <3>3
    <2> QED BY <2>2, <2>3
  <1>2. SUBSET S \subseteq Good
    <2> HIDE DEF Good
    <2> QED BY <1>1, SubsetInduction
  <1> QED BY <1>2

(* Any element may be taken first. *)
LEMMA SumTake ==
    ASSUME NEW F, NEW S, IsFiniteSet(S), \A x \in S : F[x] \in Int, NEW y \in S
    PROVE  Sum(F, S) = F[y] + Sum(F, S \ {y})
  <1> DEFINE Good == {s \in SUBSET S : \A z \in s : Sum(F, s) = F[z] + Sum(F, s \ {z})}
  <1>0. ASSUME NEW s \in SUBSET S PROVE IsFiniteSet(s) /\ Sum(F, s) \in Int
    BY FS_Subset, SumType
  <1>1. ASSUME NEW s \in SUBSET S, \A t \in SUBSET s : t # s => t \in Good
        PROVE  s \in Good
    <2> SUFFICES ASSUME NEW z \in s PROVE Sum(F, s) = F[z] + Sum(F, s \ {z})
      OBVIOUS
    <2>1. PICK x \in s : Sum(F, s) = F[x] + Sum(F, s \ {x})
      BY <1>0, SumRound
    <2>2. CASE x = z
      BY <2>1, <2>2
    <2>3. CASE x # z
      <3>1. /\ s \ {x} \in SUBSET s /\ s \ {x} # s /\ z \in s \ {x}
            /\ s \ {z} \in SUBSET s /\ s \ {z} # s /\ x \in s \ {z}
        BY <2>3
      <3>2. s \ {x} \in Good /\ s \ {z} \in Good
        BY <1>1, <3>1
      <3>3. /\ Sum(F, s \ {x}) = F[z] + Sum(F, (s \ {x}) \ {z})
            /\ Sum(F, s \ {z}) = F[x] + Sum(F, (s \ {z}) \ {x})
        BY <3>1, <3>2
      <3>4. (s \ {x}) \ {z} = (s \ {z}) \ {x}
        OBVIOUS
      <3>5. (s \ {x}) \ {z} \in SUBSET S /\ F[x] \in Int /\ F[z] \in Int
        OBVIOUS
      <3>6. Sum(F, (s \ {x}) \ {z}) \in Int
        BY <1>0, <3>5
      <3> DEFINE rest == Sum(F, (s \ {x}) \ {z})
      <3>7. /\ Sum(F, s) = F[x] + (F[z] + rest) /\ Sum(F, s \ {z}) = F[x] + rest
            /\ rest \in Int
        BY <2>1, <3>3, <3>4, <3>6
      <3> HIDE DEF rest
      <3> QED BY <3>5, <3>7
    <2> QED BY <2>2, <2>3
  <1>2. SUBSET S \subseteq Good
    <2> HIDE DEF Good
    <2> QED BY <1>1, SubsetInduction
  <1> QED BY <1>2

(* A new summand is added to the sum. *)
LEMMA SumAdd ==
    ASSUME NEW F, NEW S, IsFiniteSet(S), NEW y, y \notin S, F[y] \in Int,
           \A x \in S : F[x] \in Int
    PROVE  Sum(F, S \cup {y}) = Sum(F, S) + F[y]
  <1>1. IsFiniteSet(S \cup {y}) /\ (S \cup {y}) \ {y} = S
    BY FS_AddElement
  <1>2. Sum(F, S \cup {y}) = F[y] + Sum(F, S)
    BY <1>1, SumTake
  <1> QED BY <1>2, SumType

(* Equal summands, equal sums. *)
LEMMA SumSame ==
    ASSUME NEW F, NEW G, NEW S, IsFiniteSet(S), \A x \in S : F[x] = G[x]
    PROVE  Sum(F, S) = Sum(G, S)
  <1>1. PICK g : Solves(g, F, S)
    BY Solvable
  <1>2. PICK h : Solves(h, G, S)
    BY Solvable
  <1>3. g[S] = h[S]
    <2>1. S \in SUBSET (S \cap S)
      OBVIOUS
    <2> QED BY <1>1, <1>2, <2>1, Agree
  <1> QED BY <1>1, <1>2, <1>3, Solution

(* A sum changes with the one summand that changes. *)
LEMMA SumChange ==
    ASSUME NEW F, NEW G, NEW S, IsFiniteSet(S), NEW y \in S,
           \A x \in S : F[x] \in Int /\ G[x] \in Int,
           \A x \in S : x # y => F[x] = G[x]
    PROVE  Sum(G, S) = Sum(F, S) - F[y] + G[y]
  <1>1. IsFiniteSet(S \ {y}) /\ S \ {y} \subseteq S
    BY FS_Subset
  <1>2. Sum(F, S) = F[y] + Sum(F, S \ {y}) /\ Sum(G, S) = G[y] + Sum(G, S \ {y})
    BY SumTake
  <1>3. Sum(F, S \ {y}) = Sum(G, S \ {y}) /\ Sum(F, S \ {y}) \in Int
    BY <1>1, SumSame, SumType
  <1> QED BY <1>2, <1>3

====
