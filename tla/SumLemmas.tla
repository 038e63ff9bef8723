----------------------------- MODULE SumLemmas -----------------------------
(***************************************************************************)
(* What the components' proofs need of a sum over a finite set: the        *)
(* balances of accounts, the deposits of milestones, the percentages of a  *)
(* panel of judges.                                                        *)
(*                                                                         *)
(* SumFunctionOnSet is a recursive function on the subsets of its index    *)
(* set.  The induction rules below are stated of a set G instead of a      *)
(* predicate, so that a proof instantiates them with a set comprehension.  *)
(***************************************************************************)
EXTENDS Integers, FiniteSets, Functions, FiniteSetTheorems,
        WellFoundedInduction, TLAPS

\* A set with 0 that is closed under successor contains every natural: a
\* least one outside it would have a predecessor inside.
LEMMA NatRule ==
  ASSUME NEW G, 0 \in G, \A n \in Nat : n \in G => n + 1 \in G
  PROVE  Nat \subseteq G
<1> DEFINE Bad == {n \in Nat : n \notin G}
<1>1. SUFFICES Bad = {}
  OBVIOUS
<1>2. SUFFICES ASSUME Bad # {} PROVE FALSE
  OBVIOUS
<1>3. PICK n \in Bad : \A k \in Bad : <<k, n>> \notin OpToRel(<, Nat)
  <2>1. Bad \subseteq Nat
    OBVIOUS
  <2> HIDE DEF Bad
  <2> QED BY <1>2, <2>1, NatLessThanWellFounded, WFMin
<1>4. n # 0 /\ n - 1 \in Nat
  OBVIOUS
<1>5. <<n - 1, n>> \in OpToRel(<, Nat)
  BY <1>4 DEF OpToRel
<1>6. n - 1 \in G
  BY <1>3, <1>4, <1>5
<1> QED BY <1>4, <1>6

\* A set that contains a subset of S as soon as it contains that subset less
\* any one element contains all of them, when S is finite.
LEMMA SubsetRule ==
  ASSUME NEW S, IsFiniteSet(S), NEW G,
         \A s \in SUBSET S : (\A x \in s : s \ {x} \in G) => s \in G
  PROVE  \A s \in SUBSET S : s \in G
<1> DEFINE Bad == {s \in SUBSET S : s \notin G}
<1>1. SUFFICES ASSUME Bad # {} PROVE FALSE
  OBVIOUS
<1>2. PICK s \in Bad : \A t \in Bad : <<t, s>> \notin StrictSubsetOrdering(S)
  <2>1. Bad \subseteq FiniteSubsetsOf(S)
    BY FS_FiniteSubsetsOfFinite
  <2> HIDE DEF Bad
  <2> QED BY <1>1, <2>1, FS_StrictSubsetOrderingWellFounded, WFMin
<1>3. PICK x \in s : s \ {x} \notin G
  OBVIOUS
<1>4. s \ {x} \in Bad /\ s \ {x} # s
  <2>1. s \in SUBSET S /\ x \notin s \ {x} /\ x \in s
    OBVIOUS
  <2>2. s \ {x} \in SUBSET S
    BY <2>1
  <2> QED BY <1>3, <2>1, <2>2
<1>5. <<s \ {x}, s>> \in StrictSubsetOrdering(S)
  BY <1>4 DEF StrictSubsetOrdering
<1> QED BY <1>2, <1>4, <1>5

\* The element the sum takes out of s first.
Pick(s) == CHOOSE x \in s : TRUE

\* g solves the recursion of the sum of f, for the index sets in D.
Iterates(g, f, D) ==
  g = [s \in D |-> IF s = {} THEN 0 ELSE f[Pick(s)] + g[s \ {Pick(s)}]]

\* SumFunctionOnSet, with its definitions expanded.
LEMMA Unfold ==
  ASSUME NEW f, NEW S
  PROVE SumFunctionOnSet(f, S) = (CHOOSE g : Iterates(g, f, SUBSET S))[S]
BY DEF SumFunctionOnSet, FoldFunctionOnSet, MapThenFoldSet, Iterates, Pick

\* A nonempty finite set has an element, without which it is smaller by one.
LEMMA Smaller ==
  ASSUME NEW S, IsFiniteSet(S), NEW s \in SUBSET S, s # {}
  PROVE  /\ Pick(s) \in s
         /\ Cardinality(s) \in Nat \ {0}
         /\ Cardinality(s \ {Pick(s)}) = Cardinality(s) - 1
<1>1. Pick(s) \in s
  BY DEF Pick
<1>2. IsFiniteSet(s)
  BY FS_Subset
<1> QED BY <1>1, <1>2, FS_CardinalityType, FS_EmptySet, FS_RemoveElement

\* The recursion has a solution on the subsets of a finite set, built for
\* larger and larger ones.
LEMMA IterationExists ==
  ASSUME NEW S, IsFiniteSet(S), NEW f
  PROVE  \E g : Iterates(g, f, SUBSET S)
<1> DEFINE D(n) == {s \in SUBSET S : Cardinality(s) <= n}
           G == {n \in Nat : \E g : Iterates(g, f, D(n))}
<1>1. 0 \in G
  <2> DEFINE g == [s \in D(0) |-> 0]
  <2>1. \A s \in D(0) : s = {}
    <3> SUFFICES ASSUME NEW s \in SUBSET S, Cardinality(s) <= 0, s # {} PROVE FALSE
      OBVIOUS
    <3>1. Cardinality(s) \in Nat \ {0}
      BY Smaller
    <3> QED BY <3>1
  <2>2. Iterates(g, f, D(0))
    BY <2>1 DEF Iterates
  <2> QED BY <2>2
<1>2. \A n \in Nat : n \in G => n + 1 \in G
  <2> SUFFICES ASSUME NEW n \in Nat, n \in G PROVE n + 1 \in G
    OBVIOUS
  <2>1. PICK g : Iterates(g, f, D(n))
    OBVIOUS
  <2> DEFINE h == [s \in D(n + 1) |->
                      IF s = {} THEN 0 ELSE f[Pick(s)] + g[s \ {Pick(s)}]]
  <2>2. \A s \in D(n) : s \in D(n + 1) /\ h[s] = g[s]
    <3> SUFFICES ASSUME NEW s \in D(n) PROVE s \in D(n + 1) /\ h[s] = g[s]
      OBVIOUS
    <3>1. s \in D(n + 1)
      BY FS_Subset, FS_CardinalityType
    <3>2. g[s] = IF s = {} THEN 0 ELSE f[Pick(s)] + g[s \ {Pick(s)}]
      BY <2>1 DEF Iterates
    <3> QED BY <3>1, <3>2
  <2>3. \A s \in D(n + 1) : s # {} => s \ {Pick(s)} \in D(n)
    BY Smaller
  <2>4. \A s \in D(n + 1) : s # {} => h[s \ {Pick(s)}] = g[s \ {Pick(s)}]
    <3> HIDE DEF h
    <3> QED BY <2>2, <2>3
  <2>5. Iterates(h, f, D(n + 1))
    BY <2>4 DEF Iterates
  <2>6. n + 1 \in Nat /\ \E i : Iterates(i, f, D(n + 1))
    <3> HIDE DEF h, D
    <3> QED BY <2>5
  <2> QED BY <2>6
<1>3. Cardinality(S) \in G
  <2> HIDE DEF G
  <2> QED BY <1>1, <1>2, NatRule, FS_CardinalityType
<1>4. D(Cardinality(S)) = SUBSET S
  BY FS_Subset
<1> QED BY <1>3, <1>4

\* Solutions on a set and on a subset of it agree on the smaller one.
LEMMA IterationUnique ==
  ASSUME NEW S, IsFiniteSet(S), NEW T \in SUBSET S, NEW f, NEW g, NEW h,
         Iterates(g, f, SUBSET S), Iterates(h, f, SUBSET T)
  PROVE  g[T] = h[T]
<1> DEFINE G == {s \in SUBSET T : g[s] = h[s]}
<1>1. IsFiniteSet(T)
  BY FS_Subset
<1>2. ASSUME NEW s \in SUBSET T, \A x \in s : s \ {x} \in G PROVE s \in G
  <2>1. s # {} => Pick(s) \in s
    BY DEF Pick
  <2>2. g[s] = IF s = {} THEN 0 ELSE f[Pick(s)] + g[s \ {Pick(s)}]
    BY DEF Iterates
  <2>3. h[s] = IF s = {} THEN 0 ELSE f[Pick(s)] + h[s \ {Pick(s)}]
    BY DEF Iterates
  <2> QED BY <1>2, <2>1, <2>2, <2>3
<1>3. T \in G
  <2> HIDE DEF G
  <2> QED BY <1>1, <1>2, SubsetRule
<1> QED BY <1>3

\* The equation the sum is defined by: an arbitrary element is taken out.
LEMMA SumEquation ==
  ASSUME NEW S, IsFiniteSet(S), NEW f
  PROVE  SumFunctionOnSet(f, S) =
            IF S = {} THEN 0
            ELSE f[Pick(S)] + SumFunctionOnSet(f, S \ {Pick(S)})
<1> DEFINE g == CHOOSE g : Iterates(g, f, SUBSET S)
           T == S \ {Pick(S)}
           h == CHOOSE h : Iterates(h, f, SUBSET T)
<1>1. IsFiniteSet(T)
  BY FS_Subset
<1>2. Iterates(g, f, SUBSET S) /\ Iterates(h, f, SUBSET T)
  BY <1>1, IterationExists
<1>3. g[T] = h[T]
  <2>1. T \in SUBSET S
    OBVIOUS
  <2> HIDE DEF g, h, T
  <2> QED BY <1>2, <2>1, IterationUnique
<1>4. g[S] = IF S = {} THEN 0 ELSE f[Pick(S)] + g[T]
  <2> HIDE DEF g
  <2> QED BY <1>2 DEF Iterates
<1>5. SumFunctionOnSet(f, S) = g[S] /\ SumFunctionOnSet(f, T) = h[T]
  BY Unfold
<1> HIDE DEF g, h
<1> QED BY <1>3, <1>4, <1>5

-----------------------------------------------------------------------------
\* The sum over no index is 0.
LEMMA SumEmpty ==
  ASSUME NEW f
  PROVE  SumFunctionOnSet(f, {}) = 0
BY SumEquation, FS_EmptySet

\* A sum of integers is an integer, over every subset of the indices.
LEMMA SumInt ==
  ASSUME NEW S, IsFiniteSet(S), NEW f, \A x \in S : f[x] \in Int
  PROVE  \A s \in SUBSET S : SumFunctionOnSet(f, s) \in Int
<1> DEFINE G == {s \in SUBSET S : SumFunctionOnSet(f, s) \in Int}
<1>1. \A s \in SUBSET S : (\A x \in s : s \ {x} \in G) => s \in G
  <2> SUFFICES ASSUME NEW s \in SUBSET S, \A x \in s : s \ {x} \in G PROVE s \in G
    OBVIOUS
  <2>1. IsFiniteSet(s)
    BY FS_Subset
  <2>2. CASE s = {}
    BY <2>2, SumEmpty
  <2>3. CASE s # {}
    <3>1. Pick(s) \in s
      BY <2>3 DEF Pick
    <3>2. SumFunctionOnSet(f, s \ {Pick(s)}) \in Int
      BY <3>1
    <3>3. f[Pick(s)] \in Int
      BY <3>1
    <3>4. SumFunctionOnSet(f, s) = f[Pick(s)] + SumFunctionOnSet(f, s \ {Pick(s)})
      BY <2>1, <2>3, SumEquation
    <3>5. SumFunctionOnSet(f, s) \in Int
      BY ONLY <3>2, <3>3, <3>4
    <3> QED BY <3>5
  <2> QED BY <2>2, <2>3
<1>2. \A s \in SUBSET S : s \in G
  <2> HIDE DEF G
  <2> QED BY <1>1, SubsetRule
<1> QED BY <1>2

\* Any element may be taken out first: the order does not matter.
LEMMA SumRemove ==
  ASSUME NEW S, IsFiniteSet(S), NEW f, \A x \in S : f[x] \in Int, NEW e \in S
  PROVE  SumFunctionOnSet(f, S) = f[e] + SumFunctionOnSet(f, S \ {e})
<1> DEFINE Sum(s) == SumFunctionOnSet(f, s)
           G == {s \in SUBSET S : \A x \in s : Sum(s) = f[x] + Sum(s \ {x})}
<1> HIDE DEF Sum
<1>1. \A s \in SUBSET S : (\A x \in s : s \ {x} \in G) => s \in G
  <2> SUFFICES ASSUME NEW s \in SUBSET S, \A x \in s : s \ {x} \in G PROVE s \in G
    OBVIOUS
  <2> SUFFICES ASSUME NEW x \in s PROVE Sum(s) = f[x] + Sum(s \ {x})
    OBVIOUS
  <2> DEFINE p == Pick(s)
  <2>1. IsFiniteSet(s)
    BY FS_Subset
  <2>2. p \in s
    BY DEF Pick
  <2>3. Sum(s) = f[p] + Sum(s \ {p})
    BY <2>1, SumEquation DEF Sum
  <2>4. CASE x # p
    <3>1. Sum(s \ {p}) = f[x] + Sum((s \ {p}) \ {x})
      BY <2>2, <2>4
    <3>2. Sum(s \ {x}) = f[p] + Sum((s \ {x}) \ {p})
      BY <2>2, <2>4
    <3>3. (s \ {p}) \ {x} = (s \ {x}) \ {p} /\ (s \ {p}) \ {x} \in SUBSET S
      OBVIOUS
    <3> DEFINE rest == Sum((s \ {p}) \ {x})
    <3>4. rest \in Int /\ rest = Sum((s \ {x}) \ {p})
      BY <3>3, SumInt DEF Sum
    <3>5. f[x] \in Int /\ f[p] \in Int
      BY <2>2
    <3>6. Sum(s) = f[p] + (f[x] + rest) /\ Sum(s \ {x}) = f[p] + rest
      BY <2>3, <3>1, <3>2, <3>4
    <3> HIDE DEF p, rest
    <3> QED BY ONLY <3>4, <3>5, <3>6
  <2> QED BY <2>3, <2>4
<1>2. \A s \in SUBSET S : s \in G
  <2> HIDE DEF G
  <2> QED BY <1>1, SubsetRule
<1> QED BY <1>2 DEF Sum

\* A sum grows with its terms.
LEMMA SumAtMost ==
  ASSUME NEW S, IsFiniteSet(S), NEW f, NEW g,
         \A x \in S : f[x] \in Int /\ g[x] \in Int /\ f[x] <= g[x]
  PROVE  SumFunctionOnSet(f, S) <= SumFunctionOnSet(g, S)
<1> DEFINE SumF(s) == SumFunctionOnSet(f, s)
           SumG(s) == SumFunctionOnSet(g, s)
           G == {s \in SUBSET S : SumF(s) <= SumG(s)}
<1> HIDE DEF SumF, SumG
<1>1. \A s \in SUBSET S : (\A x \in s : s \ {x} \in G) => s \in G
  <2> SUFFICES ASSUME NEW s \in SUBSET S, \A x \in s : s \ {x} \in G PROVE s \in G
    OBVIOUS
  <2>1. IsFiniteSet(s)
    BY FS_Subset
  <2>2. CASE s = {}
    BY <2>2, SumEmpty DEF SumF, SumG
  <2>3. ASSUME NEW x \in s PROVE s \in G
    <3>1. SumF(s) = f[x] + SumF(s \ {x}) /\ SumG(s) = g[x] + SumG(s \ {x})
      BY <2>1, SumRemove DEF SumF, SumG
    <3>2. SumF(s \ {x}) <= SumG(s \ {x})
      OBVIOUS
    <3>3. SumF(s \ {x}) \in Int /\ SumG(s \ {x}) \in Int
      BY SumInt DEF SumF, SumG
    <3>4. f[x] \in Int /\ g[x] \in Int /\ f[x] <= g[x]
      OBVIOUS
    <3> QED BY <3>1, <3>2, <3>3, <3>4
  <2> QED BY <2>2, <2>3
<1>2. \A s \in SUBSET S : s \in G
  <2> HIDE DEF G
  <2> QED BY <1>1, SubsetRule
<1> QED BY <1>2 DEF SumF, SumG

\* The sum of the sums of two functions is the sum of both.
LEMMA SumAdd ==
  ASSUME NEW S, IsFiniteSet(S), NEW f, NEW g, NEW h,
         \A x \in S : f[x] \in Int /\ g[x] \in Int /\ h[x] = f[x] + g[x]
  PROVE  SumFunctionOnSet(h, S) = SumFunctionOnSet(f, S) + SumFunctionOnSet(g, S)
<1> DEFINE SumF(s) == SumFunctionOnSet(f, s)
           SumG(s) == SumFunctionOnSet(g, s)
           SumH(s) == SumFunctionOnSet(h, s)
           G == {s \in SUBSET S : SumH(s) = SumF(s) + SumG(s)}
<1> HIDE DEF SumF, SumG, SumH
<1>1. \A s \in SUBSET S : (\A x \in s : s \ {x} \in G) => s \in G
  <2> SUFFICES ASSUME NEW s \in SUBSET S, \A x \in s : s \ {x} \in G PROVE s \in G
    OBVIOUS
  <2>1. CASE s = {}
    BY <2>1, SumEmpty DEF SumF, SumG, SumH
  <2>2. ASSUME NEW x \in s PROVE s \in G
    <3> DEFINE t == s \ {x}
    <3>1. IsFiniteSet(s)
      BY FS_Subset
    <3>2. /\ SumF(s) = f[x] + SumF(t)
          /\ SumG(s) = g[x] + SumG(t)
          /\ SumH(s) = h[x] + SumH(t)
      BY <3>1, SumRemove DEF SumF, SumG, SumH
    <3>3. SumH(t) = SumF(t) + SumG(t)
      OBVIOUS
    <3>4. SumF(t) \in Int /\ SumG(t) \in Int
      BY SumInt DEF SumF, SumG
    <3>5. f[x] \in Int /\ g[x] \in Int /\ h[x] = f[x] + g[x]
      OBVIOUS
    <3>6. SumH(s) = SumF(s) + SumG(s)
      <4> HIDE DEF t
      <4> QED BY ONLY <3>2, <3>3, <3>4, <3>5
    <3> QED BY <3>6
  <2> QED BY <2>1, <2>2
<1>2. \A s \in SUBSET S : s \in G
  <2> HIDE DEF G
  <2> QED BY <1>1, SubsetRule
<1> QED BY <1>2 DEF SumF, SumG, SumH

\* A sum depends on the terms alone.
LEMMA SumSame ==
  ASSUME NEW S, IsFiniteSet(S), NEW f, NEW g,
         \A x \in S : f[x] \in Int /\ g[x] = f[x]
  PROVE  SumFunctionOnSet(g, S) = SumFunctionOnSet(f, S)
<1>1. SumFunctionOnSet(f, S) \in Int /\ SumFunctionOnSet(g, S) \in Int
  BY SumInt
<1>2. SumFunctionOnSet(f, S) <= SumFunctionOnSet(g, S)
  BY SumAtMost
<1>3. SumFunctionOnSet(g, S) <= SumFunctionOnSet(f, S)
  BY SumAtMost
<1> QED BY <1>1, <1>2, <1>3

\* A sum of zeros is 0.
LEMMA SumZero ==
  ASSUME NEW S, IsFiniteSet(S), NEW f, \A x \in S : f[x] = 0
  PROVE  SumFunctionOnSet(f, S) = 0
<1> DEFINE G == {s \in SUBSET S : SumFunctionOnSet(f, s) = 0}
<1>1. \A s \in SUBSET S : (\A x \in s : s \ {x} \in G) => s \in G
  <2> SUFFICES ASSUME NEW s \in SUBSET S, \A x \in s : s \ {x} \in G PROVE s \in G
    OBVIOUS
  <2>1. CASE s = {}
    BY <2>1, SumEmpty
  <2>2. ASSUME NEW x \in s PROVE s \in G
    <3>1. SumFunctionOnSet(f, s) = f[x] + SumFunctionOnSet(f, s \ {x})
      BY SumRemove, FS_Subset
    <3> QED BY <3>1
  <2> QED BY <2>1, <2>2
<1>2. \A s \in SUBSET S : s \in G
  <2> HIDE DEF G
  <2> QED BY <1>1, SubsetRule
<1> QED BY <1>2

\* A sum of naturals is a natural.
LEMMA SumNat ==
  ASSUME NEW S, IsFiniteSet(S), NEW f, \A x \in S : f[x] \in Nat
  PROVE  SumFunctionOnSet(f, S) \in Nat
<1> DEFINE z == [x \in S |-> 0]
<1>1. SumFunctionOnSet(z, S) = 0
  BY SumZero
<1>2. SumFunctionOnSet(z, S) <= SumFunctionOnSet(f, S)
  BY SumAtMost
<1>3. SumFunctionOnSet(f, S) \in Int
  BY SumInt
<1> QED BY <1>1, <1>2, <1>3

\* A sum of naturals is at least each of them.
LEMMA SumHasMember ==
  ASSUME NEW S, IsFiniteSet(S), NEW f, \A x \in S : f[x] \in Nat, NEW e \in S
  PROVE  f[e] <= SumFunctionOnSet(f, S)
<1>1. SumFunctionOnSet(f, S) = f[e] + SumFunctionOnSet(f, S \ {e})
  BY SumRemove
<1>2. SumFunctionOnSet(f, S \ {e}) \in Nat
  BY SumNat, FS_Subset
<1>3. f[e] \in Nat
  OBVIOUS
<1> QED BY <1>1, <1>2, <1>3

\* Changing one term changes the sum by as much.
LEMMA SumUpdate ==
  ASSUME NEW S, IsFiniteSet(S), NEW f, NEW g, NEW e \in S,
         \A x \in S : f[x] \in Int /\ g[x] \in Int,
         \A x \in S \ {e} : g[x] = f[x]
  PROVE  SumFunctionOnSet(g, S) = SumFunctionOnSet(f, S) + g[e] - f[e]
<1>1. SumFunctionOnSet(f, S) = f[e] + SumFunctionOnSet(f, S \ {e})
  BY SumRemove
<1>2. SumFunctionOnSet(g, S) = g[e] + SumFunctionOnSet(g, S \ {e})
  BY SumRemove
<1>3. SumFunctionOnSet(g, S \ {e}) = SumFunctionOnSet(f, S \ {e})
  BY SumSame, FS_Subset
<1>4. SumFunctionOnSet(f, S \ {e}) \in Int
  BY SumInt
<1> QED BY <1>1, <1>2, <1>3, <1>4

\* The same of a function that is updated at e.
LEMMA SumExcept ==
  ASSUME NEW S, IsFiniteSet(S), NEW f \in [S -> Int], NEW e \in S, NEW v \in Int
  PROVE  SumFunctionOnSet([f EXCEPT ![e] = v], S) = SumFunctionOnSet(f, S) + v - f[e]
<1> DEFINE g == [f EXCEPT ![e] = v]
<1>1. /\ \A x \in S : f[x] \in Int /\ g[x] \in Int
      /\ \A x \in S \ {e} : g[x] = f[x]
      /\ g[e] = v
  OBVIOUS
<1> HIDE DEF g
<1>2. SumFunctionOnSet(g, S) = SumFunctionOnSet(f, S) + v - f[e]
  BY <1>1, SumUpdate
<1> QED BY <1>2 DEF g

\* The total of n terms is at most n times their upper bound.
LEMMA SumBound ==
  ASSUME NEW S, IsFiniteSet(S), NEW f, NEW c \in Int,
         \A x \in S : f[x] \in Int /\ f[x] <= c
  PROVE  SumFunctionOnSet(f, S) <= Cardinality(S) * c
<1> DEFINE Sum(s) == SumFunctionOnSet(f, s)
           G == {s \in SUBSET S : Sum(s) <= Cardinality(s) * c}
<1> HIDE DEF Sum
<1>1. \A s \in SUBSET S : (\A x \in s : s \ {x} \in G) => s \in G
  <2> SUFFICES ASSUME NEW s \in SUBSET S, \A x \in s : s \ {x} \in G PROVE s \in G
    OBVIOUS
  <2>1. IsFiniteSet(s)
    BY FS_Subset
  <2>2. CASE s = {}
    BY <2>2, SumEmpty, FS_EmptySet DEF Sum
  <2>3. ASSUME NEW x \in s PROVE s \in G
    <3> DEFINE n == Cardinality(s \ {x})
    <3>1. Sum(s) = f[x] + Sum(s \ {x})
      BY <2>1, SumRemove DEF Sum
    <3>2. n \in Nat /\ Cardinality(s) = n + 1
      BY <2>1, FS_RemoveElement, FS_CardinalityType, FS_Subset
    <3>3. Sum(s \ {x}) <= n * c
      OBVIOUS
    <3>4. Sum(s \ {x}) \in Int
      BY SumInt DEF Sum
    <3>5. (n + 1) * c = n * c + c /\ n * c \in Int
      <4> HIDE DEF n
      <4> QED BY ONLY <3>2, c \in Int, Z3
    <3>6. f[x] \in Int /\ f[x] <= c
      OBVIOUS
    <3>7. Sum(s) <= (n + 1) * c
      <4> HIDE DEF n
      <4> QED BY <3>1, <3>3, <3>4, <3>5, <3>6
    <3> QED BY <3>2, <3>7
  <2> QED BY <2>2, <2>3
<1>2. \A s \in SUBSET S : s \in G
  <2> HIDE DEF G
  <2> QED BY <1>1, SubsetRule
<1> QED BY <1>2 DEF Sum

\* The total of n terms is at least n times their lower bound.
LEMMA SumFloor ==
  ASSUME NEW S, IsFiniteSet(S), NEW f, NEW c \in Int,
         \A x \in S : f[x] \in Int /\ f[x] >= c
  PROVE  SumFunctionOnSet(f, S) >= Cardinality(S) * c
<1> DEFINE g == [x \in S |-> 0 - f[x]]
           n == Cardinality(S)
           zero == [x \in S |-> 0]
<1>1. SumFunctionOnSet(g, S) <= n * (0 - c)
  <2>1. \A x \in S : g[x] \in Int /\ g[x] <= 0 - c
    OBVIOUS
  <2> HIDE DEF g
  <2> QED BY <2>1, SumBound
<1>2. SumFunctionOnSet(zero, S) = SumFunctionOnSet(f, S) + SumFunctionOnSet(g, S)
  <2>1. \A x \in S : f[x] \in Int /\ g[x] \in Int /\ zero[x] = f[x] + g[x]
    OBVIOUS
  <2> HIDE DEF g, zero
  <2> QED BY <2>1, SumAdd
<1>3. SumFunctionOnSet(zero, S) = 0
  BY SumZero
<1>4. SumFunctionOnSet(f, S) \in Int /\ SumFunctionOnSet(g, S) \in Int
  BY SumInt
<1>5. n \in Nat
  BY FS_CardinalityType
<1>6. n * (0 - c) = 0 - n * c /\ n * c \in Int
  <2> HIDE DEF n
  <2> QED BY ONLY <1>5, c \in Int, Z3
<1> HIDE DEF n, g, zero
<1>7. SumFunctionOnSet(f, S) >= n * c
  BY ONLY <1>1, <1>2, <1>3, <1>4, <1>6
<1> QED BY <1>7 DEF n

\* The sum over a set is that over a part of it and that over the rest.
LEMMA SumSplit ==
  ASSUME NEW S, IsFiniteSet(S), NEW f, \A x \in S : f[x] \in Int, NEW T \in SUBSET S
  PROVE  SumFunctionOnSet(f, S) = SumFunctionOnSet(f, T) + SumFunctionOnSet(f, S \ T)
<1> DEFINE Sum(s) == SumFunctionOnSet(f, s)
           G == {s \in SUBSET S : Sum(S) = Sum(s) + Sum(S \ s)}
<1>1. \A s \in SUBSET S : Sum(s) \in Int
  BY SumInt
<1> HIDE DEF Sum
<1>2. \A s \in SUBSET S : (\A x \in s : s \ {x} \in G) => s \in G
  <2> SUFFICES ASSUME NEW s \in SUBSET S, \A x \in s : s \ {x} \in G PROVE s \in G
    OBVIOUS
  <2>1. CASE s = {}
    <3>1. Sum(s) = 0 /\ S \ s = S
      BY <2>1, SumEmpty DEF Sum
    <3>2. Sum(S \ s) = Sum(S) /\ Sum(S) \in Int
      BY <1>1, <3>1, Zenon
    <3>3. Sum(S) = Sum(s) + Sum(S \ s)
      BY ONLY <3>1, <3>2
    <3> QED BY <3>3
  <2>2. ASSUME NEW x \in s PROVE s \in G
    <3> DEFINE t == s \ {x}
    <3>1. Sum(S) = Sum(t) + Sum(S \ t)
      OBVIOUS
    <3>2. Sum(s) = f[x] + Sum(t)
      BY SumRemove, FS_Subset DEF Sum
    <3>3. Sum(S \ t) = f[x] + Sum((S \ t) \ {x})
      BY SumRemove, FS_Subset DEF Sum
    <3>4. (S \ t) \ {x} = S \ s
      OBVIOUS
    <3>5. f[x] \in Int /\ Sum(t) \in Int /\ Sum(S \ s) \in Int
      BY <1>1
    <3>6. Sum(S \ t) = f[x] + Sum(S \ s)
      BY <3>3, <3>4
    <3> HIDE DEF t
    <3>7. Sum(S) = Sum(s) + Sum(S \ s)
      BY ONLY <3>1, <3>2, <3>5, <3>6
    <3> QED BY <3>7
  <2> QED BY <2>1, <2>2
<1>3. \A s \in SUBSET S : s \in G
  <2> HIDE DEF G
  <2> QED BY <1>2, SubsetRule
<1> QED BY <1>3 DEF Sum

\* Summing group by group, and then the groups, sums all: what a batch pays
\* to each account adds up to what the batch pays.
LEMMA SumGrouped ==
  ASSUME NEW S, IsFiniteSet(S), NEW f, \A x \in S : f[x] \in Int,
         NEW U, IsFiniteSet(U), NEW to, \A x \in S : to[x] \in U
  PROVE  SumFunctionOnSet([u \in U |-> SumFunctionOnSet(f, {x \in S : to[x] = u})], U)
            = SumFunctionOnSet(f, S)
<1> DEFINE Sum(s) == SumFunctionOnSet(f, s)
           Of(s, u) == {x \in s : to[x] = u}
           shares(s) == [u \in U |-> Sum(Of(s, u))]
           G == {s \in SUBSET S : SumFunctionOnSet(shares(s), U) = Sum(s)}
<1>1. \A s \in SUBSET S : Sum(s) \in Int
  BY SumInt
<1> HIDE DEF Sum
<1>2. \A s \in SUBSET S : (\A x \in s : s \ {x} \in G) => s \in G
  <2> SUFFICES ASSUME NEW s \in SUBSET S, \A x \in s : s \ {x} \in G PROVE s \in G
    OBVIOUS
  <2>1. CASE s = {}
    <3>1. \A u \in U : Of(s, u) = {}
      BY <2>1
    <3>2. \A u \in U : shares(s)[u] = 0
      BY <3>1, SumEmpty DEF Sum
    <3>3. SumFunctionOnSet(shares(s), U) = 0
      <4> HIDE DEF shares
      <4> QED BY <3>2, SumZero
    <3>4. Sum(s) = 0
      BY <2>1, SumEmpty DEF Sum
    <3> QED BY <3>3, <3>4
  <2>2. ASSUME NEW x \in s PROVE s \in G
    <3> DEFINE t == s \ {x}
    <3>1. SumFunctionOnSet(shares(t), U) = Sum(t)
      OBVIOUS
    <3>2. to[x] \in U /\ f[x] \in Int
      OBVIOUS
    <3>3. \A r \in SUBSET S : \A u \in U : Of(r, u) \in SUBSET S /\ shares(r)[u] = Sum(Of(r, u))
      OBVIOUS
    <3>4. \A u \in U \ {to[x]} : Of(s, u) = Of(t, u)
      OBVIOUS
    <3>5. x \in Of(s, to[x]) /\ Of(s, to[x]) \ {x} = Of(t, to[x])
      OBVIOUS
    <3>6. Sum(s) = f[x] + Sum(t)
      BY SumRemove, FS_Subset DEF Sum
    <3>7. Sum(Of(s, to[x])) = f[x] + Sum(Of(t, to[x]))
      <4> HIDE DEF Of, t
      <4>1. Of(s, to[x]) \in SUBSET S
        BY <3>2, <3>3
      <4> QED BY <3>5, <4>1, SumRemove, FS_Subset DEF Sum
    <3>8. t \in SUBSET S
      OBVIOUS
    <3> HIDE DEF Of, shares, t
    <3>9. \A u \in U : shares(t)[u] \in Int /\ shares(s)[u] \in Int
      BY <1>1, <3>3, <3>8
    <3>10. \A u \in U \ {to[x]} : shares(s)[u] = shares(t)[u]
      BY <3>3, <3>4, <3>8
    <3>11. shares(s)[to[x]] = f[x] + shares(t)[to[x]]
      BY <3>2, <3>3, <3>7, <3>8
    <3>12. SumFunctionOnSet(shares(s), U) =
              SumFunctionOnSet(shares(t), U) + shares(s)[to[x]] - shares(t)[to[x]]
      BY <3>2, <3>9, <3>10, SumUpdate
    <3>13. Sum(t) \in Int /\ shares(t)[to[x]] \in Int
      BY <1>1, <3>2, <3>8, <3>9
    <3>14. SumFunctionOnSet(shares(s), U) = Sum(s)
      BY ONLY <3>1, <3>2, <3>6, <3>11, <3>12, <3>13
    <3> QED BY <3>14
  <2> QED BY <2>1, <2>2
<1>3. \A s \in SUBSET S : s \in G
  <2> HIDE DEF G
  <2> QED BY <1>2, SubsetRule
<1> QED BY <1>3 DEF Sum
=============================================================================
