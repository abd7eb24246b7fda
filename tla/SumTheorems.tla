----------------------------- MODULE SumTheorems -----------------------------
(***************************************************************************)
(* Sums over finite sets and sequences, as SumFunction and                 *)
(* SumFunctionOnSet of the community modules define them by a fold: what   *)
(* the proofs about weights and statistics cite.                           *)
(*                                                                         *)
(* The library's induction principles take a predicate, which the provers  *)
(* cannot instantiate; here the predicate is the set of the numbers, or of *)
(* the subsets, that satisfy it.                                           *)
(***************************************************************************)
EXTENDS Integers, Sequences, FiniteSets, Functions, FiniteSetTheorems, TLAPS

(***************************************************************************)
(* Induction                                                               *)
(***************************************************************************)

\* A set of numbers that is not empty has a smallest one.
LEMMA NatMin ==
  ASSUME NEW A \in SUBSET Nat, A # {}
  PROVE  \E m \in A : \A k \in A : m <= k
<1>. DEFINE R == OpToRel(<, Nat)
<1>1. PICK m \in A : \A k \in A : ~(<<k, m>> \in R)
  <2>1. IsWellFoundedOn(R, Nat)
    BY NatLessThanWellFounded
  <2>. HIDE DEF R
  <2>. QED BY <2>1, WFMin
<1>2. R = {ss \in Nat \X Nat : ss[1] < ss[2]}
  BY Zenon DEF OpToRel
<1>. HIDE DEF R
<1>3. \A k \in A : ~(k < m)
  BY <1>1, <1>2
<1>. QED BY <1>3

\* A set that holds zero and every successor of its members holds all numbers.
LEMMA NatSetInduction ==
  ASSUME NEW G, 0 \in G, \A n \in Nat : n \in G => n + 1 \in G
  PROVE  Nat \subseteq G
<1>. DEFINE B == {n \in Nat : n \notin G}
<1>. SUFFICES ASSUME B # {} PROVE FALSE
  OBVIOUS
<1>1. PICK m \in B : \A k \in B : m <= k
  <2>1. B \in SUBSET Nat
    OBVIOUS
  <2>. HIDE DEF B
  <2>. QED BY <2>1, NatMin
<1>2. m # 0 /\ m - 1 \in Nat /\ ~(m <= m - 1)
  OBVIOUS
<1>3. m - 1 \in G
  BY <1>1, <1>2
<1>. QED BY <1>2, <1>3

\* A family that holds the empty set, and with a subset of S the one that has
\* one element of S more, holds S.
LEMMA FiniteInduction ==
  ASSUME NEW S, IsFiniteSet(S), NEW G, {} \in G,
         \A T \in SUBSET S : \A x \in S \ T : T \in G => T \cup {x} \in G
  PROVE  S \in G
<1>. DEFINE B == {T \in SUBSET S : T \notin G}
            R == StrictSubsetOrdering(S)
<1>. SUFFICES ASSUME S \notin G PROVE FALSE
  OBVIOUS
<1>1. IsWellFoundedOn(R, SUBSET S) /\ B \subseteq SUBSET S /\ B # {}
  BY FS_StrictSubsetOrderingWellFounded, FS_FiniteSubsetsOfFinite
<1>2. PICK T \in B : \A U \in B : ~(<<U, T>> \in R)
  <2>. HIDE DEF R, B
  <2>. QED BY <1>1, WFMin
<1>3. PICK x \in T : TRUE
  BY <1>2
<1>4. <<T \ {x}, T>> \in R
  <2>1. T \ {x} \in SUBSET S /\ T \in SUBSET S /\ T \ {x} # T
    BY <1>3
  <2>. QED BY <2>1 DEF StrictSubsetOrdering
<1>5. T \ {x} \in G
  <2>. HIDE DEF R
  <2>. QED BY <1>2, <1>4
<1>6. (T \ {x}) \cup {x} = T
  BY <1>3
<1>. QED BY <1>2, <1>3, <1>5, <1>6

(***************************************************************************)
(* What the fold computes                                                  *)
(***************************************************************************)

\* From it, the sums over the subsets of S with n elements, those over the
\* subsets with n + 1.
Round(f, S, it) ==
  [s \in SUBSET S |-> IF s = {} THEN 0
                      ELSE LET x == CHOOSE x \in s : TRUE IN f[x] + it[s \ {x}]]

\* The function that the fold defines by recursion.
Sums(f, S) == CHOOSE it : it = Round(f, S, it)

\* The library's sum is that function at S.
LEMMA SumIsFold ==
  ASSUME NEW f, NEW S
  PROVE  SumFunctionOnSet(f, S) = Sums(f, S)[S]
BY Zenon DEF SumFunctionOnSet, FoldFunctionOnSet, MapThenFoldSet, Sums, Round

\* One element of a finite set.
LEMMA ChosenElement ==
  ASSUME NEW s, IsFiniteSet(s), s # {}, NEW n \in Nat, Cardinality(s) <= n + 1
  PROVE  LET x == CHOOSE x \in s : TRUE
         IN  /\ x \in s /\ IsFiniteSet(s \ {x})
             /\ Cardinality(s \ {x}) <= n
             /\ Cardinality(s) # 0
<1>. DEFINE x == CHOOSE y \in s : TRUE
<1>1. x \in s
  OBVIOUS
<1>2. Cardinality(s) \in Nat
  BY FS_CardinalityType
<1>3. Cardinality(s \ {x}) = Cardinality(s) - 1 /\ IsFiniteSet(s \ {x})
  BY <1>1, FS_RemoveElement
<1>4. Cardinality(s) # 0
  BY FS_EmptySet
<1>. QED BY <1>1, <1>2, <1>3, <1>4

\* The recursion has a solution for every finite set.
LEMMA SumsExist ==
  ASSUME NEW f, NEW S, IsFiniteSet(S)
  PROVE  Sums(f, S) = Round(f, S, Sums(f, S))
<1>. DEFINE Good(it, n) == \A s \in SUBSET S : Cardinality(s) <= n => it[s] = Round(f, S, it)[s]
            G == {n \in Nat : \E it : Good(it, n)}
<1>0. \A s \in SUBSET S : IsFiniteSet(s) /\ Cardinality(s) \in Nat
  BY FS_Subset, FS_CardinalityType
<1>1. 0 \in G
  <2>. DEFINE zero == [s \in SUBSET S |-> 0]
  <2>1. \A s \in SUBSET S : Cardinality(s) <= 0 => s = {}
    BY <1>0, FS_EmptySet
  <2>2. Good(zero, 0)
    BY <2>1 DEF Round
  <2>. QED BY <2>2
<1>2. ASSUME NEW n \in Nat, n \in G PROVE n + 1 \in G
  <2>1. PICK it : Good(it, n)
    BY <1>2
  <2>. DEFINE next == Round(f, S, it)
  <2>2. ASSUME NEW s \in SUBSET S, Cardinality(s) <= n + 1
        PROVE  next[s] = Round(f, S, next)[s]
    <3>1. CASE s = {}
      BY <3>1 DEF Round
    <3>2. CASE s # {}
      <4>. DEFINE x == CHOOSE x \in s : TRUE
      <4>1. x \in s /\ Cardinality(s \ {x}) <= n
        BY <1>0, <2>2, <3>2, ChosenElement
      <4>2. it[s \ {x}] = next[s \ {x}]
        BY <2>1, <4>1
      <4>3. next[s] = f[x] + it[s \ {x}]
        BY <3>2 DEF Round
      <4>4. Round(f, S, next)[s] = f[x] + next[s \ {x}]
        BY <3>2 DEF Round
      <4>. QED BY <4>2, <4>3, <4>4
    <3>. QED BY <3>1, <3>2
  <2>3. Good(next, n + 1)
    BY <2>2
  <2>. HIDE DEF next, Good
  <2>. QED BY <2>3
<1>3. Cardinality(S) \in G
  <2>. HIDE DEF G
  <2>1. Nat \subseteq G
    BY <1>1, <1>2, NatSetInduction
  <2>. QED BY <2>1, FS_CardinalityType
<1>4. PICK it : Good(it, Cardinality(S))
  BY <1>3
<1>. DEFINE last == Round(f, S, it)
<1>5. \A s \in SUBSET S : it[s] = last[s]
  BY <1>4, FS_Subset
<1>6. last = Round(f, S, last)
  <2>1. \A s \in SUBSET S : s # {} =>
           LET x == CHOOSE x \in s : TRUE IN it[s \ {x}] = last[s \ {x}]
    BY <1>5
  <2>. HIDE DEF last
  <2>2. Round(f, S, it) = Round(f, S, last)
    BY <2>1 DEF Round
  <2>. QED BY <2>2 DEF last
<1>. HIDE DEF last
<1>. QED BY <1>6 DEF Sums

\* Two solutions agree where both are defined.
LEMMA SumsAgree ==
  ASSUME NEW f, NEW S, IsFiniteSet(S), NEW T \in SUBSET S
  PROVE  Sums(f, S)[T] = SumFunctionOnSet(f, T)
<1>. DEFINE A == Sums(f, S)
            B == Sums(f, T)
            G == {n \in Nat : \A s \in SUBSET T : Cardinality(s) <= n => A[s] = B[s]}
<1>0. \A s \in SUBSET T : IsFiniteSet(s) /\ Cardinality(s) \in Nat
  BY FS_Subset, FS_CardinalityType
<1>1. A = Round(f, S, A) /\ B = Round(f, T, B)
  BY FS_Subset, SumsExist
<1>2. 0 \in G
  <2>1. \A s \in SUBSET T : Cardinality(s) <= 0 => s = {}
    BY <1>0, FS_EmptySet
  <2>2. Round(f, S, A)[{}] = 0 /\ Round(f, T, B)[{}] = 0
    BY DEF Round
  <2>. HIDE DEF A, B
  <2>. QED BY <1>1, <2>1, <2>2
<1>3. ASSUME NEW n \in Nat, n \in G PROVE n + 1 \in G
  <2>1. ASSUME NEW s \in SUBSET T, Cardinality(s) <= n + 1, s # {}
        PROVE  A[s] = B[s]
    <3>. DEFINE x == CHOOSE x \in s : TRUE
    <3>1. x \in s /\ Cardinality(s \ {x}) <= n
      BY <1>0, <2>1, ChosenElement
    <3>. HIDE DEF A, B
    <3>2. A[s \ {x}] = B[s \ {x}]
      BY <1>3, <3>1
    <3>3. Round(f, S, A)[s] = f[x] + A[s \ {x}] /\ Round(f, T, B)[s] = f[x] + B[s \ {x}]
      BY <2>1 DEF Round
    <3>. QED BY <1>1, <3>2, <3>3
  <2>2. A[{}] = B[{}]
    BY <1>2, FS_EmptySet
  <2>. HIDE DEF A, B
  <2>. QED BY <2>1, <2>2
<1>4. Cardinality(T) \in G
  <2>. HIDE DEF G
  <2>1. Nat \subseteq G
    BY <1>2, <1>3, NatSetInduction
  <2>. QED BY <1>0, <2>1
<1>5. A[T] = B[T]
  <2>. HIDE DEF A, B
  <2>. QED BY <1>0, <1>4
<1>. QED BY <1>5, SumIsFold

\* The sum over a set takes a chosen element and the sum over the rest.
LEMMA SumStep ==
  ASSUME NEW f, NEW S, IsFiniteSet(S)
  PROVE  SumFunctionOnSet(f, S) =
           IF S = {} THEN 0
           ELSE LET x == CHOOSE x \in S : TRUE IN f[x] + SumFunctionOnSet(f, S \ {x})
<1>1. SumFunctionOnSet(f, S) = Sums(f, S)[S] /\ Sums(f, S) = Round(f, S, Sums(f, S))
  BY SumIsFold, SumsExist
<1>2. Round(f, S, Sums(f, S))[S] =
        IF S = {} THEN 0 ELSE LET x == CHOOSE x \in S : TRUE IN f[x] + Sums(f, S)[S \ {x}]
  BY DEF Round
<1>3. \A T \in SUBSET S : Sums(f, S)[T] = SumFunctionOnSet(f, T)
  BY SumsAgree
<1>. QED BY <1>1, <1>2, <1>3

\* The sum of nothing.
LEMMA SumEmpty ==
  ASSUME NEW f
  PROVE  SumFunctionOnSet(f, {}) = 0
BY SumStep, FS_EmptySet

\* A sum of integers is an integer, and every element can be taken out first.
LEMMA SumRemove ==
  ASSUME NEW f, NEW S, IsFiniteSet(S), \A x \in S : f[x] \in Int
  PROVE  /\ SumFunctionOnSet(f, S) \in Int
         /\ \A x \in S : SumFunctionOnSet(f, S) = f[x] + SumFunctionOnSet(f, S \ {x})
<1>. DEFINE Sum(T) == SumFunctionOnSet(f, T)
            Good(T) == Sum(T) \in Int /\ \A x \in T : Sum(T) = f[x] + Sum(T \ {x})
            G == {n \in Nat : \A T \in SUBSET S : Cardinality(T) <= n => Good(T)}
<1>0. \A s \in SUBSET S : IsFiniteSet(s) /\ Cardinality(s) \in Nat
  BY FS_Subset, FS_CardinalityType
<1>1. 0 \in G
  <2>1. \A s \in SUBSET S : Cardinality(s) <= 0 => s = {}
    BY <1>0, FS_EmptySet
  <2>2. Good({})
    BY SumEmpty
  <2>. HIDE DEF Good
  <2>. QED BY <2>1, <2>2
<1>2. ASSUME NEW n \in Nat, n \in G PROVE n + 1 \in G
  <2>1. ASSUME NEW T \in SUBSET S, Cardinality(T) <= n + 1, T # {}
        PROVE  Good(T)
    <3>. DEFINE c == CHOOSE x \in T : TRUE
    <3>1. c \in T /\ Sum(T) = f[c] + Sum(T \ {c})
      BY <1>0, <2>1, SumStep
    <3>2. \A x \in T : T \ {x} \in SUBSET S /\ Cardinality(T \ {x}) <= n
      BY <1>0, <2>1, FS_RemoveElement
    <3>3. \A x \in T : Good(T \ {x})
      BY <1>2, <3>2
    <3>. HIDE DEF c
    <3>4. Sum(T) \in Int
      BY <3>1, <3>3
    <3>5. ASSUME NEW x \in T, x # c
          PROVE  Sum(T) = f[x] + Sum(T \ {x})
      <4>1. Sum(T \ {c}) = f[x] + Sum((T \ {c}) \ {x})
        BY <3>1, <3>3, <3>5
      <4>2. Sum(T \ {x}) = f[c] + Sum((T \ {x}) \ {c})
        BY <3>1, <3>3, <3>5
      <4>3. Sum((T \ {c}) \ {x}) = Sum((T \ {x}) \ {c})
        <5>1. (T \ {c}) \ {x} = (T \ {x}) \ {c}
          OBVIOUS
        <5>. QED BY <5>1, Zenon
      <4>4. Sum((T \ {x}) \ {c}) \in Int /\ f[x] \in Int /\ f[c] \in Int
        <5>. DEFINE U == T \ {x}
        <5>1. U \in SUBSET S /\ c \in U /\ IsFiniteSet(U) /\ Cardinality(U) \in Nat
          BY <1>0, <3>1, <3>5
        <5>2. Cardinality(U) <= n
          BY <3>2
        <5>. HIDE DEF U
        <5>3. Cardinality(U \ {c}) = Cardinality(U) - 1
          BY <5>1, FS_RemoveElement
        <5>4. U \ {c} \in SUBSET S /\ Cardinality(U \ {c}) <= n
          BY <5>1, <5>2, <5>3
        <5>5. Good(U \ {c})
          BY <1>2, <5>4
        <5>6. Sum(U \ {c}) \in Int
          BY <5>5
        <5>7. f[x] \in Int /\ f[c] \in Int
          BY <3>1
        <5>. QED BY Zenon, <5>6, <5>7 DEF U
      <4>. QED BY <3>1, <4>1, <4>2, <4>3, <4>4
    <3>. QED BY <3>1, <3>4, <3>5
  <2>2. Good({})
    BY SumEmpty
  <2>. HIDE DEF Good
  <2>. QED BY <2>1, <2>2
<1>3. Cardinality(S) \in G
  <2>. HIDE DEF G
  <2>1. Nat \subseteq G
    BY <1>1, <1>2, NatSetInduction
  <2>. QED BY <1>0, <2>1
<1>. QED BY <1>0, <1>3

\* A sum of integers is an integer.
LEMMA SumType ==
  ASSUME NEW f, NEW S, IsFiniteSet(S), \A x \in S : f[x] \in Int
  PROVE  SumFunctionOnSet(f, S) \in Int
BY SumRemove

\* The sum over a set with one element more.
LEMMA SumAdd ==
  ASSUME NEW f, NEW S, IsFiniteSet(S), NEW x, x \notin S,
         \A y \in S \cup {x} : f[y] \in Int
  PROVE  SumFunctionOnSet(f, S \cup {x}) = SumFunctionOnSet(f, S) + f[x]
<1>1. IsFiniteSet(S \cup {x}) /\ x \in S \cup {x} /\ (S \cup {x}) \ {x} = S
  BY FS_AddElement
<1>2. SumFunctionOnSet(f, S \cup {x}) = f[x] + SumFunctionOnSet(f, (S \cup {x}) \ {x})
  BY <1>1, SumRemove
<1>3. SumFunctionOnSet(f, (S \cup {x}) \ {x}) = SumFunctionOnSet(f, S)
  BY <1>1, Zenon
<1>4. SumFunctionOnSet(f, S) \in Int /\ f[x] \in Int
  BY SumType
<1>. QED BY <1>2, <1>3, <1>4

\* Only the values on the set count.
LEMMA SumSame ==
  ASSUME NEW f, NEW g, NEW S, IsFiniteSet(S),
         \A x \in S : f[x] \in Int /\ f[x] = g[x]
  PROVE  SumFunctionOnSet(f, S) = SumFunctionOnSet(g, S)
<1>. DEFINE G == {T \in SUBSET S : SumFunctionOnSet(f, T) = SumFunctionOnSet(g, T)}
<1>1. {} \in G
  BY SumEmpty
<1>2. ASSUME NEW T \in SUBSET S, NEW x \in S \ T, T \in G PROVE T \cup {x} \in G
  <2>1. IsFiniteSet(T)
    BY FS_Subset
  <2>2. /\ SumFunctionOnSet(f, T \cup {x}) = SumFunctionOnSet(f, T) + f[x]
        /\ SumFunctionOnSet(g, T \cup {x}) = SumFunctionOnSet(g, T) + g[x]
    BY <2>1, SumAdd
  <2>. QED BY <1>2, <2>2
<1>3. S \in G
  <2>. HIDE DEF G
  <2>. QED BY <1>1, <1>2, FiniteInduction
<1>. QED BY <1>3

\* The sum of a pointwise sum.
LEMMA SumPlus ==
  ASSUME NEW f, NEW g, NEW h, NEW S, IsFiniteSet(S),
         \A x \in S : f[x] \in Int /\ g[x] \in Int /\ h[x] = f[x] + g[x]
  PROVE  SumFunctionOnSet(h, S) = SumFunctionOnSet(f, S) + SumFunctionOnSet(g, S)
<1>. DEFINE G == {T \in SUBSET S : SumFunctionOnSet(h, T) =
                                     SumFunctionOnSet(f, T) + SumFunctionOnSet(g, T)}
<1>1. {} \in G
  BY SumEmpty
<1>2. ASSUME NEW T \in SUBSET S, NEW x \in S \ T, T \in G PROVE T \cup {x} \in G
  <2>1. IsFiniteSet(T) /\ \A y \in S : h[y] \in Int
    BY FS_Subset
  <2>2. /\ SumFunctionOnSet(f, T \cup {x}) = SumFunctionOnSet(f, T) + f[x]
        /\ SumFunctionOnSet(g, T \cup {x}) = SumFunctionOnSet(g, T) + g[x]
        /\ SumFunctionOnSet(h, T \cup {x}) = SumFunctionOnSet(h, T) + h[x]
    BY <2>1, SumAdd
  <2>3. SumFunctionOnSet(f, T) \in Int /\ SumFunctionOnSet(g, T) \in Int
    BY <2>1, SumType
  <2>. QED BY <1>2, <2>2, <2>3
<1>3. S \in G
  <2>. HIDE DEF G
  <2>. QED BY <1>1, <1>2, FiniteInduction
<1>. QED BY <1>3

\* Larger values have the larger sum.
LEMMA SumLeq ==
  ASSUME NEW f, NEW g, NEW S, IsFiniteSet(S),
         \A x \in S : f[x] \in Int /\ g[x] \in Int /\ f[x] <= g[x]
  PROVE  SumFunctionOnSet(f, S) <= SumFunctionOnSet(g, S)
<1>. DEFINE G == {T \in SUBSET S : SumFunctionOnSet(f, T) <= SumFunctionOnSet(g, T)}
<1>1. {} \in G
  BY SumEmpty
<1>2. ASSUME NEW T \in SUBSET S, NEW x \in S \ T, T \in G PROVE T \cup {x} \in G
  <2>1. IsFiniteSet(T)
    BY FS_Subset
  <2>2. /\ SumFunctionOnSet(f, T \cup {x}) = SumFunctionOnSet(f, T) + f[x]
        /\ SumFunctionOnSet(g, T \cup {x}) = SumFunctionOnSet(g, T) + g[x]
    BY <2>1, SumAdd
  <2>3. SumFunctionOnSet(f, T) \in Int /\ SumFunctionOnSet(g, T) \in Int
    BY <2>1, SumType
  <2>. QED BY <1>2, <2>2, <2>3
<1>3. S \in G
  <2>. HIDE DEF G
  <2>. QED BY <1>1, <1>2, FiniteInduction
<1>. QED BY <1>3

\* The sum of zeros.
LEMMA SumZero ==
  ASSUME NEW f, NEW S, IsFiniteSet(S), \A x \in S : f[x] = 0
  PROVE  SumFunctionOnSet(f, S) = 0
<1>. DEFINE G == {T \in SUBSET S : SumFunctionOnSet(f, T) = 0}
<1>1. {} \in G
  BY SumEmpty
<1>2. ASSUME NEW T \in SUBSET S, NEW x \in S \ T, T \in G PROVE T \cup {x} \in G
  <2>1. SumFunctionOnSet(f, T \cup {x}) = SumFunctionOnSet(f, T) + f[x]
    BY FS_Subset, SumAdd
  <2>. QED BY <1>2, <2>1
<1>3. S \in G
  <2>. HIDE DEF G
  <2>. QED BY <1>1, <1>2, FiniteInduction
<1>. QED BY <1>3

\* A sum of natural numbers is one, and no term exceeds it.
LEMMA SumNat ==
  ASSUME NEW f, NEW S, IsFiniteSet(S), \A x \in S : f[x] \in Nat
  PROVE  /\ SumFunctionOnSet(f, S) \in Nat
         /\ \A x \in S : f[x] <= SumFunctionOnSet(f, S)
<1>. DEFINE zero == [x \in S |-> 0]
<1>1. ASSUME NEW T \in SUBSET S
      PROVE  SumFunctionOnSet(f, T) \in Nat
  <2>1. IsFiniteSet(T) /\ \A x \in T : zero[x] = 0 /\ zero[x] <= f[x]
    BY FS_Subset
  <2>. HIDE DEF zero
  <2>2. SumFunctionOnSet(zero, T) = 0 /\ SumFunctionOnSet(zero, T) <= SumFunctionOnSet(f, T)
    BY <2>1, SumZero, SumLeq
  <2>3. SumFunctionOnSet(f, T) \in Int
    BY <2>1, SumType
  <2>. QED BY <2>2, <2>3
<1>2. ASSUME NEW x \in S
      PROVE  f[x] <= SumFunctionOnSet(f, S)
  <2>1. SumFunctionOnSet(f, S) = f[x] + SumFunctionOnSet(f, S \ {x})
    BY SumRemove
  <2>2. SumFunctionOnSet(f, S \ {x}) \in Nat
    BY <1>1
  <2>. QED BY <2>1, <2>2
<1>. QED BY <1>1, <1>2

\* Changing one term changes the sum by as much.
LEMMA SumUpdate ==
  ASSUME NEW f, NEW g, NEW S, IsFiniteSet(S), NEW x \in S,
         \A y \in S : f[y] \in Int /\ g[y] \in Int /\ (y # x => f[y] = g[y])
  PROVE  SumFunctionOnSet(g, S) = SumFunctionOnSet(f, S) - f[x] + g[x]
<1>1. IsFiniteSet(S \ {x})
  BY FS_RemoveElement
<1>2. /\ SumFunctionOnSet(f, S) = f[x] + SumFunctionOnSet(f, S \ {x})
      /\ SumFunctionOnSet(g, S) = g[x] + SumFunctionOnSet(g, S \ {x})
  BY SumRemove
<1>3. SumFunctionOnSet(f, S \ {x}) = SumFunctionOnSet(g, S \ {x})
  BY <1>1, SumSame
<1>4. SumFunctionOnSet(f, S \ {x}) \in Int
  BY <1>1, SumType
<1>. QED BY <1>2, <1>3, <1>4

\* Terms of zero can be left out.
LEMMA SumSupport ==
  ASSUME NEW f, NEW S, IsFiniteSet(S), NEW T \in SUBSET S,
         \A x \in S : f[x] \in Int, \A x \in S \ T : f[x] = 0
  PROVE  SumFunctionOnSet(f, S) = SumFunctionOnSet(f, T)
<1>. DEFINE U == S \ T
            G == {V \in SUBSET U : SumFunctionOnSet(f, T \cup V) = SumFunctionOnSet(f, T)}
<1>1. {} \in G
  BY Zenon
<1>2. ASSUME NEW V \in SUBSET U, NEW x \in U \ V, V \in G PROVE V \cup {x} \in G
  <2>. DEFINE W == T \cup V
  <2>1. IsFiniteSet(W) /\ x \notin W /\ f[x] = 0 /\ \A y \in W \cup {x} : f[y] \in Int
    BY FS_Subset
  <2>2. T \cup (V \cup {x}) = W \cup {x}
    OBVIOUS
  <2>3. SumFunctionOnSet(f, W) = SumFunctionOnSet(f, T)
    BY <1>2
  <2>4. SumFunctionOnSet(f, T) \in Int
    BY FS_Subset, SumType
  <2>. HIDE DEF W
  <2>5. SumFunctionOnSet(f, W \cup {x}) = SumFunctionOnSet(f, W) + f[x]
    BY <2>1, SumAdd
  <2>6. SumFunctionOnSet(f, T \cup (V \cup {x})) = SumFunctionOnSet(f, W \cup {x})
    BY <2>2, Zenon
  <2>7. SumFunctionOnSet(f, T \cup (V \cup {x})) = SumFunctionOnSet(f, T)
    BY <2>1, <2>3, <2>4, <2>5, <2>6
  <2>. QED BY <2>7
<1>3. U \in G
  <2>1. IsFiniteSet(U)
    BY FS_Subset
  <2>. HIDE DEF G, U
  <2>. QED BY <1>1, <1>2, <2>1, FiniteInduction
<1>4. SumFunctionOnSet(f, T \cup U) = SumFunctionOnSet(f, T)
  BY <1>3
<1>5. T \cup U = S
  OBVIOUS
<1>. QED BY <1>4, <1>5, Zenon

\* Leaving out natural numbers does not make the sum larger.
LEMMA SumSubset ==
  ASSUME NEW f, NEW S, IsFiniteSet(S), NEW T \in SUBSET S, \A x \in S : f[x] \in Nat
  PROVE  SumFunctionOnSet(f, T) <= SumFunctionOnSet(f, S)
<1>. DEFINE g == [x \in S |-> IF x \in T THEN f[x] ELSE 0]
<1>1. /\ \A x \in S : g[x] \in Int /\ g[x] <= f[x]
      /\ \A x \in S \ T : g[x] = 0
      /\ \A x \in T : g[x] \in Int /\ g[x] = f[x]
  OBVIOUS
<1>. HIDE DEF g
<1>2. SumFunctionOnSet(g, S) = SumFunctionOnSet(g, T)
  BY <1>1, SumSupport
<1>3. SumFunctionOnSet(g, T) = SumFunctionOnSet(f, T)
  BY <1>1, FS_Subset, SumSame
<1>4. SumFunctionOnSet(g, S) <= SumFunctionOnSet(f, S)
  BY <1>1, SumLeq
<1>. QED BY <1>2, <1>3, <1>4

(***************************************************************************)
(* Sums over sequences                                                     *)
(***************************************************************************)

\* The positions of a sequence are finitely many.
LEMMA FinitePositions == ASSUME NEW n \in Nat PROVE IsFiniteSet(1..n)
<1>1. 1 \in Int /\ n \in Int
  OBVIOUS
<1>. QED BY <1>1, FS_Interval

\* The sum over an interval that ends one later.
LEMMA SumInterval ==
  ASSUME NEW f, NEW n \in Nat, \A i \in 1..(n + 1) : f[i] \in Int
  PROVE  SumFunctionOnSet(f, 1..(n + 1)) = SumFunctionOnSet(f, 1..n) + f[n + 1]
<1>1. IsFiniteSet(1..n) /\ n + 1 \notin 1..n
  BY FS_Interval
<1>2. 1..(n + 1) = (1..n) \cup {n + 1}
  OBVIOUS
<1>3. \A i \in (1..n) \cup {n + 1} : f[i] \in Int
  OBVIOUS
<1>4. SumFunctionOnSet(f, (1..n) \cup {n + 1}) = SumFunctionOnSet(f, 1..n) + f[n + 1]
  BY <1>1, <1>3, SumAdd
<1>. QED BY <1>2, <1>4, Zenon

\* The sum over a sequence with one more element.
LEMMA SumExtend ==
  ASSUME NEW f, NEW g, NEW n \in Nat,
         \A i \in 1..n : f[i] \in Int /\ g[i] = f[i],
         g[n + 1] \in Int
  PROVE  SumFunctionOnSet(g, 1..(n + 1)) = SumFunctionOnSet(f, 1..n) + g[n + 1]
<1>1. \A i \in 1..(n + 1) : g[i] \in Int
  <2>1. \A i \in 1..(n + 1) : i \in 1..n \/ i = n + 1
    OBVIOUS
  <2>. QED BY <2>1
<1>2. SumFunctionOnSet(g, 1..(n + 1)) = SumFunctionOnSet(g, 1..n) + g[n + 1]
  BY <1>1, SumInterval
<1>3. SumFunctionOnSet(g, 1..n) = SumFunctionOnSet(f, 1..n)
  <2>1. IsFiniteSet(1..n)
    BY FS_Interval
  <2>2. \A i \in 1..n : g[i] \in Int /\ g[i] = f[i]
    OBVIOUS
  <2>. QED BY <2>1, <2>2, SumSame
<1>. QED BY <1>2, <1>3

\* The sum over an interval without its first element.
LEMMA SumShift ==
  ASSUME NEW f, NEW g, NEW n \in Nat,
         \A i \in 1..(n + 1) : f[i] \in Int,
         \A i \in 1..n : g[i] = f[i + 1]
  PROVE  SumFunctionOnSet(f, 1..(n + 1)) = f[1] + SumFunctionOnSet(g, 1..n)
<1>. DEFINE Good(m) == SumFunctionOnSet(f, 1..(m + 1)) = f[1] + SumFunctionOnSet(g, 1..m)
            G == {m \in Nat : m <= n => Good(m)}
<1>0. \A i \in 1..n : g[i] \in Int
  OBVIOUS
<1>1. Good(0)
  <2>1. \A i \in 1..(0 + 1) : f[i] \in Int
    OBVIOUS
  <2>2. SumFunctionOnSet(f, 1..(0 + 1)) = SumFunctionOnSet(f, 1..0) + f[0 + 1]
    BY <2>1, SumInterval
  <2>3. SumFunctionOnSet(f, 1..0) = 0 /\ SumFunctionOnSet(g, 1..0) = 0
    <3>1. 1..0 = {}
      OBVIOUS
    <3>. QED BY <3>1, SumEmpty, Zenon
  <2>. QED BY <2>2, <2>3
<1>2. ASSUME NEW m \in Nat, m + 1 <= n, Good(m) PROVE Good(m + 1)
  <2>1. /\ \A i \in 1..((m + 1) + 1) : f[i] \in Int
        /\ \A i \in 1..(m + 1) : g[i] \in Int
        /\ \A i \in 1..m : g[i] \in Int
    BY <1>0, <1>2
  <2>2. SumFunctionOnSet(f, 1..((m + 1) + 1)) =
          SumFunctionOnSet(f, 1..(m + 1)) + f[(m + 1) + 1]
    <3>1. m + 1 \in Nat
      OBVIOUS
    <3>. QED BY <2>1, <3>1, SumInterval
  <2>3. SumFunctionOnSet(g, 1..(m + 1)) = SumFunctionOnSet(g, 1..m) + g[m + 1]
    BY <2>1, SumInterval
  <2>4. SumFunctionOnSet(g, 1..m) \in Int
    <3>1. IsFiniteSet(1..m)
      BY FS_Interval
    <3>. QED BY <2>1, <3>1, SumType
  <2>5. g[m + 1] = f[(m + 1) + 1] /\ g[m + 1] \in Int /\ f[1] \in Int
    BY <1>0, <1>2
  <2>. QED BY <1>2, <2>2, <2>3, <2>4, <2>5
<1>3. n \in G
  <2>. HIDE DEF Good
  <2>1. 0 \in G /\ \A m \in Nat : m \in G => m + 1 \in G
    BY <1>1, <1>2
  <2>. HIDE DEF G
  <2>. QED BY <2>1, NatSetInduction
<1>. QED BY <1>3

\* The sum over a sequence without its first element.
LEMMA SumTail ==
  ASSUME NEW s \in Seq(Int), s # << >>
  PROVE  SumFunction(s) = Head(s) + SumFunction(Tail(s))
<1>. DEFINE n == Len(s) - 1
            t == Tail(s)
<1>1. /\ n \in Nat /\ DOMAIN s = 1..(n + 1) /\ DOMAIN t = 1..n
      /\ Head(s) = s[1]
      /\ \A i \in 1..(n + 1) : s[i] \in Int
      /\ \A i \in 1..n : t[i] = s[i + 1]
  OBVIOUS
<1>. HIDE DEF n, t
<1>2. SumFunctionOnSet(s, 1..(n + 1)) = s[1] + SumFunctionOnSet(t, 1..n)
  BY <1>1, SumShift
<1>3. SumFunction(s) = SumFunctionOnSet(s, 1..(n + 1)) /\ SumFunction(t) = SumFunctionOnSet(t, 1..n)
  BY <1>1, Zenon DEF SumFunction
<1>4. SumFunction(s) = Head(s) + SumFunction(t)
  BY <1>1, <1>2, <1>3
<1>. QED BY <1>4 DEF t

\* A sum taken in another order: p maps S to T, no two elements to the same one.
LEMMA SumReindex ==
  ASSUME NEW f, NEW g, NEW p, NEW S, IsFiniteSet(S), NEW T,
         T = {p[x] : x \in S}, \A x, y \in S : p[x] = p[y] => x = y,
         \A x \in S : g[x] \in Int /\ g[x] = f[p[x]]
  PROVE  SumFunctionOnSet(g, S) = SumFunctionOnSet(f, T) /\ IsFiniteSet(T)
<1>. DEFINE Im(U) == {p[x] : x \in U}
            Good(U) == SumFunctionOnSet(g, U) = SumFunctionOnSet(f, Im(U)) /\ IsFiniteSet(Im(U))
            G == {U \in SUBSET S : Good(U)}
<1>1. {} \in G
  <2>1. Im({}) = {}
    OBVIOUS
  <2>. HIDE DEF Im
  <2>. QED BY <2>1, SumEmpty, FS_EmptySet
<1>2. ASSUME NEW U \in SUBSET S, NEW x \in S \ U, U \in G PROVE U \cup {x} \in G
  <2>1. Im(U \cup {x}) = Im(U) \cup {p[x]} /\ p[x] \notin Im(U)
    OBVIOUS
  <2>2. \A y \in Im(U) \cup {p[x]} : f[y] \in Int
    OBVIOUS
  <2>3. IsFiniteSet(U) /\ IsFiniteSet(Im(U))
    BY <1>2, FS_Subset
  <2>. HIDE DEF Im
  <2>4. SumFunctionOnSet(f, Im(U) \cup {p[x]}) = SumFunctionOnSet(f, Im(U)) + f[p[x]]
    BY <2>1, <2>2, <2>3, SumAdd
  <2>5. SumFunctionOnSet(g, U \cup {x}) = SumFunctionOnSet(g, U) + g[x]
    BY <2>3, SumAdd
  <2>6. IsFiniteSet(Im(U) \cup {p[x]})
    BY <2>3, FS_AddElement
  <2>7. SumFunctionOnSet(f, Im(U \cup {x})) = SumFunctionOnSet(f, Im(U) \cup {p[x]})
    BY <2>1, Zenon
  <2>. QED BY <1>2, <2>1, <2>4, <2>5, <2>6, <2>7
<1>3. S \in G
  <2>. HIDE DEF G
  <2>. QED BY <1>1, <1>2, FiniteInduction
<1>4. Im(S) = T
  OBVIOUS
<1>. HIDE DEF Im
<1>. QED BY <1>3, <1>4

\* The sum over two sets that have nothing in common.
LEMMA SumUnion ==
  ASSUME NEW f, NEW S, IsFiniteSet(S), NEW T, IsFiniteSet(T), S \cap T = {},
         \A x \in S \cup T : f[x] \in Int
  PROVE  SumFunctionOnSet(f, S \cup T) = SumFunctionOnSet(f, S) + SumFunctionOnSet(f, T)
<1>. DEFINE G == {U \in SUBSET T : SumFunctionOnSet(f, S \cup U) =
                                     SumFunctionOnSet(f, S) + SumFunctionOnSet(f, U)}
<1>0. SumFunctionOnSet(f, S) \in Int
  BY SumType
<1>1. {} \in G
  <2>1. S \cup {} = S
    OBVIOUS
  <2>. QED BY <1>0, <2>1, SumEmpty
<1>2. ASSUME NEW U \in SUBSET T, NEW x \in T \ U, U \in G PROVE U \cup {x} \in G
  <2>1. S \cup (U \cup {x}) = (S \cup U) \cup {x} /\ x \notin S \cup U
    OBVIOUS
  <2>2. IsFiniteSet(U) /\ IsFiniteSet(S \cup U)
    BY FS_Subset, FS_Union
  <2>3. SumFunctionOnSet(f, U \cup {x}) = SumFunctionOnSet(f, U) + f[x]
    BY <2>2, SumAdd
  <2>4. SumFunctionOnSet(f, (S \cup U) \cup {x}) = SumFunctionOnSet(f, S \cup U) + f[x]
    BY <2>1, <2>2, SumAdd
  <2>5. SumFunctionOnSet(f, U) \in Int /\ f[x] \in Int
    BY <2>2, SumType
  <2>6. SumFunctionOnSet(f, S \cup (U \cup {x})) = SumFunctionOnSet(f, (S \cup U) \cup {x})
    BY <2>1, Zenon
  <2>. QED BY <1>0, <1>2, <2>3, <2>4, <2>5, <2>6
<1>3. T \in G
  <2>. HIDE DEF G
  <2>. QED BY <1>1, <1>2, FiniteInduction
<1>. QED BY <1>3

\* The sum of a function with one value more.
LEMMA SumInsert ==
  ASSUME NEW f, NEW g, IsFiniteSet(DOMAIN f), NEW x, x \notin DOMAIN f,
         DOMAIN g = DOMAIN f \cup {x}, g[x] \in Int,
         \A y \in DOMAIN f : f[y] \in Int /\ g[y] = f[y]
  PROVE  SumFunction(g) = SumFunction(f) + g[x]
<1>1. SumFunctionOnSet(g, DOMAIN f \cup {x}) = SumFunctionOnSet(g, DOMAIN f) + g[x]
  <2>1. \A y \in DOMAIN f \cup {x} : g[y] \in Int
    OBVIOUS
  <2>. QED BY <2>1, SumAdd
<1>2. SumFunctionOnSet(f, DOMAIN f) = SumFunctionOnSet(g, DOMAIN f)
  BY SumSame
<1>3. SumFunctionOnSet(g, DOMAIN g) = SumFunctionOnSet(g, DOMAIN f \cup {x})
  BY Zenon
<1>. QED BY <1>1, <1>2, <1>3 DEF SumFunction

\* The sum of one value.
LEMMA SumSingle ==
  ASSUME NEW f, NEW x, DOMAIN f = {x}, f[x] \in Int
  PROVE  SumFunction(f) = f[x]
<1>1. SumFunctionOnSet(f, {} \cup {x}) = SumFunctionOnSet(f, {}) + f[x]
  BY FS_EmptySet, SumAdd
<1>2. DOMAIN f = {} \cup {x}
  OBVIOUS
<1>3. SumFunctionOnSet(f, DOMAIN f) = SumFunctionOnSet(f, {} \cup {x})
  BY <1>2, Zenon
<1>. QED BY <1>1, <1>3, SumEmpty DEF SumFunction
=============================================================================
