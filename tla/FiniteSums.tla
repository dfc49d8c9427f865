----------------------------- MODULE FiniteSums -----------------------------
(* Facts about sums over a finite set, which the accounts of the Tracker and *)
(* of the tables are: what each element adds, that the order does not        *)
(* matter, and what a change of one value does.                              *)
EXTENDS FiniteSetsExt, FiniteSetTheorems, WellFoundedInduction, TLAPS

\* The sum of the values of f over S.
SumOf(f, S) == MapThenSumSet(LAMBDA x : f[x], S)

\* MapThenSumSet adds what it chooses first to the sum of the rest: its value is
\* the one solution of this recursion over the subsets of S.
Least(s) == CHOOSE x \in s : TRUE
Plus(f, g, s) == IF s = {} THEN 0 ELSE f[Least(s)] + g[s \ {Least(s)}]
Solves(f, S, g) == g = [s \in SUBSET S |-> Plus(f, g, s)]

\* SumOf unfolds to the function that MapThenSumSet chooses.
LEMMA SumIs == ASSUME NEW f, NEW S PROVE SumOf(f, S) = (CHOOSE g : Solves(f, S, g))[S]
  BY DEF SumOf, MapThenSumSet, MapThenFoldSet, Solves, Plus, Least

\* Induction over a finite set, as the existence of a smallest counterexample:
\* among some subsets of it one has no smaller one below it.
LEMMA SmallestSubset ==
    ASSUME NEW S, IsFiniteSet(S), NEW B, B \subseteq SUBSET S, B # {}
    PROVE  \E T \in B : \A U \in SUBSET T : U # T => U \notin B
<1> DEFINE R == StrictSubsetOrdering(S)
<1>1. IsWellFoundedOn(R, SUBSET S)
  BY FS_StrictSubsetOrderingWellFounded, FS_FiniteSubsetsOfFinite
<1> HIDE DEF R
<1>2. PICK T \in B : \A U \in B : <<U, T>> \notin R
  BY <1>1, WFMin
<1>3. ASSUME NEW U \in SUBSET T, U # T, U \in B PROVE FALSE
  BY <1>2, <1>3 DEF R, StrictSubsetOrdering
<1> QED BY <1>3

\* The recursion has one solution at most, whatever set it is solved over ...
LEMMA SolutionsAgree ==
    ASSUME NEW f, NEW S, NEW T, IsFiniteSet(S), NEW g, NEW h, Solves(f, S, g), Solves(f, T, h)
    PROVE  \A s \in SUBSET (S \cap T) : g[s] = h[s]
<1> SUFFICES ASSUME NEW b \in SUBSET (S \cap T), g[b] # h[b] PROVE FALSE
  OBVIOUS
<1> DEFINE B == {s \in SUBSET (S \cap T) : g[s] # h[s]}
<1>1. IsFiniteSet(S \cap T) /\ B # {} /\ B \subseteq SUBSET (S \cap T)
  BY FS_Subset
<1>2. PICK s \in B : \A u \in SUBSET s : u # s => u \notin B
  <2> HIDE DEF B
  <2> QED BY <1>1, SmallestSubset
<1>3. s \in SUBSET S /\ s \in SUBSET T
  OBVIOUS
<1>4. g[s] = Plus(f, g, s) /\ h[s] = Plus(f, h, s)
  BY <1>3 DEF Solves
<1>5. s # {}
  BY <1>4 DEF Plus
<1>6. Least(s) \in s
  BY <1>5 DEF Least
<1>7. g[s \ {Least(s)}] = h[s \ {Least(s)}]
  BY <1>2, <1>6
<1> QED BY <1>4, <1>7 DEF Plus

\* ... and it has one.
LEMMA SolutionExists ==
    ASSUME NEW f, NEW S, IsFiniteSet(S)
    PROVE  \E g : Solves(f, S, g)
<1> SUFFICES ASSUME ~ \E g : Solves(f, S, g) PROVE FALSE
  OBVIOUS
<1> DEFINE B == {T \in SUBSET S : ~ \E g : Solves(f, T, g)}
<1>1. B # {} /\ B \subseteq SUBSET S
  OBVIOUS
<1>2. PICK T \in B : \A U \in SUBSET T : U # T => U \notin B
  <2> HIDE DEF B
  <2> QED BY <1>1, SmallestSubset
<1> DEFINE Of(U) == CHOOSE g : Solves(f, U, g)
           h == [s \in SUBSET T |-> IF s = T THEN Plus(f, [u \in SUBSET T |-> Of(u)[u]], T)
                                    ELSE Of(s)[s]]
<1>3. ASSUME NEW U \in SUBSET T, U # T PROVE Solves(f, U, Of(U))
  BY <1>2, <1>3
<1>4. ASSUME NEW s \in SUBSET T PROVE h[s] = Plus(f, h, s)
  <2>1. CASE s = T
    <3>1. h[s] = Plus(f, [u \in SUBSET T |-> Of(u)[u]], T)
      BY <2>1
    <3>2. ASSUME T # {} PROVE h[T \ {Least(T)}] = Of(T \ {Least(T)})[T \ {Least(T)}]
      <4>1. Least(T) \in T
        BY <3>2 DEF Least
      <4> QED BY <4>1
    <3> HIDE DEF h, Of
    <3> QED BY <2>1, <3>1, <3>2 DEF Plus
  <2>2. CASE s # T
    <3>1. h[s] = Of(s)[s] /\ Solves(f, s, Of(s))
      BY <1>3, <2>2
    <3>2. Of(s)[s] = Plus(f, Of(s), s)
      <4> HIDE DEF Of
      <4> QED BY <3>1 DEF Solves
    <3>3. ASSUME s # {} PROVE h[s \ {Least(s)}] = Of(s)[s \ {Least(s)}]
      <4> DEFINE u == s \ {Least(s)}
      <4>1. Least(s) \in s
        BY <3>3 DEF Least
      <4>2. u \in SUBSET T /\ u # T /\ u \in SUBSET (s \cap u)
        BY <2>2, <4>1
      <4>3. Solves(f, u, Of(u)) /\ h[u] = Of(u)[u]
        BY <1>3, <4>2
      <4>4. IsFiniteSet(s)
        BY FS_Subset
      <4> HIDE DEF Of, h, u
      <4>5. Of(s)[u] = Of(u)[u]
        BY <3>1, <4>2, <4>3, <4>4, SolutionsAgree
      <4> QED BY <4>3, <4>5 DEF u
    <3> HIDE DEF h, Of
    <3> QED BY <3>1, <3>2, <3>3 DEF Plus
  <2> QED BY <2>1, <2>2
<1>5. h = [s \in SUBSET T |-> Plus(f, h, s)]
  <2>1. h = [s \in SUBSET T |-> h[s]]
    OBVIOUS
  <2> HIDE DEF h
  <2> QED BY <1>4, <2>1
<1> HIDE DEF h
<1> QED BY <1>2, <1>5 DEF Solves

\* So a sum is what is chosen first plus the sum of the rest.
LEMMA SumStep ==
    ASSUME NEW f, NEW S, IsFiniteSet(S)
    PROVE  /\ SumOf(f, {}) = 0
           /\ S # {} => Least(S) \in S /\ SumOf(f, S) = f[Least(S)] + SumOf(f, S \ {Least(S)})
<1> DEFINE Of(U) == CHOOSE g : Solves(f, U, g)
<1>1. ASSUME NEW U, IsFiniteSet(U) PROVE Solves(f, U, Of(U)) /\ SumOf(f, U) = Of(U)[U]
  BY <1>1, SolutionExists, SumIs
<1>2. SumOf(f, {}) = 0
  <2>1. Solves(f, {}, Of({})) /\ SumOf(f, {}) = Of({})[{}]
    BY <1>1, FS_EmptySet
  <2> HIDE DEF Of
  <2> QED BY <2>1 DEF Solves, Plus
<1>3. ASSUME S # {}
      PROVE  Least(S) \in S /\ SumOf(f, S) = f[Least(S)] + SumOf(f, S \ {Least(S)})
  <2> DEFINE U == S \ {Least(S)}
  <2>1. Least(S) \in S
    BY <1>3 DEF Least
  <2>2. IsFiniteSet(U)
    BY FS_Subset
  <2>3. Solves(f, S, Of(S)) /\ SumOf(f, S) = Of(S)[S] /\ Solves(f, U, Of(U))
        /\ SumOf(f, U) = Of(U)[U]
    BY <1>1, <2>2
  <2> HIDE DEF Of
  <2>4. Of(S)[S] = f[Least(S)] + Of(S)[U]
    BY <1>3, <2>3 DEF Solves, Plus
  <2>5. Of(S)[U] = Of(U)[U]
    <3>1. U \in SUBSET (S \cap U)
      OBVIOUS
    <3> HIDE DEF U
    <3> QED BY <2>3, <3>1, SolutionsAgree
  <2> QED BY <2>1, <2>3, <2>4, <2>5
<1> QED BY <1>2, <1>3

\* A sum of naturals is one.
LEMMA SumIsNat ==
    ASSUME NEW f, NEW S, IsFiniteSet(S), \A x \in S : f[x] \in Nat
    PROVE  SumOf(f, S) \in Nat
<1> SUFFICES ASSUME SumOf(f, S) \notin Nat PROVE FALSE
  OBVIOUS
<1> DEFINE B == {T \in SUBSET S : SumOf(f, T) \notin Nat}
<1>1. B # {} /\ B \subseteq SUBSET S
  OBVIOUS
<1>2. PICK T \in B : \A U \in SUBSET T : U # T => U \notin B
  <2> HIDE DEF B
  <2> QED BY <1>1, SmallestSubset
<1>3. IsFiniteSet(T)
  BY FS_Subset
<1>4. T # {} /\ Least(T) \in T /\ SumOf(f, T) = f[Least(T)] + SumOf(f, T \ {Least(T)})
  BY <1>3, SumStep
<1>5. SumOf(f, T \ {Least(T)}) \in Nat
  BY <1>2, <1>4
<1> QED BY <1>2, <1>4, <1>5

\* and a sum of integers is one.
LEMMA SumIsInt ==
    ASSUME NEW f, NEW S, IsFiniteSet(S), \A x \in S : f[x] \in Int
    PROVE  SumOf(f, S) \in Int
<1> SUFFICES ASSUME SumOf(f, S) \notin Int PROVE FALSE
  OBVIOUS
<1> DEFINE B == {T \in SUBSET S : SumOf(f, T) \notin Int}
<1>1. B # {} /\ B \subseteq SUBSET S
  OBVIOUS
<1>2. PICK T \in B : \A U \in SUBSET T : U # T => U \notin B
  <2> HIDE DEF B
  <2> QED BY <1>1, SmallestSubset
<1>3. IsFiniteSet(T)
  BY FS_Subset
<1>4. T # {} /\ Least(T) \in T /\ SumOf(f, T) = f[Least(T)] + SumOf(f, T \ {Least(T)})
  <2>0. SumOf(f, T) \notin Int
    OBVIOUS
  <2>1. ASSUME T = {} PROVE FALSE
    <3>1. SumOf(f, T) = 0
      BY <1>3, <2>1, SumStep
    <3> QED BY <3>1, <2>0
  <2>2. T # {}
    BY <2>1
  <2> QED BY <1>3, <2>2, SumStep
<1>5. SumOf(f, T \ {Least(T)}) \in Int
  BY <1>2, <1>4
<1> QED BY <1>2, <1>4, <1>5

\* Any element may be taken first: the order of a sum does not matter.
LEMMA SumWithout ==
    ASSUME NEW f, NEW S, IsFiniteSet(S), \A x \in S : f[x] \in Int, NEW y \in S
    PROVE  SumOf(f, S) = f[y] + SumOf(f, S \ {y})
<1> SUFFICES ASSUME SumOf(f, S) # f[y] + SumOf(f, S \ {y}) PROVE FALSE
  OBVIOUS
<1> DEFINE B == {T \in SUBSET S : \E z \in T : SumOf(f, T) # f[z] + SumOf(f, T \ {z})}
<1>1. B # {} /\ B \subseteq SUBSET S
  OBVIOUS
<1>2. PICK T \in B : \A U \in SUBSET T : U # T => U \notin B
  <2> HIDE DEF B
  <2> QED BY <1>1, SmallestSubset
<1>3. PICK z \in T : SumOf(f, T) # f[z] + SumOf(f, T \ {z})
  OBVIOUS
<1> DEFINE m == Least(T)
<1>4. IsFiniteSet(T) /\ IsFiniteSet(T \ {z}) /\ IsFiniteSet(T \ {m})
      /\ IsFiniteSet((T \ {z}) \ {m})
  BY FS_Subset
<1>5. m \in T /\ SumOf(f, T) = f[m] + SumOf(f, T \ {m})
  BY <1>4, SumStep
<1> HIDE DEF m
<1>6. m # z
  BY <1>3, <1>5
<1>7. SumOf(f, T \ {m}) = f[z] + SumOf(f, (T \ {m}) \ {z})
  <2>1. T \ {m} \in SUBSET T /\ T \ {m} # T /\ z \in T \ {m}
    BY <1>5, <1>6
  <2> QED BY <1>2, <2>1
<1>8. SumOf(f, T \ {z}) = f[m] + SumOf(f, (T \ {z}) \ {m})
  <2>1. T \ {z} \in SUBSET T /\ T \ {z} # T /\ m \in T \ {z}
    BY <1>5, <1>6
  <2> QED BY <1>2, <2>1
<1>9. (T \ {m}) \ {z} = (T \ {z}) \ {m}
  OBVIOUS
<1>10. SumOf(f, (T \ {z}) \ {m}) \in Int /\ f[m] \in Int /\ f[z] \in Int
  BY <1>4, <1>5, SumIsInt
<1> PICK r : r = SumOf(f, (T \ {z}) \ {m})
  OBVIOUS
<1>11. SumOf(f, T \ {m}) = f[z] + r /\ SumOf(f, T \ {z}) = f[m] + r /\ r \in Int
  BY <1>7, <1>8, <1>9, <1>10
<1>12. f[m] + (f[z] + r) = f[z] + (f[m] + r)
  BY <1>10, <1>11
<1> QED BY <1>3, <1>5, <1>11, <1>12

\* Only the values on the set count,
LEMMA SumSame ==
    ASSUME NEW f, NEW g, NEW S, IsFiniteSet(S), \A x \in S : f[x] = g[x]
    PROVE  SumOf(f, S) = SumOf(g, S)
<1> SUFFICES ASSUME SumOf(f, S) # SumOf(g, S) PROVE FALSE
  OBVIOUS
<1> DEFINE B == {T \in SUBSET S : SumOf(f, T) # SumOf(g, T)}
<1>1. B # {} /\ B \subseteq SUBSET S
  OBVIOUS
<1>2. PICK T \in B : \A U \in SUBSET T : U # T => U \notin B
  <2> HIDE DEF B
  <2> QED BY <1>1, SmallestSubset
<1>3. IsFiniteSet(T) /\ T # {}
  BY FS_Subset, SumStep
<1>4. /\ Least(T) \in T
      /\ SumOf(f, T) = f[Least(T)] + SumOf(f, T \ {Least(T)})
      /\ SumOf(g, T) = g[Least(T)] + SumOf(g, T \ {Least(T)})
  BY <1>3, SumStep
<1>5. SumOf(f, T \ {Least(T)}) = SumOf(g, T \ {Least(T)})
  BY <1>2, <1>4
<1> QED BY <1>2, <1>4, <1>5

\* and a change of one of them changes the sum by as much.
LEMMA SumUpdate ==
    ASSUME NEW f, NEW g, NEW S, IsFiniteSet(S), NEW y \in S,
           \A x \in S : f[x] \in Int /\ g[x] \in Int, \A x \in S \ {y} : f[x] = g[x]
    PROVE  /\ SumOf(f, S) - f[y] = SumOf(g, S) - g[y]
           /\ SumOf(f, S) \in Int /\ SumOf(g, S) \in Int
<1>1. /\ SumOf(f, S) = f[y] + SumOf(f, S \ {y})
      /\ SumOf(g, S) = g[y] + SumOf(g, S \ {y})
  BY SumWithout
<1>2. IsFiniteSet(S \ {y})
  BY FS_Subset
<1>3. SumOf(f, S \ {y}) = SumOf(g, S \ {y})
  BY <1>2, SumSame
<1>4. SumOf(f, S \ {y}) \in Int /\ SumOf(f, S) \in Int /\ SumOf(g, S) \in Int
  BY <1>2, SumIsInt
<1> QED BY <1>1, <1>3, <1>4

\* A sum of zeros.
LEMMA SumOfZeros ==
    ASSUME NEW f, NEW S, IsFiniteSet(S), \A x \in S : f[x] = 0
    PROVE  SumOf(f, S) = 0
<1> SUFFICES ASSUME SumOf(f, S) # 0 PROVE FALSE
  OBVIOUS
<1> DEFINE B == {T \in SUBSET S : SumOf(f, T) # 0}
<1>1. B # {} /\ B \subseteq SUBSET S
  OBVIOUS
<1>2. PICK T \in B : \A U \in SUBSET T : U # T => U \notin B
  <2> HIDE DEF B
  <2> QED BY <1>1, SmallestSubset
<1>3. IsFiniteSet(T) /\ T # {}
  BY FS_Subset, SumStep
<1>4. Least(T) \in T /\ SumOf(f, T) = f[Least(T)] + SumOf(f, T \ {Least(T)})
  BY <1>3, SumStep
<1>5. SumOf(f, T \ {Least(T)}) = 0
  BY <1>2, <1>4
<1> QED BY <1>2, <1>4, <1>5

\* A sum of values that are no less than a number.
LEMMA SumAtLeast ==
    ASSUME NEW f, NEW S, IsFiniteSet(S), NEW c \in Nat, \A x \in S : f[x] \in Nat /\ f[x] >= c
    PROVE  SumOf(f, S) >= c * Cardinality(S)
<1> SUFFICES ASSUME ~(SumOf(f, S) >= c * Cardinality(S)) PROVE FALSE
  OBVIOUS
<1> DEFINE B == {T \in SUBSET S : ~(SumOf(f, T) >= c * Cardinality(T))}
<1>1. B # {} /\ B \subseteq SUBSET S
  OBVIOUS
<1>2. PICK T \in B : \A U \in SUBSET T : U # T => U \notin B
  <2> HIDE DEF B
  <2> QED BY <1>1, SmallestSubset
<1>3. IsFiniteSet(T) /\ T # {}
  <2>1. IsFiniteSet({}) /\ Cardinality({}) = 0
    BY FS_EmptySet
  <2>2. SumOf(f, {}) = 0
    <3> PICK none : none = {}
      OBVIOUS
    <3>1. IsFiniteSet(none)
      BY <2>1
    <3> QED BY <3>1, SumStep, Zenon
  <2>3. c * 0 = 0
    OBVIOUS
  <2>4. SumOf(f, {}) >= c * Cardinality({})
    BY <2>1, <2>2, <2>3
  <2>5. IsFiniteSet(T)
    BY FS_Subset
  <2> QED BY <1>2, <2>4, <2>5
<1>4. Least(T) \in T /\ SumOf(f, T) = f[Least(T)] + SumOf(f, T \ {Least(T)})
  BY <1>3, SumStep
<1>5. SumOf(f, T \ {Least(T)}) >= c * Cardinality(T \ {Least(T)})
  BY <1>2, <1>4
<1> PICK k : k = Cardinality(T \ {Least(T)})
  OBVIOUS
<1>6. k \in Nat /\ Cardinality(T) = k + 1
  <2>1. Cardinality(T) \in Nat /\ k \in Nat
    BY <1>3, FS_RemoveElement, FS_CardinalityType
  <2>2. k = Cardinality(T) - 1
    BY <1>3, <1>4, FS_RemoveElement
  <2> QED BY <2>1, <2>2
<1> PICK r : r = SumOf(f, T \ {Least(T)})
  OBVIOUS
<1>7. r \in Nat
  BY <1>3, FS_Subset, SumIsNat
<1>8. f[Least(T)] \in Nat /\ f[Least(T)] >= c
  BY <1>4
<1>9. c * (k + 1) = c * k + c /\ c * k \in Nat
  BY <1>6
<1>10. SumOf(f, T) >= c * Cardinality(T)
  BY <1>4, <1>5, <1>6, <1>7, <1>8, <1>9
<1> QED BY <1>2, <1>10

\* A part of a sum of naturals is no more than the whole.
LEMMA SumOfPart ==
    ASSUME NEW f, NEW S, IsFiniteSet(S), \A x \in S : f[x] \in Nat, NEW T \in SUBSET S
    PROVE  SumOf(f, T) <= SumOf(f, S)
<1> SUFFICES ASSUME ~(SumOf(f, T) <= SumOf(f, S)) PROVE FALSE
  OBVIOUS
<1> DEFINE B == {U \in SUBSET S : T \subseteq U /\ ~(SumOf(f, T) <= SumOf(f, U))}
<1>1. B # {} /\ B \subseteq SUBSET S
  OBVIOUS
<1>2. PICK U \in B : \A V \in SUBSET U : V # U => V \notin B
  <2> HIDE DEF B
  <2> QED BY <1>1, SmallestSubset
<1>3. IsFiniteSet(T) /\ IsFiniteSet(U)
  BY FS_Subset
<1>4. SumOf(f, T) \in Nat /\ SumOf(f, U) \in Nat
  BY <1>3, SumIsNat
<1>5. U # T
  BY <1>4
<1>6. PICK y \in U : y \notin T
  BY <1>5
<1>7. SumOf(f, U) = f[y] + SumOf(f, U \ {y})
  BY <1>3, SumWithout
<1>8. SumOf(f, T) <= SumOf(f, U \ {y})
  <2>1. U \ {y} \in SUBSET U /\ U \ {y} # U /\ T \subseteq U \ {y}
    BY <1>6
  <2> QED BY <1>2, <2>1
<1>9. SumOf(f, U \ {y}) \in Nat /\ f[y] \in Nat
  <2>1. IsFiniteSet(U \ {y})
    BY <1>3, FS_Subset
  <2> QED BY <2>1, SumIsNat
<1>10. SumOf(f, T) <= SumOf(f, U)
  BY <1>4, <1>7, <1>8, <1>9
<1> QED BY <1>10

\* A finite set of numbers that is not empty has a greatest one.
LEMMA MaxIn ==
    ASSUME NEW S, IsFiniteSet(S), S \subseteq Int, S # {}
    PROVE  Max(S) \in S /\ \A y \in S : Max(S) >= y
<1> SUFFICES \E x \in S : \A y \in S : x >= y
  BY DEF Max
<1> SUFFICES ASSUME ~ \E x \in S : \A y \in S : x >= y PROVE FALSE
  OBVIOUS
<1> DEFINE B == {T \in SUBSET S : T # {} /\ ~ \E x \in T : \A y \in T : x >= y}
<1>1. B # {} /\ B \subseteq SUBSET S
  OBVIOUS
<1>2. PICK T \in B : \A U \in SUBSET T : U # T => U \notin B
  <2> HIDE DEF B
  <2> QED BY <1>1, SmallestSubset
<1>3. PICK z \in T : TRUE
  OBVIOUS
<1>4. T \ {z} # {}
  <2>1. \E y \in T : ~(z >= y)
    BY <1>3
  <2> QED BY <2>1, <1>1
<1>5. PICK x \in T \ {z} : \A y \in T \ {z} : x >= y
  <2>1. T \ {z} \in SUBSET T /\ T \ {z} # T
    BY <1>3
  <2> QED BY <1>2, <1>4, <2>1
<1>6. CASE x >= z
  BY <1>5, <1>6
<1>7. CASE z >= x
  <2>1. \A y \in T : z >= y
    BY <1>3, <1>5, <1>7
  <2> QED BY <1>3, <2>1
<1> QED BY <1>3, <1>5, <1>6, <1>7

\* A set of natural numbers that is not empty has a smallest one.
LEMMA SmallestNat ==
    ASSUME NEW B, B \subseteq Nat, B # {}
    PROVE  \E m \in B : \A k \in B : m <= k
<1> DEFINE R == OpToRel(<, Nat)
<1>1. IsWellFoundedOn(R, Nat)
  BY Zenon, NatLessThanWellFounded
<1>2. \A k, m \in Nat : k < m => <<k, m>> \in R
  BY DEF OpToRel
<1> HIDE DEF R
<1>3. PICK m \in B : \A k \in B : <<k, m>> \notin R
  BY <1>1, WFMin
<1>4. ASSUME NEW k \in B PROVE m <= k
  <2>1. k \in Nat /\ m \in Nat
    OBVIOUS
  <2>2. ~(k < m)
    BY <1>2, <1>3, <2>1
  <2> QED BY <2>1, <2>2
<1> QED BY <1>3, <1>4
=============================================================================
