----------------------------- MODULE FiniteSums -----------------------------
(***************************************************************************)
(* Sums of functions over finite sets.                                     *)
(*                                                                         *)
(* SumFunctionOnSet is a fold, and a fold a recursive function on the      *)
(* subsets of a finite set.  The facts about it need an induction, here    *)
(* the principle of the smallest counterexample: proper inclusion is well- *)
(* founded on the finite sets, so a family of them that is not empty has a *)
(* member no proper subset of which is in the family.                      *)
(***************************************************************************)
EXTENDS Integers, Functions, FiniteSetTheorems, TLAPS

Pick(s) == CHOOSE x \in s : TRUE

(* The equation of the fold, for a function g on the subsets of S.         *)
Adds(f, S, g) ==
  g = [s \in SUBSET S |-> IF s = {} THEN 0 ELSE f[Pick(s)] + g[s \ {Pick(s)}]]

LEMMA SmallestCounterexample ==
  ASSUME NEW S, IsFiniteSet(S), NEW F, F \subseteq SUBSET S, F # {}
  PROVE  \E T \in F : \A U \in F : U \subseteq T => U = T
<1>1. F \subseteq FiniteSubsetsOf(S)
  BY FS_FiniteSubsetsOfFinite
<1>2. PICK T \in F : \A U \in F : <<U, T>> \notin StrictSubsetOrdering(S)
  BY <1>1, FS_StrictSubsetOrderingWellFounded, WFMin
<1>3. ASSUME NEW U \in F, U \subseteq T, U # T
      PROVE  <<U, T>> \in StrictSubsetOrdering(S)
  BY <1>3 DEF StrictSubsetOrdering
<1>4. \A U \in F : U \subseteq T => U = T
  BY <1>2, <1>3
<1> QED
  BY <1>4, Zenon

LEMMA PickIsIn == ASSUME NEW s, s # {} PROVE Pick(s) \in s
BY DEF Pick

LEMMA AddsAt ==
  ASSUME NEW f, NEW S, NEW g, Adds(f, S, g), NEW s \in SUBSET S
  PROVE  /\ s = {} => g[s] = 0
         /\ s # {} => g[s] = f[Pick(s)] + g[s \ {Pick(s)}]
BY DEF Adds

(* Two solutions agree where both are defined.                             *)
LEMMA SolutionsAgree ==
  ASSUME NEW f, NEW S, NEW R, IsFiniteSet(S), IsFiniteSet(R),
         NEW g, NEW h, Adds(f, S, g), Adds(f, R, h),
         NEW s \in SUBSET S, s \in SUBSET R
  PROVE  g[s] = h[s]
<1> DEFINE F == {u \in SUBSET S : u \in SUBSET R /\ g[u] # h[u]}
<1>1. SUFFICES ASSUME F # {} PROVE FALSE
  OBVIOUS
<1>0. F \subseteq SUBSET S
  OBVIOUS
<1>2. PICK T \in F : \A U \in F : U \subseteq T => U = T
  <2> HIDE DEF F
  <2> QED
    BY <1>0, <1>1, SmallestCounterexample
<1>3. T # {}
  BY AddsAt
<1> DEFINE V == T \ {Pick(T)}
<1>4. V \notin F
  BY <1>2, <1>3, PickIsIn
<1>5. g[V] = h[V]
  BY <1>4
<1>6. g[T] = f[Pick(T)] + g[V] /\ h[T] = f[Pick(T)] + h[V]
  <2>1. T \in SUBSET S /\ T \in SUBSET R
    OBVIOUS
  <2> HIDE DEF F
  <2>2. g[T] = f[Pick(T)] + g[T \ {Pick(T)}]
    <3>1. T \in SUBSET S
      BY <2>1
    <3>2. Adds(f, S, g)
      OBVIOUS
    <3> QED
      BY <1>3, <3>1, <3>2 DEF Adds
  <2>3. h[T] = f[Pick(T)] + h[T \ {Pick(T)}]
    BY <1>3, <2>1 DEF Adds
  <2> QED
    BY <2>2, <2>3
<1> QED
  BY <1>5, <1>6

(* A finite set has a solution: if all smaller ones do, they are glued.    *)
LEMMA SolutionExists ==
  ASSUME NEW f, NEW S, IsFiniteSet(S)
  PROVE  \E g : Adds(f, S, g)
<1> DEFINE F == {T \in SUBSET S : ~ \E g : Adds(f, T, g)}
<1>1. SUFFICES ASSUME F # {} PROVE FALSE
  OBVIOUS
<1>0. F \subseteq SUBSET S
  OBVIOUS
<1>2. PICK T \in F : \A U \in F : U \subseteq T => U = T
  <2> HIDE DEF F
  <2> QED
    BY <1>0, <1>1, SmallestCounterexample
<1> DEFINE G(U) == CHOOSE g : Adds(f, U, g)
<1>3. ASSUME NEW U \in SUBSET T, U # T
      PROVE  Adds(f, U, G(U)) /\ IsFiniteSet(U)
  <2>1. U \in SUBSET S /\ U \notin F
    BY <1>2, <1>3
  <2>2. \E g : Adds(f, U, g)
    BY <2>1
  <2>3. IsFiniteSet(U)
    BY <2>1, FS_Subset
  <2> QED
    BY <2>2, <2>3
<1> DEFINE below == [U \in SUBSET T |-> G(U)[U]]
           g == [s \in SUBSET T |-> IF s = {} THEN 0 ELSE f[Pick(s)] + below[s \ {Pick(s)}]]
<1>4. ASSUME NEW s \in SUBSET T, s # T
      PROVE  g[s] = below[s]
  <2>1. Adds(f, s, G(s))
    BY <1>3, <1>4
  <2>2. CASE s = {}
    BY <2>1, <2>2, AddsAt
  <2>3. CASE s # {}
    <3> DEFINE r == s \ {Pick(s)}
    <3>1. Pick(s) \in s
      BY <2>3, PickIsIn
    <3>2. r \in SUBSET T /\ r # T /\ r \in SUBSET s
      BY <3>1
    <3>3. Adds(f, r, G(r)) /\ IsFiniteSet(r) /\ IsFiniteSet(s)
      BY <1>3, <1>4, <3>2
    <3>4. G(r)[r] = G(s)[r]
      BY <2>1, <3>2, <3>3, SolutionsAgree
    <3>5. G(s)[s] = f[Pick(s)] + G(s)[r]
      BY <2>1, <2>3, AddsAt
    <3> HIDE DEF G
    <3> QED
      BY <2>3, <3>2, <3>4, <3>5
  <2> QED
    BY <2>2, <2>3
<1>5. Adds(f, T, g)
  <2>1. ASSUME NEW s \in SUBSET T, s # {}
        PROVE  below[s \ {Pick(s)}] = g[s \ {Pick(s)}]
    <3>1. s \ {Pick(s)} \in SUBSET T /\ s \ {Pick(s)} # T
      BY <2>1, PickIsIn
    <3> QED
      BY <3>1, <1>4
  <2> HIDE DEF below
  <2> QED
    BY <2>1 DEF Adds
<1> QED
  BY <1>2, <1>5

(* The equation of a sum.                                                  *)
LEMMA SumIsASolution ==
  ASSUME NEW f, NEW S, IsFiniteSet(S)
  PROVE  \E g : Adds(f, S, g) /\ SumFunctionOnSet(f, S) = g[S]
<1> DEFINE g == CHOOSE h : h = [s \in SUBSET S |-> IF s = {} THEN 0 ELSE f[Pick(s)] + h[s \ {Pick(s)}]]
<1>1. SumFunctionOnSet(f, S) = g[S]
  BY Zenon DEF SumFunctionOnSet, FoldFunctionOnSet, MapThenFoldSet, Pick
<1>2. \E h : h = [s \in SUBSET S |-> IF s = {} THEN 0 ELSE f[Pick(s)] + h[s \ {Pick(s)}]]
  <2>1. PICK h : Adds(f, S, h)
    BY SolutionExists
  <2> QED
    BY <2>1, Zenon DEF Adds
<1>3. Adds(f, S, g)
  BY <1>2, Zenon DEF Adds
<1> QED
  BY <1>1, <1>3

LEMMA SumEmpty ==
  ASSUME NEW f
  PROVE  SumFunctionOnSet(f, {}) = 0
<1>1. PICK g : Adds(f, {}, g) /\ SumFunctionOnSet(f, {}) = g[{}]
  BY SumIsASolution, FS_EmptySet
<1> QED
  BY <1>1, AddsAt

LEMMA SumStep ==
  ASSUME NEW f, NEW S, IsFiniteSet(S), S # {}
  PROVE  SumFunctionOnSet(f, S) = f[Pick(S)] + SumFunctionOnSet(f, S \ {Pick(S)})
<1> DEFINE R == S \ {Pick(S)}
<1>1. IsFiniteSet(R)
  BY FS_RemoveElement
<1>2. PICK g : Adds(f, S, g) /\ SumFunctionOnSet(f, S) = g[S]
  BY SumIsASolution
<1>3. PICK h : Adds(f, R, h) /\ SumFunctionOnSet(f, R) = h[R]
  BY <1>1, SumIsASolution
<1>4. g[R] = h[R]
  BY <1>1, <1>2, <1>3, SolutionsAgree
<1> QED
  BY <1>2, <1>3, <1>4, AddsAt
-----------------------------------------------------------------------------
(* What follows from the equation.                                         *)

(* Induction over the subsets of a finite set: a family that has the empty *)
(* set, and every set it has all the smaller ones of, has the set itself.  *)
LEMMA SubsetInduction ==
  ASSUME NEW S, IsFiniteSet(S), NEW F, {} \in F,
         \A T \in SUBSET S : T # {} /\ (\A x \in T : T \ {x} \in F) => T \in F
  PROVE  S \in F
<1> DEFINE G == {T \in SUBSET S : T \notin F}
<1>1. SUFFICES ASSUME G # {} PROVE FALSE
  <2>1. S \notin G => S \in F
    OBVIOUS
  <2> QED
    BY <1>1, <2>1
<1>2. G \subseteq SUBSET S
  OBVIOUS
<1>3. PICK T \in G : \A U \in G : U \subseteq T => U = T
  <2> HIDE DEF G
  <2> QED
    BY <1>1, <1>2, SmallestCounterexample
<1>4. ASSUME NEW x \in T
      PROVE  T \ {x} \in F
  <2>1. T \ {x} \notin G
    BY <1>3
  <2> QED
    BY <2>1
<1> QED
  BY <1>4

LEMMA FiniteParts ==
  ASSUME NEW S, IsFiniteSet(S), NEW T \in SUBSET S
  PROVE  IsFiniteSet(T) /\ (T # {} => Pick(T) \in T) /\ \A x \in T : IsFiniteSet(T \ {x})
BY FS_Subset, FS_RemoveElement, PickIsIn

LEMMA SumsAgree ==
  ASSUME NEW f, NEW g, NEW S, IsFiniteSet(S), \A x \in S : f[x] = g[x]
  PROVE  SumFunctionOnSet(f, S) = SumFunctionOnSet(g, S)
<1> DEFINE F == {T \in SUBSET S : SumFunctionOnSet(f, T) = SumFunctionOnSet(g, T)}
<1>1. {} \in F
  BY SumEmpty
<1>2. ASSUME NEW T \in SUBSET S, T # {}, \A x \in T : T \ {x} \in F
      PROVE  T \in F
  <2>1. IsFiniteSet(T) /\ Pick(T) \in T
    BY <1>2, FiniteParts
  <2>2. T \ {Pick(T)} \in F
    BY <1>2, <2>1
  <2>3. SumFunctionOnSet(f, T) = f[Pick(T)] + SumFunctionOnSet(f, T \ {Pick(T)})
    BY <1>2, <2>1, SumStep
  <2>4. SumFunctionOnSet(g, T) = g[Pick(T)] + SumFunctionOnSet(g, T \ {Pick(T)})
    BY <1>2, <2>1, SumStep
  <2>5. f[Pick(T)] = g[Pick(T)]
    BY <2>1
  <2> QED
    BY <2>2, <2>3, <2>4, <2>5
<1>3. S \in F
  <2> HIDE DEF F
  <2> QED
    BY <1>1, <1>2, SubsetInduction
<1> QED
  BY <1>3

LEMMA SumIsInt ==
  ASSUME NEW f, NEW S, IsFiniteSet(S), \A x \in S : f[x] \in Int
  PROVE  SumFunctionOnSet(f, S) \in Int
<1> DEFINE F == {T \in SUBSET S : SumFunctionOnSet(f, T) \in Int}
<1>1. {} \in F
  BY SumEmpty
<1>2. ASSUME NEW T \in SUBSET S, T # {}, \A x \in T : T \ {x} \in F
      PROVE  T \in F
  <2>1. IsFiniteSet(T) /\ Pick(T) \in T
    BY <1>2, FiniteParts
  <2>2. T \ {Pick(T)} \in F
    BY <1>2, <2>1
  <2>3. SumFunctionOnSet(f, T) = f[Pick(T)] + SumFunctionOnSet(f, T \ {Pick(T)})
    BY <1>2, <2>1, SumStep
  <2>4. f[Pick(T)] \in Int
    BY <2>1
  <2> QED
    BY <2>2, <2>3, <2>4
<1>3. S \in F
  <2> HIDE DEF F
  <2> QED
    BY <1>1, <1>2, SubsetInduction
<1> QED
  BY <1>3

LEMMA Exchange ==
  \A a, b, c \in Int : a + (b + c) = b + (a + c) /\ a + (b + c) = (a + b) + c
OBVIOUS

(* Any element may be taken out, not only the one the fold picks.          *)
LEMMA SumRemove ==
  ASSUME NEW f, NEW S, IsFiniteSet(S), \A x \in S : f[x] \in Int, NEW a \in S
  PROVE  SumFunctionOnSet(f, S) = f[a] + SumFunctionOnSet(f, S \ {a})
<1> DEFINE Sm(T) == SumFunctionOnSet(f, T)
           F == {T \in SUBSET S : \A x \in T : Sm(T) = f[x] + Sm(T \ {x})}
<1>1. {} \in F
  OBVIOUS
<1>2. ASSUME NEW T \in SUBSET S, T # {}, \A x \in T : T \ {x} \in F
      PROVE  T \in F
  <2> DEFINE y == Pick(T)
  <2>1. IsFiniteSet(T) /\ y \in T
    BY <1>2, FiniteParts
  <2>2. Sm(T) = f[y] + Sm(T \ {y})
    BY <1>2, <2>1, SumStep
  <2>3. ASSUME NEW x \in T, x # y
        PROVE  Sm(T) = f[x] + Sm(T \ {x})
    <3> DEFINE c == Sm((T \ {x}) \ {y})
    <3>1. Sm(T \ {y}) = f[x] + Sm((T \ {y}) \ {x}) /\ Sm(T \ {x}) = f[y] + c
      BY <1>2, <2>1, <2>3
    <3>2. (T \ {y}) \ {x} = (T \ {x}) \ {y}
      OBVIOUS
    <3>3. IsFiniteSet((T \ {x}) \ {y})
      BY <2>1, FS_RemoveElement
    <3>4. c \in Int /\ f[x] \in Int /\ f[y] \in Int
      BY <2>1, <3>3, SumIsInt
    <3>5. f[y] + (f[x] + c) = f[x] + (f[y] + c)
      BY <3>4, Exchange
    <3>6. Sm(T \ {y}) = f[x] + c
      BY <3>1, <3>2
    <3> HIDE DEF Sm, c, y
    <3> QED
      BY <2>2, <3>1, <3>5, <3>6, Zenon
  <2> QED
    BY <2>2, <2>3
<1>3. S \in F
  <2> HIDE DEF F
  <2> QED
    BY <1>1, <1>2, SubsetInduction
<1> QED
  BY <1>3

LEMMA SumIsNat ==
  ASSUME NEW f, NEW S, IsFiniteSet(S), \A x \in S : f[x] \in Nat
  PROVE  SumFunctionOnSet(f, S) \in Nat
<1> DEFINE F == {T \in SUBSET S : SumFunctionOnSet(f, T) \in Nat}
<1>1. {} \in F
  BY SumEmpty
<1>2. ASSUME NEW T \in SUBSET S, T # {}, \A x \in T : T \ {x} \in F
      PROVE  T \in F
  <2>1. IsFiniteSet(T) /\ Pick(T) \in T
    BY <1>2, FiniteParts
  <2>2. T \ {Pick(T)} \in F
    BY <1>2, <2>1
  <2>3. SumFunctionOnSet(f, T) = f[Pick(T)] + SumFunctionOnSet(f, T \ {Pick(T)})
    BY <1>2, <2>1, SumStep
  <2>4. f[Pick(T)] \in Nat
    BY <2>1
  <2> QED
    BY <2>2, <2>3, <2>4
<1>3. S \in F
  <2> HIDE DEF F
  <2> QED
    BY <1>1, <1>2, SubsetInduction
<1> QED
  BY <1>3

(* Disjoint sets add up.                                                   *)
LEMMA SumUnion ==
  ASSUME NEW f, NEW S, NEW R, IsFiniteSet(S), IsFiniteSet(R), S \cap R = {},
         \A x \in S \cup R : f[x] \in Int
  PROVE  SumFunctionOnSet(f, S \cup R) = SumFunctionOnSet(f, S) + SumFunctionOnSet(f, R)
<1> DEFINE Sm(T) == SumFunctionOnSet(f, T)
           F == {T \in SUBSET S : Sm(T \cup R) = Sm(T) + Sm(R)}
<1>1. Sm(R) \in Int
  BY SumIsInt
<1>2. {} \in F
  <2>1. Sm({}) = 0 /\ {} \cup R = R
    BY SumEmpty
  <2> QED
    BY <1>1, <2>1
<1>3. ASSUME NEW T \in SUBSET S, T # {}, \A x \in T : T \ {x} \in F
      PROVE  T \in F
  <2> DEFINE x == Pick(T)
             V == T \ {x}
  <2>1. IsFiniteSet(T) /\ x \in T /\ IsFiniteSet(V)
    BY <1>3, FiniteParts
  <2>2. IsFiniteSet(T \cup R)
    BY <2>1, FS_Union
  <2>3. Sm(V \cup R) = Sm(V) + Sm(R)
    BY <1>3, <2>1
  <2>4. Sm(T) = f[x] + Sm(V)
    BY <2>1, SumRemove
  <2>5. (T \cup R) \ {x} = V \cup R
    BY <2>1
  <2>6. Sm(T \cup R) = f[x] + Sm((T \cup R) \ {x})
    BY <2>1, <2>2, SumRemove
  <2>7. Sm(V) \in Int /\ f[x] \in Int
    BY <2>1, SumIsInt
  <2>8. f[x] + (Sm(V) + Sm(R)) = (f[x] + Sm(V)) + Sm(R)
    BY <1>1, <2>7, Exchange
  <2>9. Sm(T \cup R) = Sm(T) + Sm(R)
    BY <2>3, <2>4, <2>5, <2>6, <2>8, Zenon
  <2> QED
    BY <2>9
<1>4. S \in F
  <2> HIDE DEF F
  <2> QED
    BY <1>2, <1>3, SubsetInduction
<1> QED
  BY <1>4

(* Sums of natural numbers grow with the set, and with the function.       *)
LEMMA SumOfPart ==
  ASSUME NEW f, NEW S, IsFiniteSet(S), \A x \in S : f[x] \in Nat, NEW T \in SUBSET S
  PROVE  SumFunctionOnSet(f, T) <= SumFunctionOnSet(f, S)
<1>1. IsFiniteSet(T) /\ IsFiniteSet(S \ T)
  BY FS_Subset
<1>2. T \cup (S \ T) = S /\ T \cap (S \ T) = {}
  OBVIOUS
<1>3. \A x \in T \cup (S \ T) : f[x] \in Int
  OBVIOUS
<1>4. SumFunctionOnSet(f, S) = SumFunctionOnSet(f, T) + SumFunctionOnSet(f, S \ T)
  BY <1>1, <1>2, <1>3, SumUnion
<1>5. SumFunctionOnSet(f, T) \in Nat /\ SumFunctionOnSet(f, S \ T) \in Nat
  BY <1>1, SumIsNat
<1> QED
  BY <1>4, <1>5

LEMMA SumOfOnePart ==
  ASSUME NEW f, NEW S, IsFiniteSet(S), \A x \in S : f[x] \in Nat, NEW a \in S
  PROVE  f[a] <= SumFunctionOnSet(f, S)
<1>1. SumFunctionOnSet(f, S) = f[a] + SumFunctionOnSet(f, S \ {a})
  BY SumRemove
<1>2. IsFiniteSet(S \ {a}) /\ \A x \in S \ {a} : f[x] \in Nat
  BY FS_RemoveElement
<1>3. SumFunctionOnSet(f, S \ {a}) \in Nat
  BY <1>2, SumIsNat
<1> QED
  BY <1>1, <1>3

(* A sum of ones counts.                                                   *)
LEMMA SumOfOnes ==
  ASSUME NEW f, NEW S, IsFiniteSet(S), \A x \in S : f[x] = 1
  PROVE  SumFunctionOnSet(f, S) = Cardinality(S)
<1> DEFINE F == {T \in SUBSET S : SumFunctionOnSet(f, T) = Cardinality(T)}
<1>1. {} \in F
  BY SumEmpty, FS_EmptySet
<1>2. ASSUME NEW T \in SUBSET S, T # {}, \A x \in T : T \ {x} \in F
      PROVE  T \in F
  <2> DEFINE x == Pick(T)
  <2>1. IsFiniteSet(T) /\ x \in T /\ IsFiniteSet(T \ {x})
    BY <1>2, FiniteParts
  <2>2. SumFunctionOnSet(f, T \ {x}) = Cardinality(T \ {x})
    BY <1>2, <2>1
  <2>3. SumFunctionOnSet(f, T) = f[x] + SumFunctionOnSet(f, T \ {x})
    BY <1>2, <2>1, SumStep
  <2>4. Cardinality(T \ {x}) = Cardinality(T) - 1 /\ Cardinality(T) \in Nat
    BY <2>1, FS_RemoveElement, FS_CardinalityType
  <2>5. f[x] = 1
    BY <2>1
  <2> HIDE DEF x
  <2> QED
    BY <2>2, <2>3, <2>4, <2>5
<1>3. S \in F
  <2> HIDE DEF F
  <2> QED
    BY <1>1, <1>2, SubsetInduction
<1> QED
  BY <1>3

LEMMA Distribute == \A a, b, c \in Int : a * (b + c) = a * b + a * c
OBVIOUS

(* Multiples of two sums compare as those of their terms do.               *)
LEMMA SumsCompare ==
  ASSUME NEW S, IsFiniteSet(S), NEW f, NEW g, \A x \in S : f[x] \in Int /\ g[x] \in Int,
         NEW a \in Int, NEW b \in Int, \A x \in S : a * f[x] <= b * g[x]
  PROVE  a * SumFunctionOnSet(f, S) <= b * SumFunctionOnSet(g, S)
<1> DEFINE F == {T \in SUBSET S : a * SumFunctionOnSet(f, T) <= b * SumFunctionOnSet(g, T)}
<1>1. {} \in F
  BY SumEmpty
<1>2. ASSUME NEW T \in SUBSET S, T # {}, \A x \in T : T \ {x} \in F
      PROVE  T \in F
  <2> DEFINE x == Pick(T)
             R == T \ {x}
             p == SumFunctionOnSet(f, R)
             q == SumFunctionOnSet(g, R)
  <2>1. IsFiniteSet(T) /\ x \in T /\ IsFiniteSet(R) /\ R \in SUBSET S
    BY <1>2, FiniteParts
  <2>2. a * p <= b * q
    BY <1>2, <2>1
  <2>3. SumFunctionOnSet(f, T) = f[x] + p /\ SumFunctionOnSet(g, T) = g[x] + q
    BY <1>2, <2>1, SumStep
  <2>4. p \in Int /\ q \in Int
    BY <2>1, SumIsInt
  <2>5. f[x] \in Int /\ g[x] \in Int /\ a * f[x] <= b * g[x]
    BY <2>1
  <2> HIDE DEF x, R, p, q
  <2>6. a * (f[x] + p) = a * f[x] + a * p /\ b * (g[x] + q) = b * g[x] + b * q
    BY <2>4, <2>5, Distribute
  <2>7. a * f[x] \in Int /\ a * p \in Int /\ b * g[x] \in Int /\ b * q \in Int
    BY <2>4, <2>5
  <2>8. a * (f[x] + p) <= b * (g[x] + q)
    BY <2>2, <2>5, <2>6, <2>7
  <2> QED
    BY <2>3, <2>8
<1>3. S \in F
  <2> HIDE DEF F
  <2> QED
    BY <1>1, <1>2, SubsetInduction
<1> QED
  BY <1>3

(* A set of the largest values has at least its share of the sum.          *)
LEMMA LargestHaveTheirShare ==
  ASSUME NEW S, IsFiniteSet(S), NEW f, \A x \in S : f[x] \in Nat,
         NEW T \in SUBSET S, \A x \in T, y \in S \ T : f[y] <= f[x]
  PROVE  SumFunctionOnSet(f, T) * Cardinality(S) >= SumFunctionOnSet(f, S) * Cardinality(T)
<1> DEFINE R == S \ T
           ones == [x \in S |-> 1]
           p == SumFunctionOnSet(f, T)
           q == SumFunctionOnSet(f, R)
           k == Cardinality(T)
           m == Cardinality(R)
<1>1. IsFiniteSet(T) /\ IsFiniteSet(R) /\ T \cap R = {} /\ S = T \cup R
  BY FS_Subset
<1>2. p \in Nat /\ q \in Nat /\ k \in Nat /\ m \in Nat
  BY <1>1, SumIsNat, FS_CardinalityType
<1>3. SumFunctionOnSet(f, S) = p + q
  <2>1. \A x \in T \cup R : f[x] \in Int
    OBVIOUS
  <2> HIDE DEF R
  <2> QED
    BY <1>1, <2>1, SumUnion
<1>4. Cardinality(S) = k + m
  <2>1. Cardinality(T \cap R) = 0
    BY <1>1, FS_EmptySet
  <2>2. Cardinality(T \cup R) = k + m - Cardinality(T \cap R)
    BY <1>1, FS_Union
  <2> HIDE DEF R, k, m
  <2> QED
    BY <1>1, <1>2, <2>1, <2>2
<1>5. \A x \in S : ones[x] = 1
  OBVIOUS
<1>6. SumFunctionOnSet(ones, T) = k /\ SumFunctionOnSet(ones, R) = m
  <2> HIDE DEF ones
  <2> QED
    BY <1>1, <1>5, SumOfOnes
<1>7. ASSUME NEW x \in T
      PROVE  q <= f[x] * m
  <2>1. \A y \in R : f[y] \in Int /\ ones[y] \in Int /\ 1 * f[y] <= f[x] * ones[y]
    OBVIOUS
  <2>2. 1 * q <= f[x] * SumFunctionOnSet(ones, R)
    <3>1. 1 \in Int /\ f[x] \in Int
      OBVIOUS
    <3> HIDE DEF ones, R
    <3> QED
      BY <1>1, <2>1, <3>1, SumsCompare, Zenon
  <2>3. 1 * q = q
    BY <1>2
  <2> QED
    BY <1>6, <2>2, <2>3, Zenon
<1>8. q * k <= m * p
  <2>1. \A x \in T : ones[x] \in Int /\ f[x] \in Int /\ q * ones[x] <= m * f[x]
    <3> TAKE x \in T
    <3>1. f[x] \in Int /\ ones[x] = 1 /\ q <= f[x] * m
      BY <1>7
    <3>2. ones[x] \in Int /\ q * ones[x] = q /\ m * f[x] = f[x] * m
      BY <1>2, <3>1
    <3> QED
      BY <3>1, <3>2, Zenon
  <2>2. q * SumFunctionOnSet(ones, T) <= m * SumFunctionOnSet(f, T)
    <3>1. q \in Int /\ m \in Int
      BY <1>2
    <3> HIDE DEF ones, q, m
    <3> QED
      BY <1>1, <2>1, <3>1, SumsCompare, Zenon
  <2> QED
    BY <1>6, <2>2
<1> HIDE DEF R, p, q, k, m
<1>9. p * (k + m) = p * k + p * m /\ (p + q) * k = p * k + q * k /\ m * p = p * m
  BY <1>2
<1>10. p * k \in Int /\ p * m \in Int /\ q * k \in Int
  BY <1>2
<1>11. p * (k + m) >= (p + q) * k
  BY <1>8, <1>9, <1>10
<1> QED
  BY <1>3, <1>4, <1>11 DEF p, k

(* Breaking a sum down by a key and adding the parts up gives the sum.     *)
Class(S, key, k) == {x \in S : key[x] = k}

LEMMA SumByKey ==
  ASSUME NEW f, NEW S, IsFiniteSet(S), \A x \in S : f[x] \in Int,
         NEW key, NEW K, IsFiniteSet(K), \A x \in S : key[x] \in K,
         NEW parts, \A k \in K : parts[k] = SumFunctionOnSet(f, Class(S, key, k))
  PROVE  SumFunctionOnSet(parts, K) = SumFunctionOnSet(f, S)
<1> DEFINE Of(J) == {x \in S : key[x] \in J}
           F == {J \in SUBSET K : SumFunctionOnSet(parts, J) = SumFunctionOnSet(f, Of(J))}
<1>1. {} \in F
  <2>1. Of({}) = {}
    OBVIOUS
  <2> QED
    BY <2>1, SumEmpty
<1>2. ASSUME NEW J \in SUBSET K, J # {}, \A k \in J : J \ {k} \in F
      PROVE  J \in F
  <2> DEFINE k == Pick(J)
             one == Class(S, key, k)
             others == Of(J \ {k})
  <2>1. IsFiniteSet(J) /\ k \in J
    BY <1>2, FiniteParts
  <2>2. SumFunctionOnSet(parts, J \ {k}) = SumFunctionOnSet(f, others)
    BY <1>2, <2>1
  <2>3. SumFunctionOnSet(parts, J) = parts[k] + SumFunctionOnSet(parts, J \ {k})
    BY <1>2, <2>1, SumStep
  <2>4. parts[k] = SumFunctionOnSet(f, one)
    BY <2>1
  <2>5. Of(J) = one \cup others /\ one \cap others = {} /\ one \in SUBSET S /\ others \in SUBSET S
    BY <2>1 DEF Class
  <2>6. IsFiniteSet(one) /\ IsFiniteSet(others)
    BY <2>5, FS_Subset
  <2>7. \A x \in one \cup others : f[x] \in Int
    BY <2>5
  <2>8. SumFunctionOnSet(f, one \cup others)
          = SumFunctionOnSet(f, one) + SumFunctionOnSet(f, others)
    <3> HIDE DEF one, others
    <3> QED
      BY <2>5, <2>6, <2>7, SumUnion
  <2>9. SumFunctionOnSet(parts, J) = SumFunctionOnSet(f, Of(J))
    BY <2>2, <2>3, <2>4, <2>5, <2>8, Zenon
  <2> QED
    BY <2>9
<1>3. K \in F
  <2> HIDE DEF F
  <2> QED
    BY <1>1, <1>2, SubsetInduction
<1>4. Of(K) = S
  OBVIOUS
<1> QED
  BY <1>3, <1>4

LEMMA SumOfOne ==
  ASSUME NEW f, NEW a, f[a] \in Int
  PROVE  SumFunctionOnSet(f, {a}) = f[a]
<1>1. IsFiniteSet({a}) /\ {a} \ {a} = {}
  BY FS_Singleton
<1>2. SumFunctionOnSet(f, {a}) = f[a] + SumFunctionOnSet(f, {a} \ {a})
  BY <1>1, SumRemove
<1> QED
  BY <1>1, <1>2, SumEmpty

(* A sum written with its own function, as the sum of another one.         *)
LEMMA SumOfColumn ==
  ASSUME NEW g, NEW S, IsFiniteSet(S), NEW f, DOMAIN f = S, \A x \in S : f[x] = g[x]
  PROVE  SumFunction(f) = SumFunctionOnSet(g, S)
BY SumsAgree DEF SumFunction
-----------------------------------------------------------------------------
(* Numbers.                                                                *)

LEMMA HasLatest ==
  ASSUME NEW S \in SUBSET Int, IsFiniteSet(S), S # {}
  PROVE  \E m \in S : \A x \in S : x <= m
<1> DEFINE F == {T \in SUBSET S : T # {} => \E m \in T : \A x \in T : x <= m}
<1>1. {} \in F
  OBVIOUS
<1>2. ASSUME NEW T \in SUBSET S, T # {}, \A x \in T : T \ {x} \in F
      PROVE  T \in F
  <2>1. PICK a \in T : TRUE
    BY <1>2
  <2>2. CASE T \ {a} = {}
    <3>1. \A x \in T : x <= a
      BY <2>1, <2>2
    <3> QED
      BY <3>1
  <2>3. CASE T \ {a} # {}
    <3>1. T \ {a} \in F
      BY <1>2
    <3>2. PICK m \in T \ {a} : \A x \in T \ {a} : x <= m
      BY <2>3, <3>1
    <3>3. a \in Int /\ m \in Int
      OBVIOUS
    <3>4. CASE a <= m
      <4>1. \A x \in T : x <= m
        BY <3>2, <3>4
      <4> QED
        BY <4>1
    <3>5. CASE m <= a
      <4>1. \A x \in T : x <= a
        BY <3>2, <3>3, <3>5
      <4> QED
        BY <4>1
    <3> QED
      BY <3>3, <3>4, <3>5
  <2> QED
    BY <2>2, <2>3
<1>3. S \in F
  <2> HIDE DEF F
  <2> QED
    BY <1>1, <1>2, SubsetInduction
<1> QED
  BY <1>3

LEMMA InductionUpTo ==
  ASSUME NEW n \in Nat, NEW F, 0 \in F,
         \A m \in Nat : m < n /\ m \in F => m + 1 \in F
  PROVE  n \in F
<1> DEFINE G == {m \in Nat : m <= n /\ m \notin F}
<1>1. SUFFICES ASSUME G # {} PROVE FALSE
  OBVIOUS
<1>2. PICK m \in G : \A k \in G : <<k, m>> \notin OpToRel(<, Nat)
  <2>1. G \subseteq Nat
    OBVIOUS
  <2> HIDE DEF G
  <2> QED
    BY <1>1, <2>1, NatLessThanWellFounded, WFMin
<1>3. \A k \in G : ~(k < m)
  BY <1>2 DEF OpToRel
<1>4. m # 0 /\ m \in Nat /\ m <= n
  OBVIOUS
<1>5. m - 1 \in Nat /\ m - 1 < m
  BY <1>4
<1>6. m - 1 \in F
  BY <1>3, <1>4, <1>5
<1>7. (m - 1) + 1 \in F
  BY <1>4, <1>5, <1>6
<1> QED
  BY <1>4, <1>7

(* The rank of a number in a finite set of them: how many are smaller.     *)
Rank(K, w) == Cardinality({v \in K : v < w})

LEMMA EveryRank ==
  ASSUME NEW K \in SUBSET Int, IsFiniteSet(K), NEW i \in 0..(Cardinality(K) - 1)
  PROVE  \E w \in K : Rank(K, w) = i
<1> DEFINE n == Cardinality(K)
           T == 0..(n - 1)
           r == [w \in K |-> Rank(K, w)]
<1>1. n \in Nat
  BY FS_CardinalityType
<1>2. ASSUME NEW w \in K
      PROVE  Rank(K, w) \in T
  <2> DEFINE V == {v \in K : v < w}
  <2>1. V \in SUBSET K /\ w \notin V
    OBVIOUS
  <2>2. IsFiniteSet(V) /\ Cardinality(V) \in Nat /\ Cardinality(V) <= n /\ Cardinality(V) # n
    BY <2>1, FS_Subset, FS_CardinalityType
  <2> QED
    BY <1>1, <2>2 DEF Rank
<1>3. ASSUME NEW v \in K, NEW w \in K, v < w
      PROVE  Rank(K, v) # Rank(K, w)
  <2> DEFINE A == {u \in K : u < v}
             B == {u \in K : u < w}
  <2>0. \A u \in K : u < v => u < w
    BY <1>3
  <2>1. A \in SUBSET B /\ B \in SUBSET K /\ v \in B /\ v \notin A
    <3>1. A \subseteq B
      BY <2>0
    <3>2. B \subseteq K
      OBVIOUS
    <3>3. v \in B
      BY <1>3
    <3>4. v \in Int
      OBVIOUS
    <3>5. ~(v < v)
      BY <3>4
    <3>6. v \notin A
      BY <3>5
    <3> HIDE DEF A, B
    <3> QED
      BY <3>1, <3>2, <3>3, <3>6
  <2>2. IsFiniteSet(B)
    BY <2>1, FS_Subset
  <2>3. Cardinality(A) # Cardinality(B)
    BY <2>1, <2>2, FS_Subset
  <2> QED
    BY <2>3 DEF Rank
<1>4. r \in Injection(K, T)
  <2>1. r \in [K -> T]
    BY <1>2
  <2>2. \A v, w \in K : r[v] = r[w] => v = w
    BY <1>3
  <2> QED
    BY <2>1, <2>2 DEF Injection, IsInjective
<1>5. IsFiniteSet(T) /\ Cardinality(T) = n
  BY <1>1, FS_Interval
<1>6. r \in Surjection(K, T)
  BY <1>4, <1>5, FS_Injection
<1> QED
  BY <1>6 DEF Surjection

LEMMA ImageIsFinite ==
  ASSUME NEW S, IsFiniteSet(S), NEW f
  PROVE  IsFiniteSet({f[x] : x \in S})
<1> DEFINE T == {f[x] : x \in S}
           g == [x \in S |-> f[x]]
<1>1. g \in Surjection(S, T)
  BY DEF Surjection
<1> HIDE DEF T, g
<1>2. IsFiniteSet(T)
  BY <1>1, FS_Surjection
<1> QED
  BY <1>2 DEF T
=============================================================================
