------------------------------ MODULE SumProofs ------------------------------
(***************************************************************************)
(* Facts about the sums the pool's books are stated with: SumFunction of   *)
(* the community modules, for any finite set of accounts or strategies.    *)
(* Induction is over a set that is given, never over a predicate.          *)
(***************************************************************************)
EXTENDS Integers, Functions, FiniteSetsExt, FiniteSetTheorems, WellFoundedInduction, TLAPS

\* A set of naturals with 0 and the successor of each of its members.
LEMMA NaturalsByInduction ==
    ASSUME NEW P \in SUBSET Nat, 0 \in P, \A n \in P : n + 1 \in P
    PROVE  P = Nat
<1> SUFFICES ASSUME Nat \ P # {} PROVE FALSE
  OBVIOUS
<1>1. PICK x \in Nat \ P : \A y \in Nat \ P : ~ (<<y, x>> \in OpToRel(<, Nat))
  BY NatLessThanWellFounded, WFMin
<1>2. x \in Nat /\ x # 0 /\ x - 1 \in Nat /\ x - 1 < x
  OBVIOUS
<1>3. x - 1 \in P
  BY <1>1, <1>2 DEF OpToRel
<1>4. QED
  BY <1>2, <1>3

\* A set of naturals that is not empty has a least member.
LEMMA SmallestMember == ASSUME NEW S \in SUBSET Nat, S # {} PROVE \E e \in S : \A f \in S : e <= f
<1>1. PICK e \in S : \A f \in S : ~ (<<f, e>> \in OpToRel(<, Nat))
  BY NatLessThanWellFounded, WFMin
<1>2. ASSUME NEW f \in S PROVE e <= f
  <2>1. ~ (f < e)
    BY <1>1 DEF OpToRel
  <2>2. e \in Nat /\ f \in Nat
    OBVIOUS
  <2>3. QED
    BY <2>1, <2>2
<1>3. QED
  BY <1>2

\* The least member is the one that the expression for it chooses.
LEMMA LeastIsChosen ==
    ASSUME NEW S \in SUBSET Nat, NEW m \in S, \A j \in S : m <= j
    PROVE  (CHOOSE k \in S : \A j \in S : k <= j) = m
<1>1. (CHOOSE k \in S : \A j \in S : k <= j) \in S /\ \A j \in S : (CHOOSE k \in S : \A j1 \in S : k <= j1) <= j
  OBVIOUS
<1>2. PICK c \in S : c = (CHOOSE k \in S : \A j \in S : k <= j) /\ \A j \in S : c <= j
  BY <1>1
<1>3. c <= m /\ m <= c /\ c \in Nat /\ m \in Nat
  BY <1>2
<1>4. QED
  BY <1>2, <1>3

\* A set of subsets of S that has a subset once it has all it becomes by the
\* removal of one element.
LEMMA SubsetsByRemoval ==
    ASSUME NEW S, IsFiniteSet(S), NEW P \in SUBSET (SUBSET S),
           \A T \in SUBSET S : (\A x \in T : T \ {x} \in P) => T \in P
    PROVE  \A T \in SUBSET S : T \in P
<1> DEFINE N == {n \in Nat : \A T \in SUBSET S : Cardinality(T) = n => T \in P}
<1>1. 0 \in N
  <2> SUFFICES ASSUME NEW T \in SUBSET S, Cardinality(T) = 0 PROVE T \in P
    OBVIOUS
  <2>1. T = {}
    BY FS_EmptySet, FS_Subset
  <2>2. QED
    BY <2>1
<1>2. ASSUME NEW n \in N PROVE n + 1 \in N
  <2> SUFFICES ASSUME NEW T \in SUBSET S, Cardinality(T) = n + 1 PROVE T \in P
    OBVIOUS
  <2>1. IsFiniteSet(T) /\ n \in Nat
    BY FS_Subset
  <2>2. ASSUME NEW x \in T PROVE T \ {x} \in P
    <3>1. Cardinality(T \ {x}) = Cardinality(T) - 1
      BY <2>1, FS_RemoveElement
    <3>2. Cardinality(T \ {x}) = n
      BY <2>1, <3>1
    <3>3. QED
      BY <3>2
  <2>3. QED
    BY <2>2
<1>3. N = Nat
  <2> HIDE DEF N
  <2>1. N \in SUBSET Nat
    BY DEF N
  <2>2. QED
    BY <1>1, <1>2, <2>1, NaturalsByInduction
<1>4. ASSUME NEW T \in SUBSET S PROVE T \in P
  <2>1. Cardinality(T) \in Nat
    BY FS_Subset, FS_CardinalityType
  <2>2. QED
    BY <1>3, <2>1
<1>5. QED
  BY <1>4

-----------------------------------------------------------------------------
Chosen(s) == CHOOSE x \in s : TRUE

\* One turn of the fold: the sum over s, given the sums over its subsets.
FoldTurn(f, g, s) == IF s = {} THEN 0 ELSE f[Chosen(s)] + g[s \ {Chosen(s)}]

Iter(f, S) == CHOOSE g : g = [s \in SUBSET S |-> FoldTurn(f, g, s)]

\* The subsets of at most n elements.
Level(S, n) == {s \in SUBSET S : Cardinality(s) <= n}

\* The community modules' sum is the fold of these turns.
LEMMA SumIsIter == ASSUME NEW f, NEW S PROVE SumFunctionOnSet(f, S) = Iter(f, S)[S]
BY Zenon DEF SumFunctionOnSet, FoldFunctionOnSet, MapThenFoldSet, Iter, FoldTurn, Chosen

\* Taking the chosen element away leaves a smaller set.
LEMMA ChosenLeaves ==
    ASSUME NEW S, IsFiniteSet(S), NEW s \in SUBSET S, s # {}
    PROVE  /\ Chosen(s) \in s /\ s \ {Chosen(s)} \in SUBSET S
           /\ IsFiniteSet(s) /\ Cardinality(s) \in Nat
           /\ Cardinality(s \ {Chosen(s)}) = Cardinality(s) - 1
<1>1. Chosen(s) \in s
  BY DEF Chosen
<1>2. IsFiniteSet(s)
  BY FS_Subset
<1>3. QED
  BY <1>1, <1>2, FS_CardinalityType, FS_RemoveElement

\* The fold is defined on the subsets of n elements, for every n.
LEMMA PartialFolds ==
    ASSUME NEW f, NEW S, IsFiniteSet(S), NEW n \in Nat
    PROVE  \E g : g = [s \in Level(S, n) |-> FoldTurn(f, g, s)]
<1> DEFINE N == {k \in Nat : \E g : g = [s \in Level(S, k) |-> FoldTurn(f, g, s)]}
<1>1. 0 \in N
  <2>1. Level(S, 0) = {{}}
    BY FS_EmptySet, FS_Subset, FS_CardinalityType DEF Level
  <2>2. PICK g : g = [s \in Level(S, 0) |-> 0]
    OBVIOUS
  <2>3. g = [s \in Level(S, 0) |-> FoldTurn(f, g, s)]
    BY <2>1, <2>2 DEF FoldTurn
  <2>4. QED
    BY <2>3
<1>2. ASSUME NEW k \in N PROVE k + 1 \in N
  <2>1. PICK g : g = [s \in Level(S, k) |-> FoldTurn(f, g, s)]
    OBVIOUS
  <2>2. PICK h : h = [s \in Level(S, k + 1) |-> FoldTurn(f, g, s)]
    OBVIOUS
  <2>3. ASSUME NEW s \in Level(S, k) PROVE s \in Level(S, k + 1) /\ h[s] = g[s]
    <3>1. s \in Level(S, k + 1)
      BY FS_Subset, FS_CardinalityType DEF Level
    <3>2. QED
      BY <2>1, <2>2, <3>1
  <2>4. ASSUME NEW s \in Level(S, k + 1) PROVE FoldTurn(f, g, s) = FoldTurn(f, h, s)
    <3>1. CASE s = {}
      BY <3>1 DEF FoldTurn
    <3>2. CASE s # {}
      <4>1. s \ {Chosen(s)} \in Level(S, k)
        BY <3>2, ChosenLeaves DEF Level
      <4>2. QED
        BY <2>3, <3>2, <4>1 DEF FoldTurn
    <3>3. QED
      BY <3>1, <3>2
  <2>5. h = [s \in Level(S, k + 1) |-> FoldTurn(f, h, s)]
    BY <2>2, <2>4
  <2>6. QED
    BY <2>5
<1>3. N = Nat
  <2> HIDE DEF N
  <2>1. N \in SUBSET Nat
    BY DEF N
  <2>2. QED
    BY <1>1, <1>2, <2>1, NaturalsByInduction
<1>4. QED
  BY <1>3

\* The fold satisfies its recursive definition.
LEMMA IterTurns ==
    ASSUME NEW f, NEW S, IsFiniteSet(S), NEW s \in SUBSET S
    PROVE  Iter(f, S)[s] = FoldTurn(f, Iter(f, S), s)
<1>1. Cardinality(S) \in Nat /\ Level(S, Cardinality(S)) = SUBSET S
  BY FS_CardinalityType, FS_Subset DEF Level
<1>2. \E g : g = [t \in SUBSET S |-> FoldTurn(f, g, t)]
  <2>1. PICK n \in Nat : n = Cardinality(S)
    BY <1>1
  <2>2. PICK g : g = [t \in Level(S, n) |-> FoldTurn(f, g, t)]
    BY PartialFolds
  <2>3. Level(S, n) = SUBSET S
    BY <1>1, <2>1
  <2>4. QED
    BY <2>2, <2>3
<1>3. Iter(f, S) = [t \in SUBSET S |-> FoldTurn(f, Iter(f, S), t)]
  BY <1>2, Zenon DEF Iter
<1>4. QED
  BY <1>3

\* The sum over a subset does not depend on the set it is a subset of.
LEMMA FoldsAgree ==
    ASSUME NEW f, NEW S, IsFiniteSet(S), NEW R \in SUBSET S
    PROVE  \A s \in SUBSET R : Iter(f, R)[s] = Iter(f, S)[s]
<1> DEFINE P == {s \in SUBSET R : Iter(f, R)[s] = Iter(f, S)[s]}
<1>1. IsFiniteSet(R)
  BY FS_Subset
<1>2. ASSUME NEW T \in SUBSET R, \A x \in T : T \ {x} \in P PROVE T \in P
  <2>1. Iter(f, R)[T] = FoldTurn(f, Iter(f, R), T) /\ Iter(f, S)[T] = FoldTurn(f, Iter(f, S), T)
    BY <1>1, IterTurns
  <2>2. CASE T = {}
    BY <2>1, <2>2 DEF FoldTurn
  <2>3. CASE T # {}
    <3>1. T \ {Chosen(T)} \in P
      BY <1>1, <1>2, <2>3, ChosenLeaves
    <3>2. QED
      BY <2>1, <2>3, <3>1 DEF FoldTurn
  <2>4. QED
    BY <2>2, <2>3
<1>3. \A s \in SUBSET R : s \in P
  <2> HIDE DEF P
  <2>1. P \in SUBSET (SUBSET R)
    BY DEF P
  <2>2. QED
    BY <1>1, <1>2, <2>1, SubsetsByRemoval
<1>4. QED
  BY <1>3

\* The sum, by its recursive definition.
LEMMA SumTurns ==
    ASSUME NEW f, NEW S, IsFiniteSet(S)
    PROVE  /\ S = {} => SumFunctionOnSet(f, S) = 0
           /\ S # {} => SumFunctionOnSet(f, S) = f[Chosen(S)] + SumFunctionOnSet(f, S \ {Chosen(S)})
<1>1. SumFunctionOnSet(f, S) = FoldTurn(f, Iter(f, S), S)
  BY SumIsIter, IterTurns
<1>2. CASE S = {}
  BY <1>1, <1>2 DEF FoldTurn
<1>3. CASE S # {}
  <2>1. PICK R \in SUBSET S : R = S \ {Chosen(S)}
    OBVIOUS
  <2>2. SumFunctionOnSet(f, R) = Iter(f, S)[R]
    BY SumIsIter, FoldsAgree
  <2>3. QED
    BY <1>1, <1>3, <2>1, <2>2 DEF FoldTurn
<1>4. QED
  BY <1>2, <1>3

\* Sums of integers are integers.
LEMMA SumType ==
    ASSUME NEW S, IsFiniteSet(S), NEW f, \A x \in S : f[x] \in Int
    PROVE  \A T \in SUBSET S : SumFunctionOnSet(f, T) \in Int
<1> DEFINE P == {T \in SUBSET S : SumFunctionOnSet(f, T) \in Int}
<1>1. ASSUME NEW T \in SUBSET S, \A x \in T : T \ {x} \in P PROVE T \in P
  <2>1. CASE T = {}
    <3>1. SumFunctionOnSet(f, T) = 0
      BY <2>1, FS_EmptySet, SumTurns
    <3>2. QED
      BY <3>1
  <2>2. CASE T # {}
    <3>1. Chosen(T) \in T /\ IsFiniteSet(T)
      BY <2>2, ChosenLeaves
    <3>2. SumFunctionOnSet(f, T) = f[Chosen(T)] + SumFunctionOnSet(f, T \ {Chosen(T)})
      BY <2>2, <3>1, SumTurns
    <3>3. f[Chosen(T)] \in Int /\ SumFunctionOnSet(f, T \ {Chosen(T)}) \in Int
      BY <1>1, <3>1
    <3>4. QED
      BY <3>2, <3>3
  <2>3. QED
    BY <2>1, <2>2
<1>2. \A T \in SUBSET S : T \in P
  <2> HIDE DEF P
  <2>1. P \in SUBSET (SUBSET S)
    BY DEF P
  <2>2. QED
    BY <1>1, <2>1, SubsetsByRemoval
<1>3. QED
  BY <1>2

\* Any element may be taken out of a sum.
LEMMA SumRemove ==
    ASSUME NEW S, IsFiniteSet(S), NEW f, \A x \in S : f[x] \in Int
    PROVE  \A T \in SUBSET S : \A y \in T :
              SumFunctionOnSet(f, T) = f[y] + SumFunctionOnSet(f, T \ {y})
<1> DEFINE P == {T \in SUBSET S : \A y \in T :
                   SumFunctionOnSet(f, T) = f[y] + SumFunctionOnSet(f, T \ {y})}
<1>1. ASSUME NEW T \in SUBSET S, \A x \in T : T \ {x} \in P PROVE T \in P
  <2> SUFFICES ASSUME NEW y \in T
               PROVE  SumFunctionOnSet(f, T) = f[y] + SumFunctionOnSet(f, T \ {y})
    OBVIOUS
  <2>1. PICK c \in T : c = Chosen(T)
    BY ChosenLeaves
  <2>2. SumFunctionOnSet(f, T) = f[c] + SumFunctionOnSet(f, T \ {c})
    BY <2>1, FS_Subset, SumTurns
  <2>3. CASE c = y
    BY <2>2, <2>3
  <2>4. CASE c # y
    <3>1. SumFunctionOnSet(f, T \ {c}) = f[y] + SumFunctionOnSet(f, (T \ {c}) \ {y})
      BY <1>1, <2>4
    <3>2. SumFunctionOnSet(f, T \ {y}) = f[c] + SumFunctionOnSet(f, (T \ {y}) \ {c})
      BY <1>1, <2>4
    <3>3. PICK R \in SUBSET S : R = (T \ {c}) \ {y} /\ R = (T \ {y}) \ {c}
      OBVIOUS
    <3>4. f[c] \in Int /\ f[y] \in Int /\ SumFunctionOnSet(f, R) \in Int
      BY <3>3, SumType
    <3>5. /\ SumFunctionOnSet(f, T \ {c}) = f[y] + SumFunctionOnSet(f, R)
          /\ SumFunctionOnSet(f, T \ {y}) = f[c] + SumFunctionOnSet(f, R)
      BY <3>1, <3>2, <3>3
    <3>6. QED
      BY <2>2, <3>4, <3>5
  <2>5. QED
    BY <2>3, <2>4
<1>2. \A T \in SUBSET S : T \in P
  <2> HIDE DEF P
  <2>1. P \in SUBSET (SUBSET S)
    BY DEF P
  <2>2. QED
    BY <1>1, <2>1, SubsetsByRemoval
<1>3. QED
  BY <1>2

\* A sum of larger terms is larger; sums of equal terms are equal.
LEMMA SumMonotone ==
    ASSUME NEW S, IsFiniteSet(S), NEW f, NEW g,
           \A x \in S : f[x] \in Int /\ g[x] \in Int /\ f[x] <= g[x]
    PROVE  SumFunctionOnSet(f, S) <= SumFunctionOnSet(g, S)
<1> DEFINE P == {T \in SUBSET S : SumFunctionOnSet(f, T) <= SumFunctionOnSet(g, T)}
<1>1. ASSUME NEW T \in SUBSET S, \A x \in T : T \ {x} \in P PROVE T \in P
  <2>1. IsFiniteSet(T)
    BY FS_Subset
  <2>2. CASE T = {}
    <3>1. SumFunctionOnSet(f, T) = 0 /\ SumFunctionOnSet(g, T) = 0
      BY <2>1, <2>2, SumTurns
    <3>2. QED
      BY <3>1
  <2>3. CASE T # {}
    <3>1. PICK c \in T : c = Chosen(T)
      BY <2>3, ChosenLeaves
    <3>2. PICK R \in SUBSET S : R = T \ {c} /\ R \in P
      BY <1>1
    <3>3. /\ SumFunctionOnSet(f, T) = f[c] + SumFunctionOnSet(f, R)
          /\ SumFunctionOnSet(g, T) = g[c] + SumFunctionOnSet(g, R)
      BY <2>1, <2>3, <3>1, <3>2, SumTurns
    <3>4. /\ SumFunctionOnSet(f, R) \in Int /\ SumFunctionOnSet(g, R) \in Int
          /\ f[c] \in Int /\ g[c] \in Int /\ f[c] <= g[c]
      BY <3>2, SumType
    <3>5. QED
      BY <3>2, <3>3, <3>4
  <2>4. QED
    BY <2>2, <2>3
<1>2. \A T \in SUBSET S : T \in P
  <2> HIDE DEF P
  <2>1. P \in SUBSET (SUBSET S)
    BY DEF P
  <2>2. QED
    BY <1>1, <2>1, SubsetsByRemoval
<1>3. QED
  BY <1>2

\* A sum of naturals is a natural, and of zeros zero.
LEMMA SumNatural ==
    ASSUME NEW S, IsFiniteSet(S), NEW f \in [S -> Nat]
    PROVE  /\ SumFunction(f) \in Nat
           /\ (\A x \in S : f[x] = 0) => SumFunction(f) = 0
<1> DEFINE P == {T \in SUBSET S : /\ SumFunctionOnSet(f, T) \in Nat
                                  /\ (\A x \in S : f[x] = 0) => SumFunctionOnSet(f, T) = 0}
<1>1. ASSUME NEW T \in SUBSET S, \A x \in T : T \ {x} \in P PROVE T \in P
  <2>1. IsFiniteSet(T)
    BY FS_Subset
  <2>2. CASE T = {}
    <3>1. SumFunctionOnSet(f, T) = 0
      BY <2>1, <2>2, SumTurns
    <3>2. QED
      BY <3>1
  <2>3. CASE T # {}
    <3>1. PICK c \in T : c = Chosen(T)
      BY <2>3, ChosenLeaves
    <3>2. PICK R \in SUBSET S : R = T \ {c} /\ R \in P
      BY <1>1
    <3>3. SumFunctionOnSet(f, T) = f[c] + SumFunctionOnSet(f, R)
      BY <2>1, <2>3, <3>1, <3>2, SumTurns
    <3>4. f[c] \in Nat /\ SumFunctionOnSet(f, R) \in Nat
      BY <3>2
    <3>5. QED
      BY <3>2, <3>3, <3>4
  <2>4. QED
    BY <2>2, <2>3
<1>2. \A T \in SUBSET S : T \in P
  <2> HIDE DEF P
  <2>1. P \in SUBSET (SUBSET S)
    BY DEF P
  <2>2. QED
    BY <1>1, <2>1, SubsetsByRemoval
<1>3. SumFunction(f) = SumFunctionOnSet(f, S)
  BY DEF SumFunction
<1>4. QED
  BY <1>2, <1>3

\* What the books rest on: one entry changes, and the sum by as much.
THEOREM SumUpdate ==
    ASSUME NEW S, IsFiniteSet(S), NEW f \in [S -> Int], NEW g \in [S -> Int], NEW y \in S,
           \A x \in S \ {y} : g[x] = f[x]
    PROVE  /\ SumFunction(f) \in Int
           /\ SumFunction(g) = SumFunction(f) - f[y] + g[y]
<1>1. PICK R \in SUBSET S : R = S \ {y} /\ IsFiniteSet(R)
  <2>1. S \ {y} \in SUBSET S /\ IsFiniteSet(S \ {y})
    BY FS_RemoveElement
  <2>2. QED
    BY <2>1
<1>2. SumFunctionOnSet(f, S) = f[y] + SumFunctionOnSet(f, R)
  BY <1>1, SumRemove
<1>3. SumFunctionOnSet(g, S) = g[y] + SumFunctionOnSet(g, R)
  BY <1>1, SumRemove
<1>4. SumFunctionOnSet(f, R) \in Int /\ SumFunctionOnSet(g, R) \in Int
  BY SumType
<1>5. SumFunctionOnSet(f, R) <= SumFunctionOnSet(g, R)
  BY <1>1, SumMonotone
<1>6. SumFunctionOnSet(g, R) <= SumFunctionOnSet(f, R)
  BY <1>1, SumMonotone
<1>7. f[y] \in Int /\ g[y] \in Int
  OBVIOUS
<1>8. SumFunctionOnSet(g, S) = SumFunctionOnSet(f, S) - f[y] + g[y]
  BY <1>2, <1>3, <1>4, <1>5, <1>6, <1>7
<1>9. SumFunction(f) = SumFunctionOnSet(f, S) /\ SumFunction(g) = SumFunctionOnSet(g, S)
  BY DEF SumFunction
<1>10. QED
  BY <1>2, <1>4, <1>7, <1>8, <1>9

\* The smaller of two amounts.
LEMMA MinOfTwo ==
    ASSUME NEW a \in Nat, NEW b \in Nat
    PROVE  Min({a, b}) \in Nat /\ Min({a, b}) <= a /\ Min({a, b}) <= b
<1>1. \E x \in {a, b} : \A y \in {a, b} : x =< y
  <2>1. CASE a <= b
    BY <2>1
  <2>2. CASE b < a
    BY <2>2
  <2>3. QED
    BY <2>1, <2>2
<1>2. Min({a, b}) \in {a, b} /\ \A y \in {a, b} : Min({a, b}) =< y
  BY <1>1 DEF Min
<1>3. QED
  BY <1>2

\* The same amount for each element of T, and nothing for the others.
LEMMA SumEach ==
    ASSUME NEW S, IsFiniteSet(S), NEW T \in SUBSET S, NEW c \in Nat, NEW f \in [S -> Nat],
           \A x \in S : f[x] = IF x \in T THEN c ELSE 0
    PROVE  SumFunction(f) = c * Cardinality(T)
<1> DEFINE P == {R \in SUBSET S : SumFunctionOnSet(f, R) = c * Cardinality(R \cap T)}
<1>1. ASSUME NEW R \in SUBSET S, \A x \in R : R \ {x} \in P PROVE R \in P
  <2>1. IsFiniteSet(R) /\ IsFiniteSet(R \cap T)
    BY FS_Subset
  <2>2. PICK k \in Nat : k = Cardinality(R \cap T)
    BY <2>1, FS_CardinalityType
  <2>3. CASE R = {}
    <3>1. SumFunctionOnSet(f, R) = 0 /\ R \cap T = {}
      BY <2>1, <2>3, SumTurns
    <3>2. k = 0
      BY <2>2, <3>1, FS_EmptySet
    <3>3. QED
      BY <2>2, <3>1, <3>2
  <2>4. CASE R # {}
    <3>1. PICK y \in R : y = Chosen(R)
      BY <2>4, ChosenLeaves
    <3>2. PICK Q \in SUBSET S : Q = R \ {y} /\ Q \in P
      BY <1>1
    <3>3. SumFunctionOnSet(f, R) = f[y] + SumFunctionOnSet(f, Q)
      BY <2>1, <2>4, <3>1, <3>2, SumTurns
    <3>4. SumFunctionOnSet(f, Q) = c * Cardinality(Q \cap T)
      BY <3>2
    <3>5. CASE y \in T
      <4>1. PICK A, B : A = R \cap T /\ B = Q \cap T
        OBVIOUS
      <4>2. B = A \ {y} /\ y \in A /\ IsFiniteSet(A)
        BY <2>1, <3>2, <3>5, <4>1
      <4>3. Cardinality(B) = Cardinality(A) - 1
        BY ONLY <4>2, FS_RemoveElement
      <4>4. Cardinality(Q \cap T) = k - 1 /\ f[y] = c
        BY <2>2, <3>5, <4>1, <4>3
      <4>5. c + c * (k - 1) = c * k
        OBVIOUS
      <4>6. SumFunctionOnSet(f, R) = c * Cardinality(R \cap T)
        BY <2>2, <3>3, <3>4, <4>4, <4>5
      <4>7. QED
        BY <4>6
    <3>6. CASE y \notin T
      <4>1. Q \cap T = R \cap T
        BY <3>2, <3>6
      <4>2. PICK m \in Nat : m = c * k
        OBVIOUS
      <4>3. f[y] = 0 /\ SumFunctionOnSet(f, Q) = m
        BY <2>2, <3>4, <3>6, <4>1, <4>2
      <4>4. SumFunctionOnSet(f, R) = m
        BY <3>3, <4>3
      <4>5. QED
        BY <2>2, <4>2, <4>4
    <3>7. QED
      BY <3>5, <3>6
  <2>5. QED
    BY <2>3, <2>4
<1>2. \A R \in SUBSET S : R \in P
  <2> HIDE DEF P
  <2>1. P \in SUBSET (SUBSET S)
    BY DEF P
  <2>2. QED
    BY <1>1, <2>1, SubsetsByRemoval
<1>3. SumFunction(f) = SumFunctionOnSet(f, S) /\ S \cap T = T
  BY DEF SumFunction
<1>4. QED
  BY <1>2, <1>3

\* Terms in a proportion of at most t to s add up to sums in that proportion.
LEMMA SumProportion ==
    ASSUME NEW S, IsFiniteSet(S), NEW f \in [S -> Nat], NEW g \in [S -> Nat],
           NEW s \in Nat, NEW t \in Nat, \A x \in S : s * g[x] <= t * f[x]
    PROVE  s * SumFunction(g) <= t * SumFunction(f)
<1> DEFINE P == {T \in SUBSET S : s * SumFunctionOnSet(g, T) <= t * SumFunctionOnSet(f, T)}
<1>1. ASSUME NEW T \in SUBSET S, \A x \in T : T \ {x} \in P PROVE T \in P
  <2>1. IsFiniteSet(T)
    BY FS_Subset
  <2>2. CASE T = {}
    <3>1. SumFunctionOnSet(f, T) = 0 /\ SumFunctionOnSet(g, T) = 0
      BY <2>1, <2>2, SumTurns
    <3>2. QED
      BY <3>1
  <2>3. CASE T # {}
    <3>1. PICK c \in T : c = Chosen(T)
      BY <2>3, ChosenLeaves
    <3>2. PICK R \in SUBSET S : R = T \ {c} /\ R \in P
      BY <1>1
    <3>3. /\ SumFunctionOnSet(f, T) = f[c] + SumFunctionOnSet(f, R)
          /\ SumFunctionOnSet(g, T) = g[c] + SumFunctionOnSet(g, R)
      BY <2>1, <2>3, <3>1, <3>2, SumTurns
    <3>4. PICK a \in Int, b \in Int : a = SumFunctionOnSet(f, R) /\ b = SumFunctionOnSet(g, R)
      BY SumType
    <3>5. PICK x \in Nat, y \in Nat : x = f[c] /\ y = g[c]
      OBVIOUS
    <3>6. s * b <= t * a /\ s * y <= t * x
      BY <3>2, <3>4, <3>5
    <3>7. s * (y + b) <= t * (x + a)
      <4>1. s * (y + b) = s * y + s * b /\ t * (x + a) = t * x + t * a
        OBVIOUS
      <4>2. PICK i \in Int, j \in Int, k \in Int, l \in Int : i = s * y /\ j = s * b /\ k = t * x /\ l = t * a
        OBVIOUS
      <4>3. QED
        BY <3>6, <4>1, <4>2
    <3>8. QED
      BY <3>3, <3>4, <3>5, <3>7
  <2>4. QED
    BY <2>2, <2>3
<1>2. \A T \in SUBSET S : T \in P
  <2> HIDE DEF P
  <2>1. P \in SUBSET (SUBSET S)
    BY DEF P
  <2>2. QED
    BY <1>1, <2>1, SubsetsByRemoval
<1>3. SumFunction(f) = SumFunctionOnSet(f, S) /\ SumFunction(g) = SumFunctionOnSet(g, S)
  BY DEF SumFunction
<1>4. QED
  BY <1>2, <1>3

\* No term of a sum of naturals exceeds the sum.
LEMMA SumBounds ==
    ASSUME NEW S, IsFiniteSet(S), NEW f \in [S -> Nat], NEW y \in S
    PROVE  f[y] <= SumFunction(f)
<1>1. PICK g \in [S -> Nat] : \A x \in S : g[x] = IF x = y THEN 0 ELSE f[x]
  <2>1. [x \in S |-> IF x = y THEN 0 ELSE f[x]] \in [S -> Nat]
    OBVIOUS
  <2>2. QED
    BY <2>1
<1>2. f \in [S -> Int] /\ g \in [S -> Int] /\ \A x \in S \ {y} : g[x] = f[x]
  BY <1>1
<1>3. SumFunction(g) = SumFunction(f) - f[y] + g[y] /\ SumFunction(f) \in Int
  BY <1>2, SumUpdate
<1>4. SumFunction(g) \in Nat
  BY SumNatural
<1>5. QED
  BY <1>1, <1>3, <1>4

\* A sum is at most another one over a set that contains its own, when every
\* term is at most the other's and the other's are naturals.
LEMMA SumWithin ==
    ASSUME NEW S, IsFiniteSet(S), NEW T \in SUBSET S, NEW f, NEW g,
           \A x \in S : g[x] \in Nat, \A x \in T : f[x] \in Int /\ f[x] <= g[x]
    PROVE  SumFunctionOnSet(f, T) <= SumFunctionOnSet(g, S)
<1> DEFINE P == {U \in SUBSET S : SumFunctionOnSet(f, U \cap T) <= SumFunctionOnSet(g, U)}
<1>1. IsFiniteSet(T) /\ \A U \in SUBSET S : IsFiniteSet(U) /\ IsFiniteSet(U \cap T)
  <2>1. \A U \in SUBSET S : U \cap T \in SUBSET S
    OBVIOUS
  <2>2. QED
    BY <2>1, FS_Subset
<1>2. ASSUME NEW U \in SUBSET S, \A x \in U : U \ {x} \in P PROVE U \in P
  <2>1. CASE U = {}
    <3>1. PICK V : V = U \cap T
      OBVIOUS
    <3>2. V = {} /\ IsFiniteSet(V) /\ IsFiniteSet(U)
      BY <1>1, <2>1, <3>1
    <3>3. SumFunctionOnSet(f, V) = 0 /\ SumFunctionOnSet(g, U) = 0
      BY <2>1, <3>2, SumTurns
    <3>4. QED
      BY <3>1, <3>3
  <2>2. CASE U # {}
    <3>1. PICK x \in U : TRUE
      BY <2>2
    <3>2. PICK W \in SUBSET S : W = U \ {x}
      OBVIOUS
    <3>3. PICK V \in SUBSET T : V = U \cap T
      OBVIOUS
    <3>4. PICK X \in SUBSET T : X = W \cap T
      OBVIOUS
    <3>5. SumFunctionOnSet(f, X) <= SumFunctionOnSet(g, W)
      BY <1>2, <3>1, <3>2, <3>4
    <3>6. SumFunctionOnSet(g, U) = g[x] + SumFunctionOnSet(g, W)
      BY <3>1, <3>2, SumRemove
    <3>7. /\ SumFunctionOnSet(g, W) \in Int /\ SumFunctionOnSet(f, X) \in Int
          /\ SumFunctionOnSet(f, V) \in Int /\ g[x] \in Nat
      <4>1. \A y \in S : g[y] \in Int
        OBVIOUS
      <4>2. SumFunctionOnSet(g, W) \in Int
        BY <4>1, SumType
      <4>3. SumFunctionOnSet(f, X) \in Int /\ SumFunctionOnSet(f, V) \in Int
        BY <1>1, SumType
      <4>4. QED
        BY <3>1, <4>2, <4>3
    <3>8. CASE x \in T
      <4>1. x \in V /\ X = V \ {x}
        BY <3>1, <3>2, <3>3, <3>4, <3>8
      <4>2. SumFunctionOnSet(f, V) = f[x] + SumFunctionOnSet(f, X)
        BY <1>1, <4>1, SumRemove
      <4>3. f[x] \in Int /\ f[x] <= g[x]
        BY <3>8
      <4>4. SumFunctionOnSet(f, V) <= SumFunctionOnSet(g, U)
        BY <3>5, <3>6, <3>7, <4>2, <4>3
      <4>5. QED
        BY <3>3, <4>4
    <3>9. CASE x \notin T
      <4>1. X = V
        BY <3>2, <3>3, <3>4, <3>9
      <4>2. SumFunctionOnSet(f, V) <= SumFunctionOnSet(g, U)
        BY <3>5, <3>6, <3>7, <4>1
      <4>3. QED
        BY <3>3, <4>2
    <3>10. QED
      BY <3>8, <3>9
  <2>3. QED
    BY <2>1, <2>2
<1>3. P \in SUBSET (SUBSET S)
  OBVIOUS
<1>4. \A U \in SUBSET S : U \in P
  <2> HIDE DEF P
  <2> QED
    BY <1>2, <1>3, SubsetsByRemoval
<1>5. S \cap T = T /\ S \in P
  BY <1>4
<1>6. QED
  BY <1>5

=============================================================================
