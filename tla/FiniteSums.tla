----------------------------- MODULE FiniteSums -----------------------------
(***************************************************************************)
(* Facts about the folds and sums the models are written with (FoldLeft,   *)
(* SumFunction), proved from the recursive definitions of Folds and        *)
(* Functions.  Induction is stated about sets of numbers and sets of sets, *)
(* not about predicates: a first-order form of it is all the provers need. *)
(***************************************************************************)
EXTENDS Functions, FiniteSetTheorems, TLAPS

-----------------------------------------------------------------------------
(* Induction                                                               *)

\* A set that holds 0 and with every number the next one holds them all.
LEMMA NumberInduction ==
    ASSUME NEW P, 0 \in P, \A n \in Nat : n \in P => n + 1 \in P
    PROVE  Nat \subseteq P
<1> DEFINE T == {n \in Nat : n \notin P}
           R == OpToRel(<, Nat)
<1>1. ASSUME T # {} PROVE FALSE
  <2>1. IsWellFoundedOn(R, Nat)
    BY NatLessThanWellFounded
  <2>2. T \subseteq Nat
    OBVIOUS
  <2> HIDE DEF T, R
  <2>3. PICK x \in T : \A y \in T : <<y, x>> \notin R
    BY <1>1, <2>1, <2>2, WFMin
  <2> USE DEF T
  <2>4. x \in Nat /\ x # 0
    OBVIOUS
  <2>5. <<x - 1, x>> \in R
    BY <2>4 DEF OpToRel, R
  <2>6. x - 1 \in P
    BY <2>3, <2>4, <2>5
  <2> QED
    BY <2>4, <2>6
<1> QED
  BY <1>1

\* A set of subsets of a finite set that holds a subset whenever it holds all
\* those smaller than it holds every subset.
LEMMA SubsetInduction ==
    ASSUME NEW S, IsFiniteSet(S), NEW P,
           \A s \in SUBSET S : (\A t \in SUBSET s : t # s => t \in P) => s \in P
    PROVE  \A s \in SUBSET S : s \in P
<1> DEFINE N == {n \in Nat : \A s \in SUBSET S : Cardinality(s) < n => s \in P}
<1>1. \A s \in SUBSET S : IsFiniteSet(s) /\ Cardinality(s) \in Nat
  BY FS_Subset, FS_CardinalityType
<1>2. 0 \in N
  BY <1>1
<1>3. ASSUME NEW n \in Nat, n \in N PROVE n + 1 \in N
  <2> SUFFICES ASSUME NEW s \in SUBSET S, Cardinality(s) < n + 1 PROVE s \in P
    OBVIOUS
  <2>1. ASSUME NEW t \in SUBSET s, t # s PROVE t \in P
    <3>1. Cardinality(t) <= Cardinality(s) /\ Cardinality(t) # Cardinality(s)
      BY <1>1, <2>1, FS_Subset
    <3>2. t \in SUBSET S
      OBVIOUS
    <3> QED
      BY <1>1, <1>3, <3>1, <3>2
  <2> QED
    BY <2>1
<1> HIDE DEF N
<1>4. Nat \subseteq N
  BY <1>2, <1>3, NumberInduction
<1>5. \A s \in SUBSET S : Cardinality(s) + 1 \in N
  BY <1>1, <1>4
<1> QED
  BY <1>1, <1>5 DEF N

\* A finite set of numbers has a largest one.
LEMMA LargestExists ==
    ASSUME NEW S \in SUBSET Nat, IsFiniteSet(S), NEW t \in SUBSET S, t # {}
    PROVE  \E m \in t : \A y \in t : m >= y
<1> DEFINE P == {s \in SUBSET S : s # {} => \E m \in s : \A y \in s : m >= y}
<1>1. ASSUME NEW s \in SUBSET S, \A r \in SUBSET s : r # s => r \in P
      PROVE  s \in P
  <2>1. CASE s = {}
    BY <2>1
  <2>2. CASE s # {}
    <3>1. PICK x \in s : TRUE
      BY <2>2
    <3>2. s \ {x} \in P
      <4> HIDE DEF P
      <4>1. s \ {x} \in SUBSET s /\ s \ {x} # s
        BY <3>1
      <4> QED
        BY <1>1, <4>1
    <3>3. CASE s \ {x} = {}
      BY <3>1, <3>3
    <3>4. CASE s \ {x} # {}
      <4>1. PICK m \in s \ {x} : \A y \in s \ {x} : m >= y
        BY <3>2, <3>4
      <4>2. CASE m >= x
        BY <4>1, <4>2
      <4>3. CASE ~(m >= x)
        BY <4>1, <4>3
      <4> QED
        BY <4>2, <4>3
    <3> QED
      BY <3>3, <3>4
  <2> QED
    BY <2>1, <2>2
<1> HIDE DEF P
<1>2. t \in P
  <2>1. \A s \in SUBSET S : (\A r \in SUBSET s : r # s => r \in P) => s \in P
    BY <1>1
  <2>2. \A s \in SUBSET S : s \in P
    BY <2>1, SubsetInduction
  <2> QED
    BY <2>2
<1> QED
  BY <1>2 DEF P

-----------------------------------------------------------------------------
(* Folds                                                                   *)

\* One equation for the folds: an element `pick` takes out of the set, and what
\* it does to the fold of the others.
SolvesFold(g, S, base, step, pick) ==
    g = [s \in SUBSET S |->
            IF s = {} THEN base ELSE step[pick[s]][g[s \ {pick[s]}]]]

Picks(pick, S) == \A s \in SUBSET S : s # {} => pick[s] \in s

\* Over a finite set the equation has a solution.
LEMMA FoldExists ==
    ASSUME NEW S, IsFiniteSet(S), NEW V, NEW base \in V, NEW step \in [S -> [V -> V]],
           NEW pick, Picks(pick, S)
    PROVE  \E g \in [SUBSET S -> V] : SolvesFold(g, S, base, step, pick)
<1> DEFINE Value(g, s) == IF s = {} THEN base ELSE step[pick[s]][g[s \ {pick[s]}]]
           N == {n \in Nat : \E g \in [SUBSET S -> V] :
                    \A s \in SUBSET S : Cardinality(s) <= n => g[s] = Value(g, s)}
<1>1. \A s \in SUBSET S : IsFiniteSet(s) /\ Cardinality(s) \in Nat
                          /\ Cardinality(s) <= Cardinality(S)
  BY FS_Subset, FS_CardinalityType
<1>2. ASSUME NEW s \in SUBSET S, s # {}
      PROVE  /\ pick[s] \in S /\ s \ {pick[s]} \in SUBSET S
             /\ Cardinality(s \ {pick[s]}) = Cardinality(s) - 1
  BY <1>1, <1>2, FS_RemoveElement DEF Picks
<1>3. ASSUME NEW g \in [SUBSET S -> V], NEW s \in SUBSET S
      PROVE  Value(g, s) \in V
  <2>1. CASE s = {}
    BY <2>1
  <2>2. CASE s # {}
    <3>1. g[s \ {pick[s]}] \in V /\ pick[s] \in S
      BY <1>2, <2>2
    <3> QED
      BY <2>2, <3>1
  <2> QED
    BY <2>1, <2>2
<1>4. 0 \in N
  <2> DEFINE g == [s \in SUBSET S |-> base]
  <2>1. g \in [SUBSET S -> V]
    OBVIOUS
  <2>2. \A s \in SUBSET S : Cardinality(s) <= 0 => s = {}
    BY <1>1, FS_EmptySet
  <2>3. \A s \in SUBSET S : Cardinality(s) <= 0 => g[s] = Value(g, s)
    BY <2>2
  <2> QED
    BY <2>1, <2>3
<1>5. ASSUME NEW n \in Nat, n \in N PROVE n + 1 \in N
  <2>1. PICK g \in [SUBSET S -> V] :
            \A s \in SUBSET S : Cardinality(s) <= n => g[s] = Value(g, s)
    BY <1>5
  <2> DEFINE h == [s \in SUBSET S |-> Value(g, s)]
  <2>2. h \in [SUBSET S -> V]
    BY <1>3
  <2>3. ASSUME NEW s \in SUBSET S, Cardinality(s) <= n + 1
        PROVE  h[s] = Value(h, s)
    <3>1. CASE s = {}
      BY <3>1
    <3>2. CASE s # {}
      <4> DEFINE t == s \ {pick[s]}
      <4>1. t \in SUBSET S /\ Cardinality(t) <= n
        BY <1>1, <1>2, <2>3, <3>2
      <4>2. g[t] = Value(g, t)
        BY <2>1, <4>1
      <4>3. h[t] = Value(g, t)
        BY <4>1
      <4>4. h[s] = step[pick[s]][g[t]]
        BY <3>2
      <4> QED
        BY <3>2, <4>2, <4>3, <4>4
    <3> QED
      BY <3>1, <3>2
  <2> HIDE DEF h, Value
  <2> QED
    BY <2>2, <2>3
<1> HIDE DEF N
<1>6. Cardinality(S) \in N
  BY <1>4, <1>5, FS_CardinalityType, NumberInduction
<1>7. PICK g \in [SUBSET S -> V] : \A s \in SUBSET S : g[s] = Value(g, s)
  BY <1>1, <1>6 DEF N
<1>8. g = [s \in SUBSET S |-> Value(g, s)]
  BY <1>7
<1> QED
  BY <1>8 DEF SolvesFold

-----------------------------------------------------------------------------
(* Sums                                                                    *)

IntOn(f, S) == \A x \in S : f[x] \in Int

Some(s) == CHOOSE x \in s : TRUE

SolvesSum(g, f, S) ==
    g = [s \in SUBSET S |-> IF s = {} THEN 0 ELSE f[Some(s)] + g[s \ {Some(s)}]]

LEMMA SumSolves ==
    ASSUME NEW S, IsFiniteSet(S), NEW f, IntOn(f, S)
    PROVE  \E g \in [SUBSET S -> Int] :
              SolvesSum(g, f, S) /\ SumFunctionOnSet(f, S) = g[S]
<1> DEFINE step == [x \in S |-> [v \in Int |-> f[x] + v]]
           pick == [s \in SUBSET S |-> Some(s)]
           G == CHOOSE g : SolvesSum(g, f, S)
<1>1. step \in [S -> [Int -> Int]]
  BY DEF IntOn
<1>2. \A s \in SUBSET S : s # {} => pick[s] = Some(s) /\ Some(s) \in s
  BY DEF Some
<1>3. PICK g \in [SUBSET S -> Int] : SolvesFold(g, S, 0, step, pick)
  <2> DEFINE V == Int
             base == 0
  <2>1. base \in V /\ step \in [S -> [V -> V]]
    BY <1>1
  <2>2. Picks(pick, S)
    BY <1>2 DEF Picks
  <2> HIDE DEF step, pick, base, V
  <2>3. \E g \in [SUBSET S -> V] : SolvesFold(g, S, base, step, pick)
    BY <2>1, <2>2, FoldExists
  <2> QED
    BY <2>3 DEF base, V
<1>4. \A s \in SUBSET S :
          g[s] = IF s = {} THEN 0 ELSE f[Some(s)] + g[s \ {Some(s)}]
  <2> SUFFICES ASSUME NEW s \in SUBSET S
               PROVE  g[s] = IF s = {} THEN 0 ELSE f[Some(s)] + g[s \ {Some(s)}]
    OBVIOUS
  <2>1. g[s] = IF s = {} THEN 0 ELSE step[pick[s]][g[s \ {pick[s]}]]
    BY <1>3 DEF SolvesFold
  <2>2. CASE s # {}
    <3>1. g[s] = step[Some(s)][g[s \ {Some(s)}]]
      BY <1>2, <2>1, <2>2
    <3>2. Some(s) \in S /\ g[s \ {Some(s)}] \in Int
      BY <1>2, <2>2
    <3> QED
      BY <2>2, <3>1, <3>2
  <2> QED
    BY <2>1, <2>2
<1>5. SolvesSum(g, f, S)
  BY <1>4 DEF SolvesSum
<1>6. SolvesSum(G, f, S)
  BY <1>5
<1>7. G \in [SUBSET S -> Int]
  <2>1. \A s \in SUBSET S :
          G[s] = IF s = {} THEN 0 ELSE f[Some(s)] + G[s \ {Some(s)}]
    BY <1>6 DEF SolvesSum
  <2> HIDE DEF G
  <2> DEFINE P == {s \in SUBSET S : G[s] \in Int}
  <2>2. ASSUME NEW s \in SUBSET S, \A t \in SUBSET s : t # s => t \in P
        PROVE  s \in P
    <3>1. CASE s = {}
      <4>1. G[s] = 0
        BY <2>1, <3>1
      <4> QED
        BY <4>1
    <3>2. CASE s # {}
      <4>1. Some(s) \in s /\ Some(s) \in S
        BY <1>2, <3>2
      <4>2. s \ {Some(s)} \in P
        BY <2>2, <4>1
      <4> QED
        BY <2>1, <3>2, <4>1, <4>2 DEF IntOn
    <3> QED
      BY <3>1, <3>2
  <2> HIDE DEF P
  <2>3. \A s \in SUBSET S : s \in P
    BY <2>2, SubsetInduction
  <2>4. \A s \in SUBSET S : G[s] \in Int
    BY <2>3 DEF P
  <2> QED
    BY <1>6, <2>4 DEF SolvesSum
<1>8. SumFunctionOnSet(f, S) = G[S]
  BY DEF SumFunctionOnSet, FoldFunctionOnSet, MapThenFoldSet, SolvesSum, Some
<1> QED
  BY <1>6, <1>7, <1>8

\* The recursion the definition stands for: nothing sums to 0, and the chosen
\* element may be split off.
LEMMA SumChosen ==
    ASSUME NEW S, IsFiniteSet(S), NEW f, IntOn(f, S)
    PROVE  /\ SumFunctionOnSet(f, S) \in Int
           /\ S = {} => SumFunctionOnSet(f, S) = 0
           /\ S # {} => /\ Some(S) \in S
                        /\ SumFunctionOnSet(f, S)
                             = f[Some(S)] + SumFunctionOnSet(f, S \ {Some(S)})
<1>1. PICK g \in [SUBSET S -> Int] :
          SolvesSum(g, f, S) /\ SumFunctionOnSet(f, S) = g[S]
  BY SumSolves
<1>2. \A s \in SUBSET S :
          g[s] = IF s = {} THEN 0 ELSE f[Some(s)] + g[s \ {Some(s)}]
  BY <1>1 DEF SolvesSum
<1>3. ASSUME S # {}
      PROVE  /\ Some(S) \in S
             /\ SumFunctionOnSet(f, S)
                  = f[Some(S)] + SumFunctionOnSet(f, S \ {Some(S)})
  <2> DEFINE T == S \ {Some(S)}
  <2>1. Some(S) \in S
    BY <1>3 DEF Some
  <2>2. IsFiniteSet(T) /\ IntOn(f, T)
    BY FS_RemoveElement DEF IntOn
  <2>3. PICK k \in [SUBSET T -> Int] :
            SolvesSum(k, f, T) /\ SumFunctionOnSet(f, T) = k[T]
    BY <2>2, SumSolves
  <2>4. \A s \in SUBSET T :
            k[s] = IF s = {} THEN 0 ELSE f[Some(s)] + k[s \ {Some(s)}]
    BY <2>3 DEF SolvesSum
  <2> HIDE DEF T
  <2> DEFINE P == {s \in SUBSET T : g[s] = k[s]}
  <2>5. ASSUME NEW s \in SUBSET T, \A t \in SUBSET s : t # s => t \in P
        PROVE  s \in P
    <3>1. s \in SUBSET S
      BY DEF T
    <3>2. CASE s = {}
      BY <1>2, <2>4, <3>1, <3>2
    <3>3. CASE s # {}
      <4>1. Some(s) \in s
        BY <3>3 DEF Some
      <4>2. s \ {Some(s)} \in P
        BY <2>5, <4>1
      <4> QED
        BY <1>2, <2>4, <3>1, <3>3, <4>2
    <3> QED
      BY <3>2, <3>3
  <2> HIDE DEF P
  <2>6. \A s \in SUBSET T : s \in P
    BY <2>2, <2>5, SubsetInduction
  <2>7. g[T] = k[T]
    BY <2>6 DEF P
  <2>8. g[S] = f[Some(S)] + g[T]
    BY <1>2, <1>3 DEF T
  <2> QED
    BY <1>1, <2>1, <2>3, <2>7, <2>8 DEF T
<1>4. S = {} => SumFunctionOnSet(f, S) = 0
  BY <1>1, <1>2
<1> QED
  BY <1>1, <1>3, <1>4

\* Any element may be split off: the order of the summation does not matter.
LEMMA SumSplit ==
    ASSUME NEW S, IsFiniteSet(S), NEW f, IntOn(f, S), NEW x \in S
    PROVE  SumFunctionOnSet(f, S) = f[x] + SumFunctionOnSet(f, S \ {x})
<1> DEFINE Sum(s) == SumFunctionOnSet(f, s)
           P == {s \in SUBSET S : \A y \in s : Sum(s) = f[y] + Sum(s \ {y})}
<1>1. \A s \in SUBSET S : /\ IsFiniteSet(s) /\ IntOn(f, s) /\ Sum(s) \in Int
                          /\ s # {} => /\ Some(s) \in s
                                       /\ Sum(s) = f[Some(s)] + Sum(s \ {Some(s)})
  BY FS_Subset, SumChosen DEF IntOn
<1> HIDE DEF Sum
<1>2. ASSUME NEW s \in SUBSET S, \A t \in SUBSET s : t # s => t \in P
      PROVE  s \in P
  <2> SUFFICES ASSUME NEW y \in s PROVE Sum(s) = f[y] + Sum(s \ {y})
    BY DEF P
  <2> DEFINE z == Some(s)
  <2>1. z \in s /\ Sum(s) = f[z] + Sum(s \ {z})
    BY <1>1
  <2>2. CASE z = y
    BY <2>1, <2>2
  <2>3. CASE z # y
    <3> HIDE DEF z
    <3>1. s \ {z} \in P /\ y \in s \ {z}
      BY <1>2, <2>1, <2>3
    <3>2. s \ {y} \in P /\ z \in s \ {y}
      BY <1>2, <2>1, <2>3
    <3>3. Sum(s \ {z}) = f[y] + Sum((s \ {z}) \ {y})
      BY <3>1 DEF P
    <3>4. Sum(s \ {y}) = f[z] + Sum((s \ {y}) \ {z})
      BY <3>2 DEF P
    <3>5. (s \ {z}) \ {y} = (s \ {y}) \ {z}
      OBVIOUS
    <3>6. (s \ {y}) \ {z} \in SUBSET S /\ f[y] \in Int /\ f[z] \in Int
      BY <2>1 DEF IntOn
    <3>7. Sum((s \ {y}) \ {z}) \in Int
      BY <1>1, <3>6
    <3>8. /\ Sum(s) = f[z] + (f[y] + Sum((s \ {y}) \ {z}))
          /\ Sum(s \ {y}) = f[z] + Sum((s \ {y}) \ {z})
      BY <2>1, <3>3, <3>4, <3>5
    <3> QED
      BY <3>6, <3>7, <3>8
  <2> QED
    BY <2>2, <2>3
<1> HIDE DEF P
<1>3. \A s \in SUBSET S : s \in P
  BY <1>2, SubsetInduction
<1>4. S \in P
  BY <1>3
<1> QED
  BY <1>4 DEF P, Sum

\* What is summed, at every subset: the facts an induction over them needs.
LEMMA SumSubset ==
    ASSUME NEW S, IsFiniteSet(S), NEW f, IntOn(f, S), NEW s \in SUBSET S
    PROVE  /\ IsFiniteSet(s) /\ IntOn(f, s)
           /\ SumFunctionOnSet(f, s) \in Int
           /\ s = {} => SumFunctionOnSet(f, s) = 0
           /\ \A x \in s :
                 SumFunctionOnSet(f, s) = f[x] + SumFunctionOnSet(f, s \ {x})
<1>1. IsFiniteSet(s) /\ IntOn(f, s)
  BY FS_Subset DEF IntOn
<1> QED
  BY <1>1, SumChosen, SumSplit

\* Zeros sum to zero.
LEMMA SumZero ==
    ASSUME NEW S, IsFiniteSet(S), NEW f, \A x \in S : f[x] = 0
    PROVE  SumFunctionOnSet(f, S) = 0
<1> DEFINE F(s) == SumFunctionOnSet(f, s)
           P == {s \in SUBSET S : F(s) = 0}
<1>1. \A s \in SUBSET S : /\ s = {} => F(s) = 0
                          /\ \A x \in s : F(s) = f[x] + F(s \ {x})
  BY SumSubset DEF IntOn
<1>2. ASSUME NEW s \in SUBSET S, \A t \in SUBSET s : t # s => t \in P
      PROVE  s \in P
  <2>1. CASE s = {}
    BY <1>1, <2>1
  <2>2. CASE s # {}
    <3>1. PICK x \in s : TRUE
      BY <2>2
    <3>2. s \ {x} \in P /\ f[x] = 0
      BY <1>2, <3>1
    <3>3. F(s) = f[x] + F(s \ {x})
      BY <1>1
    <3> HIDE DEF F
    <3> QED
      BY <3>2, <3>3
  <2> QED
    BY <2>1, <2>2
<1> HIDE DEF P
<1>3. S \in P
  BY <1>2, SubsetInduction
<1> QED
  BY <1>3 DEF P

\* A sum is monotone in every summand.
LEMMA SumMonotone ==
    ASSUME NEW S, IsFiniteSet(S), NEW f, IntOn(f, S), NEW g, IntOn(g, S),
           \A x \in S : f[x] <= g[x]
    PROVE  SumFunctionOnSet(f, S) <= SumFunctionOnSet(g, S)
<1> DEFINE F(s) == SumFunctionOnSet(f, s)
           G(s) == SumFunctionOnSet(g, s)
           P == {s \in SUBSET S : F(s) <= G(s)}
<1>1. \A s \in SUBSET S : /\ F(s) \in Int /\ G(s) \in Int
                          /\ s = {} => F(s) = 0 /\ G(s) = 0
                          /\ \A x \in s : /\ F(s) = f[x] + F(s \ {x})
                                          /\ G(s) = g[x] + G(s \ {x})
  BY SumSubset
<1> HIDE DEF F, G
<1>2. ASSUME NEW s \in SUBSET S, \A t \in SUBSET s : t # s => t \in P
      PROVE  s \in P
  <2>1. CASE s = {}
    <3>1. F(s) = 0 /\ G(s) = 0
      BY <1>1, <2>1
    <3> QED
      BY <3>1
  <2>2. CASE s # {}
    <3>1. PICK x \in s : TRUE
      BY <2>2
    <3>2. s \ {x} \in P /\ s \ {x} \in SUBSET S
      BY <1>2, <3>1
    <3>3. F(s \ {x}) \in Int /\ G(s \ {x}) \in Int /\ F(s \ {x}) <= G(s \ {x})
      BY <1>1, <3>2
    <3>4. F(s) = f[x] + F(s \ {x}) /\ G(s) = g[x] + G(s \ {x})
      BY <1>1
    <3>5. f[x] \in Int /\ g[x] \in Int /\ f[x] <= g[x]
      BY DEF IntOn
    <3> HIDE DEF P
    <3>6. F(s) <= G(s)
      BY <3>3, <3>4, <3>5
    <3> QED
      BY <3>6 DEF P
  <2> QED
    BY <2>1, <2>2
<1> HIDE DEF P
<1>3. \A s \in SUBSET S : s \in P
  BY <1>2, SubsetInduction
<1>4. S \in P
  BY <1>3
<1> QED
  BY <1>4 DEF P, F, G

\* It only depends on the summands.
LEMMA SumAgree ==
    ASSUME NEW S, IsFiniteSet(S), NEW f, IntOn(f, S), NEW g,
           \A x \in S : f[x] = g[x]
    PROVE  SumFunctionOnSet(f, S) = SumFunctionOnSet(g, S)
<1>1. IntOn(g, S)
  BY DEF IntOn
<1>2. \A x \in S : f[x] <= g[x] /\ g[x] <= f[x]
  BY DEF IntOn
<1>3. /\ SumFunctionOnSet(f, S) <= SumFunctionOnSet(g, S)
      /\ SumFunctionOnSet(g, S) <= SumFunctionOnSet(f, S)
  BY <1>1, <1>2, SumMonotone
<1>4. SumFunctionOnSet(f, S) \in Int /\ SumFunctionOnSet(g, S) \in Int
  BY <1>1, SumChosen
<1> QED
  BY <1>3, <1>4

\* A sum of natural numbers is one, and is no less than any of them.
LEMMA SumNatural ==
    ASSUME NEW S, IsFiniteSet(S), NEW f, \A x \in S : f[x] \in Nat
    PROVE  /\ SumFunctionOnSet(f, S) \in Nat
           /\ \A x \in S : f[x] <= SumFunctionOnSet(f, S)
<1> DEFINE z == [x \in S |-> 0]
           F(s) == SumFunctionOnSet(f, s)
           Z(s) == SumFunctionOnSet(z, s)
<1>1. IntOn(f, S) /\ IntOn(z, S)
  BY DEF IntOn
<1>2. ASSUME NEW s \in SUBSET S PROVE F(s) \in Nat
  <2>1. IsFiniteSet(s) /\ IntOn(f, s) /\ IntOn(z, s) /\ F(s) \in Int
    BY <1>1, SumSubset
  <2>2. \A x \in s : z[x] <= f[x] /\ z[x] = 0
    OBVIOUS
  <2>3. Z(s) <= F(s) /\ Z(s) = 0
    BY <2>1, <2>2, SumMonotone, SumZero
  <2> HIDE DEF Z, F
  <2> QED
    BY <2>1, <2>3
<1>3. ASSUME NEW x \in S PROVE f[x] <= F(S)
  <2>1. F(S) = f[x] + F(S \ {x})
    BY <1>1, SumSplit
  <2>2. F(S \ {x}) \in Nat
    BY <1>2
  <2> HIDE DEF F
  <2> QED
    BY <2>1, <2>2
<1> QED
  BY <1>2, <1>3

\* One summand changes, the sum changes by as much.
LEMMA SumUpdate ==
    ASSUME NEW S, IsFiniteSet(S), NEW f, IntOn(f, S), NEW g, IntOn(g, S),
           NEW x \in S, \A y \in S : y # x => g[y] = f[y]
    PROVE  SumFunctionOnSet(g, S) = SumFunctionOnSet(f, S) - f[x] + g[x]
<1> DEFINE F(s) == SumFunctionOnSet(f, s)
           G(s) == SumFunctionOnSet(g, s)
<1>1. f[x] \in Int /\ g[x] \in Int
  BY DEF IntOn
<1>2. F(S) = f[x] + F(S \ {x}) /\ G(S) = g[x] + G(S \ {x})
  BY SumSplit
<1>3. IsFiniteSet(S \ {x}) /\ IntOn(g, S \ {x}) /\ IntOn(f, S \ {x})
  BY SumSubset
<1>4. G(S \ {x}) = F(S \ {x}) /\ F(S \ {x}) \in Int
  BY <1>3, SumAgree, SumChosen
<1> HIDE DEF F, G
<1>5. G(S) = F(S) - f[x] + g[x]
  BY <1>1, <1>2, <1>4
<1> QED
  BY <1>5 DEF F, G

\* The sum of two functions.
LEMMA SumAdd ==
    ASSUME NEW S, IsFiniteSet(S), NEW f, IntOn(f, S), NEW g, IntOn(g, S), NEW h,
           \A x \in S : h[x] = f[x] + g[x]
    PROVE  SumFunctionOnSet(h, S) = SumFunctionOnSet(f, S) + SumFunctionOnSet(g, S)
<1> DEFINE F(s) == SumFunctionOnSet(f, s)
           G(s) == SumFunctionOnSet(g, s)
           H(s) == SumFunctionOnSet(h, s)
           P == {s \in SUBSET S : H(s) = F(s) + G(s)}
<1>0. IntOn(h, S)
  BY DEF IntOn
<1>1. \A s \in SUBSET S : /\ F(s) \in Int /\ G(s) \in Int /\ H(s) \in Int
                          /\ s = {} => F(s) = 0 /\ G(s) = 0 /\ H(s) = 0
                          /\ \A x \in s : /\ F(s) = f[x] + F(s \ {x})
                                          /\ G(s) = g[x] + G(s \ {x})
                                          /\ H(s) = h[x] + H(s \ {x})
  BY <1>0, SumSubset
<1> HIDE DEF F, G, H
<1>2. ASSUME NEW s \in SUBSET S, \A t \in SUBSET s : t # s => t \in P
      PROVE  s \in P
  <2>1. CASE s = {}
    <3>1. F(s) = 0 /\ G(s) = 0 /\ H(s) = 0
      BY <1>1, <2>1
    <3> QED
      BY <3>1
  <2>2. CASE s # {}
    <3>1. PICK x \in s : TRUE
      BY <2>2
    <3>2. s \ {x} \in P /\ s \ {x} \in SUBSET S
      BY <1>2, <3>1
    <3>3. F(s \ {x}) \in Int /\ G(s \ {x}) \in Int /\ H(s \ {x}) = F(s \ {x}) + G(s \ {x})
      BY <1>1, <3>2
    <3>4. F(s) = f[x] + F(s \ {x}) /\ G(s) = g[x] + G(s \ {x}) /\ H(s) = h[x] + H(s \ {x})
      BY <1>1
    <3>5. f[x] \in Int /\ g[x] \in Int /\ h[x] = f[x] + g[x]
      BY DEF IntOn
    <3> HIDE DEF P
    <3>6. H(s) = F(s) + G(s)
      BY <3>3, <3>4, <3>5
    <3> QED
      BY <3>6 DEF P
  <2> QED
    BY <2>1, <2>2
<1> HIDE DEF P
<1>3. S \in P
  BY <1>2, SubsetInduction
<1> QED
  BY <1>3 DEF P, F, G, H

\* Where the summands are zero nothing is missed.
LEMMA SumRestrict ==
    ASSUME NEW S, IsFiniteSet(S), NEW f, IntOn(f, S), NEW T \in SUBSET S,
           \A x \in S : x \notin T => f[x] = 0
    PROVE  SumFunctionOnSet(f, S) = SumFunctionOnSet(f, T)
<1> DEFINE F(s) == SumFunctionOnSet(f, s)
           P == {s \in SUBSET S : F(s) = F(s \cap T)}
<1>1. \A s \in SUBSET S : /\ F(s) \in Int
                          /\ \A x \in s : F(s) = f[x] + F(s \ {x})
  BY SumSubset
<1> HIDE DEF F
<1>2. ASSUME NEW s \in SUBSET S, \A t \in SUBSET s : t # s => t \in P
      PROVE  s \in P
  <2>1. CASE s \subseteq T
    <3>1. s \cap T = s
      BY <2>1
    <3> QED
      BY <3>1
  <2>2. CASE ~(s \subseteq T)
    <3>1. PICK x \in s : x \notin T
      BY <2>2
    <3>2. s \ {x} \in P
      BY <1>2, <3>1
    <3>3. F(s \ {x}) = F((s \ {x}) \cap T)
      BY <3>2
    <3>4. (s \ {x}) \cap T = s \cap T
      BY <3>1
    <3>5. F(s) = f[x] + F(s \ {x}) /\ f[x] = 0
      BY <1>1, <3>1
    <3>6. F(s \ {x}) \in Int
      BY <1>1
    <3> HIDE DEF P
    <3>7. F(s) = F(s \ {x})
      BY <3>5, <3>6
    <3>8. F(s) = F(s \cap T)
      BY <3>3, <3>4, <3>7
    <3> QED
      BY <3>8 DEF P
  <2> QED
    BY <2>1, <2>2
<1> HIDE DEF P
<1>3. S \in P
  BY <1>2, SubsetInduction
<1>4. S \cap T = T
  OBVIOUS
<1> QED
  BY <1>3, <1>4 DEF P, F

\* Two summands trade places.
LEMMA SumSwap ==
    ASSUME NEW S, IsFiniteSet(S), NEW f, IntOn(f, S), NEW x \in S, NEW y \in S,
           NEW g, g[x] = f[y], g[y] = f[x], \A z \in S : z # x /\ z # y => g[z] = f[z]
    PROVE  SumFunctionOnSet(g, S) = SumFunctionOnSet(f, S)
<1>1. CASE x = y
  <2>1. \A z \in S : f[z] = g[z]
    BY <1>1
  <2> QED
    BY <2>1, SumAgree
<1>2. CASE x # y
  <2> DEFINE m == [z \in S |-> IF z = x THEN f[y] ELSE f[z]]
  <2>1. IntOn(m, S) /\ IntOn(g, S)
    BY DEF IntOn
  <2>2. /\ m[x] = f[y] /\ m[y] = f[y]
        /\ \A z \in S : z # x => m[z] = f[z]
        /\ \A z \in S : z # y => g[z] = m[z]
    BY <1>2
  <2> HIDE DEF m
  <2>3. SumFunctionOnSet(m, S) = SumFunctionOnSet(f, S) - f[x] + m[x]
    BY <2>1, <2>2, SumUpdate
  <2>4. SumFunctionOnSet(g, S) = SumFunctionOnSet(m, S) - m[y] + g[y]
    BY <2>1, <2>2, SumUpdate
  <2>5. SumFunctionOnSet(f, S) \in Int /\ f[x] \in Int /\ f[y] \in Int
    BY SumChosen DEF IntOn
  <2> QED
    BY <2>2, <2>3, <2>4, <2>5
<1> QED
  BY <1>1, <1>2

\* A bound on every summand, in a fixed proportion, is a bound on the sum.
LEMMA SumScaled ==
    ASSUME NEW S, IsFiniteSet(S), NEW f, \A i \in S : f[i] \in Nat,
           NEW g, \A i \in S : g[i] \in Nat, NEW R \in Nat, NEW W \in Nat,
           \A i \in S : R * f[i] <= g[i] * W
    PROVE  R * SumFunctionOnSet(f, S) <= SumFunctionOnSet(g, S) * W
<1> DEFINE F(s) == SumFunctionOnSet(f, s)
           G(s) == SumFunctionOnSet(g, s)
           P == {s \in SUBSET S : R * F(s) <= G(s) * W}
<1>1. ASSUME NEW s \in SUBSET S
      PROVE  /\ F(s) \in Nat /\ G(s) \in Nat
             /\ s = {} => F(s) = 0 /\ G(s) = 0
             /\ \A x \in s : F(s) = f[x] + F(s \ {x}) /\ G(s) = g[x] + G(s \ {x})
  <2>1. /\ IntOn(f, S) /\ IntOn(g, S)
        /\ \A x \in s : f[x] \in Nat /\ g[x] \in Nat
    BY DEF IntOn
  <2>2. /\ IsFiniteSet(s)
        /\ s = {} => F(s) = 0
        /\ \A x \in s : F(s) = f[x] + F(s \ {x})
    BY ONLY IsFiniteSet(S), s \in SUBSET S, <2>1, SumSubset
  <2>3. /\ s = {} => G(s) = 0
        /\ \A x \in s : G(s) = g[x] + G(s \ {x})
    BY ONLY IsFiniteSet(S), s \in SUBSET S, <2>1, SumSubset
  <2>4. F(s) \in Nat /\ G(s) \in Nat
    BY ONLY <2>1, <2>2, SumNatural
  <2> QED
    BY ONLY <2>2, <2>3, <2>4
<1> HIDE DEF F, G
<1>2. ASSUME NEW s \in SUBSET S, \A t \in SUBSET s : t # s => t \in P
      PROVE  s \in P
  <2>1. CASE s = {}
    BY <1>1, <2>1
  <2>2. CASE s # {}
    <3>1. PICK x \in s : TRUE
      BY <2>2
    <3> DEFINE t == s \ {x}
               a == f[x]
               b == F(t)
               c == g[x]
               d == G(t)
    <3>2. t \in P /\ t \in SUBSET S
      <4> HIDE DEF P
      <4> QED
        BY <1>2, <3>1
    <3>3. /\ a \in Nat /\ b \in Nat /\ c \in Nat /\ d \in Nat
          /\ R * a <= c * W /\ R * b <= d * W
          /\ F(s) = a + b /\ G(s) = c + d
      BY <1>1, <3>1, <3>2
    <3> HIDE DEF a, b, c, d
    <3>4. /\ R * (a + b) = R * a + R * b /\ (c + d) * W = c * W + d * W
          /\ R * a \in Nat /\ R * b \in Nat /\ c * W \in Nat /\ d * W \in Nat
      BY ONLY <3>3, R \in Nat, W \in Nat
    <3>5. R * (a + b) <= (c + d) * W
      BY ONLY <3>3, <3>4
    <3> QED
      BY <3>3, <3>5
  <2> QED
    BY <2>1, <2>2
<1> HIDE DEF P
<1>3. S \in P
  <2>1. \A s \in SUBSET S : s \in P
    BY <1>2, SubsetInduction
  <2> QED
    BY <2>1
<1> QED
  BY <1>3 DEF P, F, G

\* So many summands of at most c each.
LEMMA SumBounded ==
    ASSUME NEW S, IsFiniteSet(S), NEW f, NEW c \in Nat, \A i \in S : f[i] \in 0..c
    PROVE  SumFunctionOnSet(f, S) \in Nat /\ SumFunctionOnSet(f, S) <= Cardinality(S) * c
<1> DEFINE F(s) == SumFunctionOnSet(f, s)
           P == {s \in SUBSET S : F(s) <= Cardinality(s) * c}
<1>0. \A i \in S : f[i] \in Nat /\ f[i] <= c
  OBVIOUS
<1>1. ASSUME NEW s \in SUBSET S
      PROVE  /\ F(s) \in Nat /\ IsFiniteSet(s) /\ Cardinality(s) \in Nat
             /\ s = {} => F(s) = 0 /\ Cardinality(s) = 0
             /\ \A x \in s : /\ F(s) = f[x] + F(s \ {x})
                             /\ Cardinality(s) = Cardinality(s \ {x}) + 1
                             /\ Cardinality(s \ {x}) \in Nat
  <2>1. /\ IntOn(f, S) /\ \A x \in s : f[x] \in Nat
    BY <1>0 DEF IntOn
  <2>2. /\ IsFiniteSet(s)
        /\ s = {} => F(s) = 0
        /\ \A x \in s : F(s) = f[x] + F(s \ {x})
    BY ONLY IsFiniteSet(S), s \in SUBSET S, <2>1, SumSubset
  <2>3. F(s) \in Nat
    BY ONLY <2>1, <2>2, SumNatural
  <2>4. /\ Cardinality(s) \in Nat /\ (s = {} => Cardinality(s) = 0)
        /\ \A x \in s : /\ Cardinality(s \ {x}) = Cardinality(s) - 1
                        /\ IsFiniteSet(s \ {x}) /\ Cardinality(s \ {x}) \in Nat
    BY <2>2, FS_CardinalityType, FS_EmptySet, FS_RemoveElement
  <2> HIDE DEF F
  <2> QED
    BY <2>2, <2>3, <2>4
<1> HIDE DEF F
<1>2. ASSUME NEW s \in SUBSET S, \A t \in SUBSET s : t # s => t \in P
      PROVE  s \in P
  <2>1. CASE s = {}
    BY <1>1, <2>1
  <2>2. CASE s # {}
    <3>1. PICK x \in s : TRUE
      BY <2>2
    <3> DEFINE t == s \ {x}
               n == Cardinality(t)
               b == F(t)
    <3>2. t \in P /\ t \in SUBSET S
      <4> HIDE DEF P
      <4> QED
        BY <1>2, <3>1
    <3>3. /\ f[x] \in Nat /\ f[x] <= c /\ b \in Nat /\ n \in Nat /\ b <= n * c
          /\ F(s) = f[x] + b /\ Cardinality(s) = n + 1
      BY <1>0, <1>1, <3>1, <3>2
    <3> HIDE DEF b, n
    <3>4. (n + 1) * c = n * c + c /\ n * c \in Nat
      BY <3>3
    <3>5. f[x] + b <= (n + 1) * c
      BY <3>3, <3>4
    <3> QED
      BY <3>3, <3>5
  <2> QED
    BY <2>1, <2>2
<1> HIDE DEF P
<1>3. S \in P
  <2>1. \A s \in SUBSET S : s \in P
    BY <1>2, SubsetInduction
  <2> QED
    BY <2>1
<1> QED
  BY <1>1, <1>3 DEF P, F

\* m carries every summand of g, over S, to a place of its own in f, over T; in the
\* places left there is nothing.
Carries(m, S, g, T, f) ==
    /\ m \in [S -> T]
    /\ \A x \in S, y \in S : m[x] = m[y] => x = y
    /\ \A x \in S : f[m[x]] = g[x]
    /\ \A t \in T : (\A x \in S : m[x] # t) => f[t] = 0

LEMMA SumImage ==
    ASSUME NEW S, IsFiniteSet(S), NEW g, IntOn(g, S),
           NEW T, IsFiniteSet(T), NEW f, IntOn(f, T), NEW m, Carries(m, S, g, T, f)
    PROVE  SumFunctionOnSet(f, T) = SumFunctionOnSet(g, S)
<1> DEFINE Image(s) == {m[x] : x \in s}
           F(t) == SumFunctionOnSet(f, t)
           G(s) == SumFunctionOnSet(g, s)
           P == {s \in SUBSET S : F(Image(s)) = G(s)}
<1>0. /\ m \in [S -> T]
      /\ \A x \in S, y \in S : m[x] = m[y] => x = y
      /\ \A x \in S : f[m[x]] = g[x]
      /\ \A t \in T : (\A x \in S : m[x] # t) => f[t] = 0
  BY DEF Carries
<1>1. ASSUME NEW s \in SUBSET S
      PROVE  /\ G(s) \in Int
             /\ s = {} => G(s) = 0
             /\ \A x \in s : G(s) = g[x] + G(s \ {x})
  BY ONLY IsFiniteSet(S), IntOn(g, S), s \in SUBSET S, SumSubset
<1>2. ASSUME NEW t \in SUBSET T
      PROVE  /\ F(t) \in Int
             /\ t = {} => F(t) = 0
             /\ \A y \in t : F(t) = f[y] + F(t \ {y})
  BY ONLY IsFiniteSet(T), IntOn(f, T), t \in SUBSET T, SumSubset
<1>3. ASSUME NEW s \in SUBSET S
      PROVE  /\ Image(s) \in SUBSET T
             /\ s = {} => Image(s) = {}
             /\ \A x \in s : m[x] \in Image(s) /\ Image(s) \ {m[x]} = Image(s \ {x})
  BY <1>0
<1> HIDE DEF F, G, Image
<1>4. ASSUME NEW s \in SUBSET S, \A t \in SUBSET s : t # s => t \in P
      PROVE  s \in P
  <2>1. CASE s = {}
    BY <1>1, <1>2, <1>3, <2>1
  <2>2. CASE s # {}
    <3>1. PICK x \in s : TRUE
      BY <2>2
    <3> DEFINE t == s \ {x}
    <3>2. t \in P
      <4> HIDE DEF P
      <4> QED
        BY <1>4, <3>1
    <3>3. F(Image(s)) = f[m[x]] + F(Image(s) \ {m[x]})
      BY <1>2, <1>3, <3>1
    <3>4. F(Image(s)) = g[x] + F(Image(t))
      BY <1>0, <1>3, <3>1, <3>3
    <3>5. G(s) = g[x] + G(t)
      BY <1>1, <3>1
    <3> QED
      BY <3>2, <3>4, <3>5
  <2> QED
    BY <2>1, <2>2
<1> HIDE DEF P
<1>5. S \in P
  <2>1. \A s \in SUBSET S : s \in P
    BY <1>4, SubsetInduction
  <2> QED
    BY <2>1
<1>6. F(Image(S)) = G(S)
  BY <1>5 DEF P
<1>7. Image(S) \in SUBSET T /\ \A t \in T : t \notin Image(S) => f[t] = 0
  BY <1>0, <1>3 DEF Image
<1>8. F(T) = F(Image(S))
  BY <1>7, SumRestrict DEF F
<1> QED
  BY <1>6, <1>8 DEF F, G

=============================================================================
