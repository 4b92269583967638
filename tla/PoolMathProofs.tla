--------------------------- MODULE PoolMathProofs ---------------------------
(* Theorems about PlankCappedPoolMath, for every book of seats: what the    *)
(* water-filling keeps true from pass to pass, why one pass per seat is      *)
(* enough, and what the settlement pays.                                     *)
EXTENDS PlankCappedPoolMath, FiniteSums

-----------------------------------------------------------------------------
(* Arithmetic                                                              *)

\* Products keep the order of their first factors, strictly if the other is not 0.
LEMMA TimesLeq ==
    ASSUME NEW a \in Nat, NEW b \in Nat, NEW c \in Nat, a <= b
    PROVE  a * c <= b * c
  OBVIOUS

LEMMA TimesLess ==
    ASSUME NEW a \in Nat, NEW b \in Nat, NEW c \in Nat \ {0}, a < b
    PROVE  a * c < b * c
<1>1. (a + 1) * c <= b * c
  BY TimesLeq
<1>2. (a + 1) * c = a * c + c /\ a * c \in Nat /\ b * c \in Nat
  OBVIOUS
<1> QED
  BY <1>1, <1>2

\* A common factor may be cancelled.
LEMMA TimesCancel ==
    ASSUME NEW a \in Nat, NEW b \in Nat, NEW c \in Nat \ {0}, a * c <= b * c
    PROVE  a <= b
<1>1. CASE a <= b
  BY <1>1
<1>2. CASE b < a
  <2>1. b * c < a * c /\ a * c \in Nat /\ b * c \in Nat
    BY <1>2, TimesLess
  <2> QED
    BY <2>1
<1> QED
  BY <1>1, <1>2

LEMMA TimesNat ==
    ASSUME NEW a \in Nat, NEW b \in Nat
    PROVE  a * b \in Nat /\ a * b = b * a
  OBVIOUS

LEMMA Distribute ==
    ASSUME NEW a \in Nat, NEW b \in Nat, NEW c \in Nat
    PROVE  (a + b) * c = a * c + b * c /\ c * (a + b) = c * a + c * b
  OBVIOUS

LEMMA OneMore ==
    ASSUME NEW a \in Nat, NEW b \in Nat, NEW n \in Nat, NEW c \in Nat
    PROVE  ((a + b) + (n + 1)) * c = (a * c + c) + (b + n) * c
<1>1. (a + b) + (n + 1) = (a + 1) + (b + n)
  OBVIOUS
<1>2. ((a + 1) + (b + n)) * c = (a + 1) * c + (b + n) * c
  BY Distribute
<1>3. (a + 1) * c = a * c + c
  OBVIOUS
<1> QED
  BY <1>1, <1>2, <1>3

\* Floor division.
LEMMA Quotient ==
    ASSUME NEW a \in Nat, NEW b \in Nat \ {0}
    PROVE  /\ a \div b \in Nat
           /\ (a \div b) * b <= a
           /\ a < (a \div b) * b + b
  OBVIOUS

LEMMA QuotientLess ==
    ASSUME NEW a \in Nat, NEW b \in Nat \ {0}, NEW c \in Nat, a < c * b
    PROVE  a \div b < c
<1>1. a \div b \in Nat /\ (a \div b) * b <= a
  BY Quotient
<1>2. CASE c <= a \div b
  <2>1. c * b <= (a \div b) * b /\ c * b \in Nat /\ (a \div b) * b \in Nat
    BY <1>1, <1>2, TimesLeq
  <2> QED
    BY <1>1, <2>1
<1> QED
  BY <1>1, <1>2

LEMMA QuotientLeq ==
    ASSUME NEW a \in Nat, NEW b \in Nat \ {0}, NEW c \in Nat, c * b <= a
    PROVE  c <= a \div b
<1>1. a \div b \in Nat /\ a < (a \div b) * b + b
  BY Quotient
<1>2. CASE a \div b < c
  <2>1. (a \div b + 1) * b <= c * b /\ c * b \in Nat
    BY <1>1, <1>2, TimesLeq
  <2>2. (a \div b + 1) * b = (a \div b) * b + b /\ (a \div b) * b \in Nat
    BY <1>1
  <2> QED
    BY <1>1, <2>1, <2>2
<1> QED
  BY <1>1, <1>2

-----------------------------------------------------------------------------
(* The seats                                                               *)

\* The books that ValidInput lets through.
SeatsOK(seats) ==
    /\ Len(seats) \in Nat /\ DOMAIN seats = 1..Len(seats)
    /\ \A i \in DOMAIN seats :
          /\ seats[i].stake \in Nat \ {0}
          /\ seats[i].targetBps \in Nat /\ seats[i].targetBps > BPS

Survivor(seats, crash) == {i \in DOMAIN seats : Survives(seats[i], crash)}

\* What there is between the floor and the cap.
Headroom(seats, i) == CapOf(seats[i]) - FloorOf(seats[i])

\* The floor is at most the stake, the cap at least.
LEMMA SeatFacts ==
    ASSUME NEW seats, SeatsOK(seats), NEW i \in DOMAIN seats
    PROVE  /\ seats[i].stake \in Nat \ {0}
           /\ CapOf(seats[i]) \in Nat
           /\ FloorOf(seats[i]) \in Nat
           /\ FloorOf(seats[i]) <= seats[i].stake
           /\ seats[i].stake <= CapOf(seats[i])
           /\ Headroom(seats, i) \in Nat
           /\ CapOf(seats[i]) = FloorOf(seats[i]) + Headroom(seats, i)
<1> DEFINE s == seats[i].stake
           t == seats[i].targetBps
<1>1. s \in Nat \ {0} /\ t \in Nat /\ t > BPS
  BY DEF SeatsOK
<1> HIDE DEF s, t
<1>2. BPS \in Nat \ {0} /\ floorBps \in Nat /\ floorBps <= BPS
  BY PoolAssumption
<1>3. /\ BPS * s <= t * s /\ BPS * s = s * BPS /\ t * s = s * t
      /\ floorBps * s <= BPS * s /\ floorBps * s = s * floorBps
      /\ s * t \in Nat /\ s * BPS \in Nat /\ s * floorBps \in Nat
  BY <1>1, <1>2, TimesLeq, TimesNat
<1>4. (s * t) \div BPS \in Nat /\ s <= (s * t) \div BPS
  BY <1>1, <1>2, <1>3, Quotient, QuotientLeq
<1>5. (s * floorBps) \div BPS \in Nat /\ (s * floorBps) \div BPS <= s
  <2>1. s * floorBps < (s + 1) * BPS
    <3>1. (s + 1) * BPS = s * BPS + BPS
      BY <1>1, <1>2
    <3> QED
      BY <1>1, <1>2, <1>3, <3>1
  <2>2. (s * floorBps) \div BPS < s + 1
    BY <1>1, <1>2, <1>3, <2>1, QuotientLess
  <2> QED
    BY <1>1, <1>2, <1>3, <2>2, Quotient
<1>6. CapOf(seats[i]) = (s * t) \div BPS /\ FloorOf(seats[i]) = (s * floorBps) \div BPS
  BY DEF CapOf, FloorOf, s, t
<1>7. Headroom(seats, i) = CapOf(seats[i]) - FloorOf(seats[i])
  BY DEF Headroom
<1> QED
  BY <1>1, <1>4, <1>5, <1>6, <1>7 DEF s

LEMMA SeatsFinite ==
    ASSUME NEW seats, SeatsOK(seats)
    PROVE  /\ IsFiniteSet(DOMAIN seats)
           /\ DOMAIN seats = 1..Len(seats)
           /\ Len(seats) \in Nat
           /\ Cardinality(DOMAIN seats) = Len(seats)
<1>1. DOMAIN seats = 1..Len(seats) /\ Len(seats) \in Nat
  BY DEF SeatsOK
<1>2. IsFiniteSet(1..Len(seats)) /\ Cardinality(1..Len(seats)) = Len(seats)
  <2>1. Cardinality(1..Len(seats)) = IF 1 > Len(seats) THEN 0 ELSE Len(seats) - 1 + 1
    BY <1>1, FS_Interval
  <2> QED
    BY <1>1, <2>1, FS_Interval
<1> QED
  BY <1>1, <1>2

-----------------------------------------------------------------------------
(* One visit                                                               *)

\* Capping a seat the water reaches lowers neither the water nor, in proportion
\* to the stakes still active, its level: who was reached before still would be.
LEMMA WaterRises ==
    ASSUME NEW R \in Nat, NEW W \in Nat, NEW V \in Nat,
           NEW s \in Nat \ {0}, NEW c \in Nat, W = s + V, c * W <= R * s
    PROVE  /\ c <= R
           /\ R * V <= (R - c) * W
<1>1. s * c <= W * c /\ s * c = c * s /\ W * c = c * W
  BY TimesLeq, TimesNat
<1>2. c * s \in Nat /\ c * W \in Nat /\ R * s \in Nat
  BY TimesNat
<1>3. c * s <= R * s
  BY <1>1, <1>2
<1>4. c <= R
  BY <1>3, TimesCancel
<1>5. R - c \in Nat
  BY <1>4
<1>6. (R - c) * W = R * W - c * W /\ R * W = R * s + R * V /\ R * V \in Nat
  BY <1>5
<1> QED
  BY <1>2, <1>4, <1>6

LEMMA StillReached ==
    ASSUME NEW R \in Nat, NEW W \in Nat \ {0}, NEW V \in Nat, NEW Q \in Nat,
           NEW s \in Nat, NEW c \in Nat, c * W <= R * s, R * V <= Q * W
    PROVE  c * V <= Q * s
<1>1. (c * W) * V <= (R * s) * V
  BY TimesLeq, TimesNat
<1>2. (R * V) * s <= (Q * W) * s
  BY TimesLeq, TimesNat
<1>3. /\ (c * W) * V = (c * V) * W
      /\ (R * s) * V = (R * V) * s
      /\ (Q * W) * s = (Q * s) * W
  OBVIOUS
<1>4. c * V \in Nat /\ Q * s \in Nat /\ R * V \in Nat
  BY TimesNat
<1>5. (c * V) * W \in Nat /\ (Q * s) * W \in Nat /\ (R * V) * s \in Nat
  BY <1>4, TimesNat
<1>6. (c * V) * W <= (Q * s) * W
  BY <1>1, <1>2, <1>3, <1>5
<1> QED
  BY <1>4, <1>6, TimesCancel

Levels(seats) ==
    [payouts   : [DOMAIN seats -> Nat],
     remaining : Nat,
     weight    : Nat,
     active    : SUBSET DOMAIN seats]

\* What a seat has at a level of the water: a floor while it is active, its cap
\* when it is done, nothing if it is busted.
HasGot(crash, seats, level, i) ==
    IF ~Survives(seats[i], crash) THEN 0
    ELSE IF i \in level.active THEN FloorOf(seats[i]) ELSE CapOf(seats[i])

\* What every pass keeps true: the water and the payouts make up the budget, the
\* weight is that of the active seats, and the seats that are done would be
\* reached by the water as it stands.
GoodLevel(budget, crash, seats, level) ==
    /\ level \in Levels(seats)
    /\ level.active \subseteq Survivor(seats, crash)
    /\ \A i \in DOMAIN seats : level.payouts[i] = HasGot(crash, seats, level, i)
    /\ level.remaining + Total(level.payouts) = budget
    /\ level.weight = SumFunctionOnSet(StakesOf(seats), level.active)
    /\ \A i \in Survivor(seats, crash) \ level.active :
          Headroom(seats, i) * level.weight <= level.remaining * seats[i].stake

\* Sums over seats, at a level.
LEMMA LevelSums ==
    ASSUME NEW seats, SeatsOK(seats), NEW p \in [DOMAIN seats -> Nat]
    PROVE  /\ Total(p) \in Nat
           /\ IntOn(p, DOMAIN seats)
           /\ Total(p) = SumFunctionOnSet(p, DOMAIN seats)
           /\ StakesOf(seats) \in [DOMAIN seats -> Nat \ {0}]
           /\ \A A \in SUBSET DOMAIN seats :
                 /\ IsFiniteSet(A)
                 /\ IntOn(StakesOf(seats), A)
                 /\ SumFunctionOnSet(StakesOf(seats), A) \in Nat
                 /\ \A i \in A :
                      /\ seats[i].stake <= SumFunctionOnSet(StakesOf(seats), A)
                      /\ SumFunctionOnSet(StakesOf(seats), A)
                           = seats[i].stake + SumFunctionOnSet(StakesOf(seats), A \ {i})
<1>1. IsFiniteSet(DOMAIN seats)
  BY SeatsFinite
<1>2. Total(p) = SumFunctionOnSet(p, DOMAIN seats) /\ IntOn(p, DOMAIN seats)
  BY DEF Total, IntOn
<1>3. Total(p) \in Nat
  BY <1>1, <1>2, SumNatural
<1>4. StakesOf(seats) \in [DOMAIN seats -> Nat \ {0}]
  BY SeatFacts DEF StakesOf
<1>5. ASSUME NEW A \in SUBSET DOMAIN seats
      PROVE  /\ IsFiniteSet(A)
             /\ IntOn(StakesOf(seats), A)
             /\ SumFunctionOnSet(StakesOf(seats), A) \in Nat
             /\ \A i \in A :
                  /\ seats[i].stake <= SumFunctionOnSet(StakesOf(seats), A)
                  /\ SumFunctionOnSet(StakesOf(seats), A)
                       = seats[i].stake + SumFunctionOnSet(StakesOf(seats), A \ {i})
  <2>1. IsFiniteSet(A)
    BY <1>1, FS_Subset
  <2>2. \A i \in A : StakesOf(seats)[i] \in Nat /\ StakesOf(seats)[i] = seats[i].stake
    BY <1>4 DEF StakesOf
  <2>3. IntOn(StakesOf(seats), A)
    BY <2>2 DEF IntOn
  <2>4. /\ SumFunctionOnSet(StakesOf(seats), A) \in Nat
        /\ \A i \in A : StakesOf(seats)[i] <= SumFunctionOnSet(StakesOf(seats), A)
    BY <2>1, <2>2, SumNatural
  <2>5. \A i \in A : SumFunctionOnSet(StakesOf(seats), A)
            = StakesOf(seats)[i] + SumFunctionOnSet(StakesOf(seats), A \ {i})
    BY <2>1, <2>3, SumSplit
  <2> QED
    BY <2>1, <2>2, <2>3, <2>4, <2>5
<1> QED
  BY <1>2, <1>3, <1>4, <1>5

LEMMA VisitKeeps ==
    ASSUME NEW budget \in Nat, NEW crash, NEW seats, SeatsOK(seats), NEW level,
           GoodLevel(budget, crash, seats, level), NEW i \in DOMAIN seats
    PROVE  /\ GoodLevel(budget, crash, seats, Visit(seats, level, i))
           /\ Visit(seats, level, i).active \subseteq level.active
           /\ Visit(seats, level, i).active = level.active =>
                 /\ Visit(seats, level, i) = level
                 /\ ~(i \in level.active /\ Reaches(seats, level, i))
<1>1. CASE ~(i \in level.active /\ Reaches(seats, level, i))
  BY <1>1 DEF Visit
<1>2. CASE i \in level.active /\ Reaches(seats, level, i)
  <2> DEFINE R == level.remaining
             W == level.weight
             A == level.active
             s == seats[i].stake
             c == Headroom(seats, i)
             V == SumFunctionOnSet(StakesOf(seats), A \ {i})
             next == Cap(seats, level, i)
             Q == R - c
  <2>1. /\ level \in Levels(seats) /\ R \in Nat /\ W \in Nat /\ A \in SUBSET DOMAIN seats
        /\ level.payouts \in [DOMAIN seats -> Nat]
        /\ A \subseteq Survivor(seats, crash) /\ i \in A
    BY <1>2 DEF GoodLevel, Levels
  <2>2. /\ CapOf(seats[i]) \in Nat /\ c \in Nat /\ s \in Nat \ {0}
        /\ CapOf(seats[i]) = FloorOf(seats[i]) + c /\ FloorOf(seats[i]) \in Nat
    BY SeatFacts
  <2>3. level.payouts[i] = FloorOf(seats[i])
    BY <2>1 DEF GoodLevel, HasGot, Survivor
  <2>4. c = CapOf(seats[i]) - level.payouts[i]
    BY <2>3 DEF Headroom
  <2>5. W = s + V /\ V \in Nat
    <3>1. A \ {i} \in SUBSET DOMAIN seats
      BY <2>1
    <3> QED
      BY <2>1, <3>1, LevelSums DEF GoodLevel
  <2>6. c * W <= R * s
    BY <1>2, <2>4 DEF Reaches
  <2>7. c <= R /\ R * V <= Q * W
    <3> HIDE DEF R, W, s, c, V
    <3> QED
      BY <2>1, <2>2, <2>5, <2>6, WaterRises
  <2>8. /\ next.payouts = [level.payouts EXCEPT ![i] = CapOf(seats[i])]
        /\ next.remaining = Q
        /\ next.weight = W - s
        /\ next.active = A \ {i}
    BY <2>1, <2>4 DEF Cap, Levels
  <2>9. Visit(seats, level, i) = next
    BY <1>2 DEF Visit
  <2>10. /\ Q \in Nat /\ next.weight = V /\ W \in Nat \ {0}
    <3> HIDE DEF R, W, s, c, V, next
    <3> QED
      BY <2>1, <2>2, <2>5, <2>7, <2>8
  <2>11. next \in Levels(seats)
    <3>1. next = [level EXCEPT !.payouts = [level.payouts EXCEPT ![i] = CapOf(seats[i])],
                               !.remaining = Q, !.weight = W - s, !.active = A \ {i}]
      BY <2>1, <2>4 DEF Cap, Levels
    <3>2. [level.payouts EXCEPT ![i] = CapOf(seats[i])] \in [DOMAIN seats -> Nat]
      BY <2>1, <2>2
    <3>3. A \ {i} \in SUBSET DOMAIN seats /\ W - s \in Nat /\ Q \in Nat
      BY <2>1, <2>8, <2>10, <2>5
    <3> HIDE DEF next, Q, W, s, A
    <3> QED
      BY <2>1, <3>1, <3>2, <3>3 DEF Levels
  <2>12. next.active \subseteq Survivor(seats, crash)
    BY <2>1, <2>8
  <2>13. ASSUME NEW j \in DOMAIN seats
         PROVE  next.payouts[j] = HasGot(crash, seats, next, j)
    <3>1. level.payouts[j] = HasGot(crash, seats, level, j)
      BY DEF GoodLevel
    <3>2. CASE j = i
      BY <2>1, <2>8, <3>2 DEF HasGot, Survivor
    <3>3. CASE j # i
      BY <2>1, <2>8, <3>1, <3>3 DEF HasGot
    <3> QED
      BY <3>2, <3>3
  <2>14. next.remaining + Total(next.payouts) = budget
    <3>1. IsFiniteSet(DOMAIN seats) /\ next.payouts \in [DOMAIN seats -> Nat]
      BY <2>11, SeatsFinite DEF Levels
    <3>2. /\ \A j \in DOMAIN seats : j # i => next.payouts[j] = level.payouts[j]
          /\ next.payouts[i] = CapOf(seats[i])
      BY <2>1, <2>8
    <3> HIDE DEF next
    <3>3. /\ IntOn(level.payouts, DOMAIN seats) /\ IntOn(next.payouts, DOMAIN seats)
          /\ Total(level.payouts) = SumFunctionOnSet(level.payouts, DOMAIN seats)
          /\ Total(next.payouts) = SumFunctionOnSet(next.payouts, DOMAIN seats)
          /\ Total(level.payouts) \in Nat
      BY <2>1, <3>1, LevelSums
    <3>4. Total(next.payouts) = Total(level.payouts) - level.payouts[i] + next.payouts[i]
      BY <3>1, <3>2, <3>3, SumUpdate
    <3>5. R + Total(level.payouts) = budget
      BY DEF GoodLevel
    <3> HIDE DEF R, c
    <3> QED
      BY <2>1, <2>2, <2>3, <2>8, <3>2, <3>3, <3>4, <3>5
  <2>15. next.weight = SumFunctionOnSet(StakesOf(seats), next.active)
    BY <2>8, <2>10
  <2>16. ASSUME NEW k \in Survivor(seats, crash) \ next.active
         PROVE  Headroom(seats, k) * next.weight <= next.remaining * seats[k].stake
    <3> DEFINE ck == Headroom(seats, k)
               sk == seats[k].stake
    <3>1. k \in DOMAIN seats
      BY DEF Survivor
    <3>2. ck \in Nat /\ sk \in Nat
      BY <3>1, SeatFacts
    <3>3. ck * W <= R * sk
      <4>1. CASE k = i
        BY <2>6, <4>1
      <4>2. CASE k # i
        <5>1. k \in Survivor(seats, crash) \ A
          BY <2>8, <4>2
        <5> QED
          BY <5>1 DEF GoodLevel
      <4> QED
        BY <4>1, <4>2
    <3>4. ck * V <= Q * sk
      <4> HIDE DEF ck, sk, R, W, V, Q
      <4> QED
        BY <2>1, <2>5, <2>7, <2>10, <3>2, <3>3, StillReached
    <3> QED
      BY <2>8, <2>10, <3>4
  <2>17. GoodLevel(budget, crash, seats, next)
    <3> HIDE DEF next
    <3> QED
      BY <2>11, <2>12, <2>13, <2>14, <2>15, <2>16 DEF GoodLevel
  <2> QED
    BY <2>1, <2>8, <2>9, <2>17
<1> QED
  BY <1>1, <1>2

-----------------------------------------------------------------------------
(* One pass                                                                *)

\* FoldLeft as an equation over the sets of seats visited so far.
Order(seats) == [i \in DOMAIN seats |-> i]

SolvesPass(g, seats, level) ==
    g = [s \in SUBSET DOMAIN Order(seats) |->
            IF s = {} THEN level
            ELSE Visit(seats, g[s \ {Max(s)}], Order(seats)[Max(s)])]

LEMMA PassIs ==
    ASSUME NEW seats, NEW level
    PROVE  Pass(seats, level) = (CHOOSE g : SolvesPass(g, seats, level))[DOMAIN Order(seats)]
  BY DEF Pass, FoldLeft, MapThenFoldSet, SolvesPass, Order

LEMMA MaxInSet ==
    ASSUME NEW S \in SUBSET Nat, IsFiniteSet(S), NEW t \in SUBSET S, t # {}
    PROVE  Max(t) \in t
  BY LargestExists DEF Max

\* The visits of one pass, seat after seat, as a function of the seats visited.
PassRuns(g, seats, level) ==
    \A s \in SUBSET DOMAIN seats :
        /\ s = {} => g[s] = level
        /\ s # {} => /\ Max(s) \in s
                     /\ g[s] = Visit(seats, g[s \ {Max(s)}], Max(s))

LEMMA PassSteps ==
    ASSUME NEW budget \in Nat, NEW crash, NEW seats, SeatsOK(seats), NEW level,
           GoodLevel(budget, crash, seats, level)
    PROVE  \E g : Pass(seats, level) = g[DOMAIN seats] /\ PassRuns(g, seats, level)
<1> DEFINE S == DOMAIN seats
           V == {l \in Levels(seats) : GoodLevel(budget, crash, seats, l)}
           step == [i \in S |-> [l \in V |-> Visit(seats, l, i)]]
           pick == [s \in SUBSET S |-> Max(s)]
           G == CHOOSE g : SolvesPass(g, seats, level)
<1>1. IsFiniteSet(S) /\ S \in SUBSET Nat
  BY SeatsFinite
<1>2. \A s \in SUBSET S : s # {} => Max(s) \in s
  BY <1>1, MaxInSet
<1>3. level \in V
  BY DEF GoodLevel
<1>4. step \in [S -> [V -> V]]
  <2>1. ASSUME NEW i \in S, NEW l \in V PROVE Visit(seats, l, i) \in V
    <3>1. GoodLevel(budget, crash, seats, Visit(seats, l, i))
      BY VisitKeeps
    <3> QED
      BY <3>1 DEF GoodLevel
  <2> HIDE DEF V
  <2> QED
    BY <2>1
<1>5. Picks(pick, S)
  BY <1>2 DEF Picks
<1>6. DOMAIN Order(seats) = S /\ \A i \in S : Order(seats)[i] = i
  BY DEF Order
<1>7. \E g : SolvesPass(g, seats, level)
  <2>1. PICK g \in [SUBSET S -> V] : SolvesFold(g, S, level, step, pick)
    <3> HIDE DEF S, V, step, pick
    <3> QED
      BY <1>1, <1>3, <1>4, <1>5, FoldExists
  <2>2. \A s \in SUBSET S :
          g[s] = IF s = {} THEN level ELSE Visit(seats, g[s \ {Max(s)}], Order(seats)[Max(s)])
    <3> SUFFICES ASSUME NEW s \in SUBSET S
                 PROVE  g[s] = IF s = {} THEN level
                               ELSE Visit(seats, g[s \ {Max(s)}], Order(seats)[Max(s)])
      OBVIOUS
    <3>1. g[s] = IF s = {} THEN level ELSE step[pick[s]][g[s \ {pick[s]}]]
      BY <2>1 DEF SolvesFold
    <3>2. CASE s # {}
      <4>1. Max(s) \in S /\ pick[s] = Max(s) /\ g[s \ {Max(s)}] \in V
        BY <1>2, <3>2
      <4>2. step[Max(s)][g[s \ {Max(s)}]] = Visit(seats, g[s \ {Max(s)}], Max(s))
        <5> HIDE DEF V
        <5> QED
          BY <4>1
      <4> HIDE DEF step, pick
      <4> QED
        BY <1>6, <3>1, <3>2, <4>1, <4>2
    <3> QED
      BY <3>1, <3>2
  <2>3. g = [s \in SUBSET S |-> IF s = {} THEN level
                ELSE Visit(seats, g[s \ {Max(s)}], Order(seats)[Max(s)])]
    BY <2>1, <2>2
  <2> QED
    BY <1>6, <2>3 DEF SolvesPass
<1>8. SolvesPass(G, seats, level)
  BY <1>7
<1>9. Pass(seats, level) = G[S]
  BY <1>6, PassIs
<1> HIDE DEF G
<1>10. ASSUME NEW s \in SUBSET S
       PROVE  /\ s = {} => G[s] = level
              /\ s # {} => /\ Max(s) \in s
                           /\ G[s] = Visit(seats, G[s \ {Max(s)}], Max(s))
  <2>1. G[s] = IF s = {} THEN level
               ELSE Visit(seats, G[s \ {Max(s)}], Order(seats)[Max(s)])
    BY <1>6, <1>8 DEF SolvesPass
  <2>2. s # {} => Max(s) \in s /\ Order(seats)[Max(s)] = Max(s)
    BY <1>2, <1>6
  <2> QED
    BY <2>1, <2>2
<1> QED
  BY <1>9, <1>10 DEF PassRuns

\* Nobody active is reached: the water has found its level.
Stable(seats, level) == \A i \in level.active : ~Reaches(seats, level, i)

\* A pass keeps the level good; it changes nothing exactly when it is stable.
LEMMA PassKeeps ==
    ASSUME NEW budget \in Nat, NEW crash, NEW seats, SeatsOK(seats), NEW level,
           GoodLevel(budget, crash, seats, level)
    PROVE  /\ GoodLevel(budget, crash, seats, Pass(seats, level))
           /\ Pass(seats, level).active \subseteq level.active
           /\ Pass(seats, level).active = level.active => Stable(seats, level)
           /\ Stable(seats, level) => Pass(seats, level) = level
<1> DEFINE S == DOMAIN seats
<1>0. PICK g : Pass(seats, level) = g[S] /\ PassRuns(g, seats, level)
  BY PassSteps
<1>1. /\ Pass(seats, level) = g[S]
      /\ \A s \in SUBSET S :
            /\ s = {} => g[s] = level
            /\ s # {} => /\ Max(s) \in s
                         /\ g[s] = Visit(seats, g[s \ {Max(s)}], Max(s))
  BY <1>0 DEF PassRuns
<1> DEFINE Kept(s) ==
              /\ GoodLevel(budget, crash, seats, g[s])
              /\ g[s].active \subseteq level.active
              /\ g[s].active = level.active =>
                    /\ g[s] = level
                    /\ \A i \in s : i \in level.active => ~Reaches(seats, level, i)
              /\ Stable(seats, level) => g[s] = level
           P == {s \in SUBSET S : Kept(s)}
<1>2. IsFiniteSet(S)
  BY SeatsFinite
<1>3. ASSUME NEW s \in SUBSET S, \A t \in SUBSET s : t # s => t \in P
      PROVE  s \in P
  <2>1. CASE s = {}
    BY <1>1, <2>1
  <2>2. CASE s # {}
    <3> DEFINE m == Max(s)
               t == s \ {m}
    <3>1. m \in s /\ m \in S /\ g[s] = Visit(seats, g[t], m)
      BY <1>1, <2>2
    <3> HIDE DEF m
    <3>2. t \in P
      BY <1>3, <3>1
    <3>3. Kept(t)
      BY <3>2
    <3>4. /\ GoodLevel(budget, crash, seats, g[s])
          /\ g[s].active \subseteq g[t].active
          /\ g[s].active = g[t].active =>
                /\ g[s] = g[t]
                /\ ~(m \in g[t].active /\ Reaches(seats, g[t], m))
      <4> DEFINE l == g[t]
      <4>1. GoodLevel(budget, crash, seats, l) /\ g[s] = Visit(seats, l, m) /\ m \in S
        BY <3>1, <3>3
      <4> HIDE DEF l
      <4>2. /\ GoodLevel(budget, crash, seats, g[s])
            /\ g[s].active \subseteq l.active
            /\ g[s].active = l.active =>
                  g[s] = l /\ ~(m \in l.active /\ Reaches(seats, l, m))
        BY <4>1, VisitKeeps
      <4> QED
        BY <4>2 DEF l
    <3>5. ASSUME g[s].active = level.active
          PROVE  /\ g[s] = level
                 /\ \A i \in s : i \in level.active => ~Reaches(seats, level, i)
      <4>1. g[t].active = level.active
        BY <3>3, <3>4, <3>5
      <4>2. g[t] = level /\ g[s] = level
        BY <3>3, <3>4, <3>5, <4>1
      <4> QED
        BY <3>3, <3>4, <4>1, <4>2
    <3>6. ASSUME Stable(seats, level) PROVE g[s] = level
      <4>1. g[t] = level
        BY <3>3, <3>6
      <4>2. ~(m \in level.active /\ Reaches(seats, level, m))
        BY <3>6 DEF Stable
      <4> QED
        BY <3>1, <4>1, <4>2 DEF Visit
    <3>7. Kept(s)
      BY <3>3, <3>4, <3>5, <3>6
    <3> HIDE DEF Kept
    <3> QED
      BY <3>7
  <2> QED
    BY <2>1, <2>2
<1> HIDE DEF P
<1>4. S \in P
  BY <1>2, <1>3, SubsetInduction
<1>5. Kept(S)
  BY <1>4 DEF P
<1>6. level.active \subseteq S
  BY DEF GoodLevel, Levels
<1> QED
  BY <1>1, <1>5, <1>6 DEF Stable

-----------------------------------------------------------------------------
(* All the passes                                                          *)

\* The survivors' amounts: what OfSurvivors sums up.
LEMMA SurvivorSum ==
    ASSUME NEW crash, NEW seats, SeatsOK(seats), NEW a \in [DOMAIN seats -> Nat]
    PROVE  /\ OfSurvivors(seats, crash, a) \in [DOMAIN seats -> Nat]
           /\ Total(OfSurvivors(seats, crash, a)) \in Nat
           /\ Total(OfSurvivors(seats, crash, a))
                = SumFunctionOnSet(a, Survivor(seats, crash))
<1> DEFINE f == OfSurvivors(seats, crash, a)
           S == DOMAIN seats
           T == Survivor(seats, crash)
<1>1. /\ f \in [S -> Nat]
      /\ \A i \in S : f[i] = IF Survives(seats[i], crash) THEN a[i] ELSE 0
  BY DEF OfSurvivors
<1>2. /\ IsFiniteSet(S) /\ T \in SUBSET S /\ IsFiniteSet(T)
      /\ \A i \in S : i \in T <=> Survives(seats[i], crash)
  BY SeatsFinite, FS_Subset DEF Survivor
<1> HIDE DEF f, S, T
<1>3. /\ \A i \in S : i \notin T => f[i] = 0
      /\ \A i \in T : f[i] = a[i]
      /\ IntOn(f, S) /\ IntOn(f, T)
  BY <1>1, <1>2 DEF IntOn
<1>4. SumFunctionOnSet(f, S) = SumFunctionOnSet(f, T)
  BY <1>2, <1>3, SumRestrict
<1>5. SumFunctionOnSet(f, T) = SumFunctionOnSet(a, T)
  BY <1>2, <1>3, SumAgree
<1>6. Total(f) = SumFunctionOnSet(f, S)
  BY <1>1 DEF Total
<1>7. SumFunctionOnSet(f, S) \in Nat
  BY <1>1, <1>2, SumNatural
<1> QED
  BY <1>1, <1>4, <1>5, <1>6, <1>7 DEF f, S, T

LEMMA SeatAmounts ==
    ASSUME NEW seats, SeatsOK(seats)
    PROVE  /\ Caps(seats) \in [DOMAIN seats -> Nat]
           /\ Floors(seats) \in [DOMAIN seats -> Nat]
           /\ StakesOf(seats) \in [DOMAIN seats -> Nat]
  BY SeatFacts DEF Caps, Floors, StakesOf

\* What a settlement needs: a book that is let through, a budget for its floors.
Fundable(budget, crash, seats) ==
    /\ SeatsOK(seats)
    /\ budget \in Nat
    /\ Total(OfSurvivors(seats, crash, Floors(seats))) <= budget

LEMMA StartGood ==
    ASSUME NEW budget, NEW crash, NEW seats, Fundable(budget, crash, seats)
    PROVE  GoodLevel(budget, crash, seats, Start(budget, crash, seats))
<1> DEFINE floors == OfSurvivors(seats, crash, Floors(seats))
           stakes == OfSurvivors(seats, crash, StakesOf(seats))
           T == Survivor(seats, crash)
           level == Start(budget, crash, seats)
<1>0. SeatsOK(seats) /\ budget \in Nat /\ Total(floors) <= budget
  BY DEF Fundable
<1>1. /\ floors \in [DOMAIN seats -> Nat] /\ Total(floors) \in Nat
      /\ Total(stakes) \in Nat
      /\ Total(stakes) = SumFunctionOnSet(StakesOf(seats), T)
  BY <1>0, SeatAmounts, SurvivorSum
<1>2. /\ level.payouts = floors
      /\ level.remaining = budget - Total(floors)
      /\ level.weight = Total(stakes)
      /\ level.active = T
  BY DEF Start, Survivor
<1>3. T \in SUBSET DOMAIN seats /\ level.remaining \in Nat
  BY <1>0, <1>1, <1>2 DEF Survivor
<1>4. level = [payouts |-> floors, remaining |-> budget - Total(floors),
               weight |-> Total(stakes), active |-> T]
  BY DEF Start, Survivor
<1>5. \A i \in DOMAIN seats : level.payouts[i] = HasGot(crash, seats, level, i)
  BY <1>2 DEF HasGot, OfSurvivors, Floors, Survivor
<1> HIDE DEF floors, stakes, T, level
<1>6. level \in Levels(seats)
  BY <1>0, <1>1, <1>3, <1>4 DEF Levels
<1>7. level.remaining + Total(level.payouts) = budget
  BY <1>0, <1>1, <1>2
<1>8. GoodLevel(budget, crash, seats, level)
  BY <1>1, <1>2, <1>5, <1>6, <1>7 DEF GoodLevel, T
<1> QED
  BY <1>8 DEF level

SolvesFill(g, N, budget, crash, seats) ==
    g = [n \in 0..N |->
            IF n = 0 THEN Start(budget, crash, seats) ELSE Pass(seats, g[n - 1])]

LEMMA FilledIs ==
    ASSUME NEW budget, NEW crash, NEW seats
    PROVE  Filled(budget, crash, seats)
              = (CHOOSE g : SolvesFill(g, Passes(seats), budget, crash, seats))[Passes(seats)]
  BY DEF Filled, SolvesFill

LEMMA FillExists ==
    ASSUME NEW budget, NEW crash, NEW seats, NEW N \in Nat
    PROVE  \E g : SolvesFill(g, N, budget, crash, seats)
<1> DEFINE Value(g, n) == IF n = 0 THEN Start(budget, crash, seats) ELSE Pass(seats, g[n - 1])
           P == {m \in Nat : \E g : g = [n \in 0..m |-> Value(g, n)]}
<1>1. 0 \in P
  <2> DEFINE g == [n \in 0..0 |-> Start(budget, crash, seats)]
  <2>1. g = [n \in 0..0 |-> Value(g, n)]
    OBVIOUS
  <2> QED
    BY <2>1
<1>2. ASSUME NEW m \in Nat, m \in P PROVE m + 1 \in P
  <2>1. PICK g : g = [n \in 0..m |-> Value(g, n)]
    BY <1>2
  <2>2. \A n \in 0..m : g[n] = Value(g, n)
    BY <2>1
  <2> DEFINE h == [n \in 0..m + 1 |-> Value(g, n)]
  <2>3. ASSUME NEW n \in 0..m + 1 PROVE h[n] = Value(h, n)
    <3>1. CASE n = 0
      BY <3>1
    <3>2. CASE n # 0
      <4>1. n - 1 \in 0..m /\ n - 1 \in 0..m + 1
        BY <3>2
      <4>2. h[n - 1] = g[n - 1]
        BY <2>2, <4>1
      <4>3. h[n] = Pass(seats, g[n - 1])
        BY <3>2
      <4> QED
        BY <3>2, <4>2, <4>3
    <3> QED
      BY <3>1, <3>2
  <2>4. h = [n \in 0..m + 1 |-> Value(h, n)]
    BY <2>3
  <2> HIDE DEF h, Value
  <2> QED
    BY <2>4
<1> HIDE DEF P
<1>3. N \in P
  BY <1>1, <1>2, NumberInduction
<1> QED
  BY <1>3 DEF P, SolvesFill

\* As many passes as there are seats are enough: the water has found its level.
LEMMA FilledStable ==
    ASSUME NEW budget, NEW crash, NEW seats, Fundable(budget, crash, seats)
    PROVE  /\ GoodLevel(budget, crash, seats, Filled(budget, crash, seats))
           /\ Stable(seats, Filled(budget, crash, seats))
<1> DEFINE N == Len(seats)
           G == CHOOSE g : SolvesFill(g, N, budget, crash, seats)
           Card(n) == Cardinality(G[n].active)
           P == {n \in Nat : n <= N =>
                    /\ GoodLevel(budget, crash, seats, G[n])
                    /\ Stable(seats, G[n]) \/ Card(n) <= N - n}
<1>0. SeatsOK(seats) /\ budget \in Nat /\ N \in Nat /\ Passes(seats) = N
  BY SeatsFinite DEF Fundable, Passes
<1>1. SolvesFill(G, N, budget, crash, seats)
  <2>1. \E g : SolvesFill(g, N, budget, crash, seats)
    BY <1>0, FillExists
  <2> QED
    BY <2>1
<1> HIDE DEF G
<1>2. \A n \in 0..N : G[n] = IF n = 0 THEN Start(budget, crash, seats)
                            ELSE Pass(seats, G[n - 1])
  BY <1>0, <1>1 DEF SolvesFill
<1>3. IsFiniteSet(DOMAIN seats) /\ Cardinality(DOMAIN seats) = N
  BY <1>0, SeatsFinite
<1>4. 0 \in P
  <2>1. G[0] = Start(budget, crash, seats)
    BY <1>0, <1>2
  <2>2. GoodLevel(budget, crash, seats, G[0])
    BY <2>1, StartGood
  <2>3. G[0].active \in SUBSET DOMAIN seats
    BY <2>2 DEF GoodLevel, Levels
  <2>4. Card(0) <= N
    BY <1>3, <2>3, FS_Subset
  <2>5. Card(0) <= N - 0
    BY <1>0, <2>4
  <2> HIDE DEF Card
  <2> QED
    BY <2>2, <2>5
<1>5. ASSUME NEW n \in Nat, n \in P PROVE n + 1 \in P
  <2> SUFFICES ASSUME n + 1 <= N
               PROVE  /\ GoodLevel(budget, crash, seats, G[n + 1])
                      /\ Stable(seats, G[n + 1]) \/ Card(n + 1) <= N - (n + 1)
    OBVIOUS
  <2>1. GoodLevel(budget, crash, seats, G[n]) /\ (Stable(seats, G[n]) \/ Card(n) <= N - n)
    BY <1>0, <1>5
  <2>2. G[n + 1] = Pass(seats, G[n])
    <3>1. n + 1 \in 0..N /\ n + 1 # 0 /\ n + 1 - 1 = n
      BY <1>0
    <3> QED
      BY <1>2, <3>1
  <2> DEFINE l == G[n]
             k == G[n + 1]
  <2>3. GoodLevel(budget, crash, seats, l) /\ k = Pass(seats, l)
    BY <2>1, <2>2
  <2> HIDE DEF l, k
  <2>4. /\ GoodLevel(budget, crash, seats, k) /\ k.active \subseteq l.active
        /\ k.active = l.active => Stable(seats, l)
        /\ Stable(seats, l) => k = l
    BY <1>0, <2>3, PassKeeps
  <2>5. CASE Stable(seats, l)
    BY <2>4, <2>5 DEF l, k
  <2>6. CASE ~Stable(seats, l)
    <3>1. k.active # l.active
      BY <2>4, <2>6
    <3>2. l.active \in SUBSET DOMAIN seats
      BY <2>3 DEF GoodLevel, Levels
    <3>3. IsFiniteSet(l.active) /\ IsFiniteSet(k.active)
      BY <1>3, <2>4, <3>2, FS_Subset
    <3>4. /\ Cardinality(k.active) <= Cardinality(l.active)
          /\ Cardinality(k.active) # Cardinality(l.active)
      BY <2>4, <3>1, <3>3, FS_Subset
    <3>5. Cardinality(k.active) \in Nat /\ Cardinality(l.active) \in Nat
      BY <3>3, FS_CardinalityType
    <3>6. Cardinality(l.active) <= N - n
      BY <2>1, <2>6 DEF l
    <3>7. Cardinality(k.active) <= N - (n + 1)
      BY <1>0, <3>4, <3>5, <3>6
    <3> QED
      BY <2>4, <3>7 DEF k
  <2> QED
    BY <2>5, <2>6
<1> HIDE DEF P
<1>6. N \in P
  BY <1>0, <1>4, <1>5, NumberInduction
<1>7. GoodLevel(budget, crash, seats, G[N]) /\ (Stable(seats, G[N]) \/ Card(N) <= N - N)
  BY <1>0, <1>6 DEF P
<1>8. Stable(seats, G[N])
  <2>1. CASE Card(N) <= N - N
    <3>1. G[N].active \in SUBSET DOMAIN seats
      BY <1>7 DEF GoodLevel, Levels
    <3>2. IsFiniteSet(G[N].active)
      BY <1>3, <3>1, FS_Subset
    <3>3. Cardinality(G[N].active) = 0
      BY <1>0, <2>1, <3>2, FS_CardinalityType
    <3>4. G[N].active = {}
      BY <3>2, <3>3, FS_EmptySet
    <3> QED
      BY <3>4 DEF Stable
  <2> QED
    BY <1>7, <2>1
<1>9. Filled(budget, crash, seats) = G[N]
  BY <1>0, FilledIs DEF G
<1> QED
  BY <1>7, <1>8, <1>9

-----------------------------------------------------------------------------
(* Sharing what is left                                                    *)

\* Shares rounded down, in proportion to the stakes: together they do not exceed
\* what is shared, and fall short of it by less than one unit per share.
LEMMA RoundedShares ==
    ASSUME NEW A, IsFiniteSet(A), A # {}, NEW f, \A i \in A : f[i] \in Nat,
           NEW R \in Nat, NEW W \in Nat \ {0}, W = SumFunctionOnSet(f, A),
           NEW q, \A i \in A : q[i] = (R * f[i]) \div W
    PROVE  /\ SumFunctionOnSet(q, A) \in Nat
           /\ SumFunctionOnSet(q, A) <= R
           /\ R - SumFunctionOnSet(q, A) < Cardinality(A)
<1> DEFINE Q(s) == SumFunctionOnSet(q, s)
           F(s) == SumFunctionOnSet(f, s)
           C(s) == Cardinality(s)
           P == {s \in SUBSET A : /\ Q(s) * W <= R * F(s)
                                  /\ R * F(s) + C(s) <= (Q(s) + C(s)) * W}
<1>1. ASSUME NEW i \in A
      PROVE  /\ f[i] \in Nat /\ q[i] \in Nat
             /\ q[i] * W <= R * f[i]
             /\ R * f[i] + 1 <= q[i] * W + W
             /\ R * f[i] \in Nat /\ q[i] * W \in Nat
  <2> DEFINE a == R * f[i]
  <2>1. a \in Nat /\ q[i] = a \div W
    BY TimesNat
  <2> HIDE DEF a
  <2>2. a \div W \in Nat /\ (a \div W) * W <= a /\ a < (a \div W) * W + W
    BY <2>1, Quotient
  <2>3. q[i] \in Nat /\ q[i] * W <= a /\ a < q[i] * W + W /\ q[i] * W \in Nat
    BY <2>1, <2>2, TimesNat
  <2>4. a + 1 <= q[i] * W + W
    BY <2>1, <2>3
  <2> QED
    BY <2>1, <2>3, <2>4 DEF a
<1>2. IntOn(f, A) /\ IntOn(q, A)
  BY <1>1 DEF IntOn
<1>3. ASSUME NEW s \in SUBSET A
      PROVE  /\ Q(s) \in Nat /\ F(s) \in Nat /\ C(s) \in Nat
             /\ s = {} => Q(s) = 0 /\ F(s) = 0 /\ C(s) = 0
             /\ \A x \in s : /\ Q(s) = q[x] + Q(s \ {x})
                             /\ F(s) = f[x] + F(s \ {x})
                             /\ C(s) = C(s \ {x}) + 1
  <2>1. IsFiniteSet(s) /\ IntOn(f, s) /\ IntOn(q, s)
    BY <1>2, SumSubset
  <2>2. Q(s) \in Nat /\ F(s) \in Nat
    BY <1>1, <2>1, SumNatural
  <2>3. C(s) \in Nat /\ (s = {} => C(s) = 0)
    BY <2>1, FS_CardinalityType, FS_EmptySet
  <2>4. s = {} => Q(s) = 0 /\ F(s) = 0
    BY <2>1, SumChosen
  <2>5. ASSUME NEW x \in s PROVE /\ Q(s) = q[x] + Q(s \ {x})
                                 /\ F(s) = f[x] + F(s \ {x})
                                 /\ C(s) = C(s \ {x}) + 1
    <3>1. Q(s) = q[x] + Q(s \ {x}) /\ F(s) = f[x] + F(s \ {x})
      BY <2>1, SumSplit
    <3>2. C(s \ {x}) = C(s) - 1
      BY <2>1, FS_RemoveElement
    <3> HIDE DEF C
    <3> QED
      BY <2>3, <3>1, <3>2
  <2> QED
    BY <2>2, <2>3, <2>4, <2>5
<1> HIDE DEF Q, F, C
<1>4. ASSUME NEW s \in SUBSET A, \A t \in SUBSET s : t # s => t \in P
      PROVE  s \in P
  <2>1. CASE s = {}
    <3>1. Q(s) = 0 /\ F(s) = 0 /\ C(s) = 0
      BY <1>3, <2>1
    <3> QED
      BY <3>1
  <2>2. CASE s # {}
    <3>1. PICK x \in s : TRUE
      BY <2>2
    <3> DEFINE t == s \ {x}
    <3>2. t \in P /\ t \in SUBSET A
      <4> HIDE DEF P
      <4> QED
        BY <1>4, <3>1
    <3>3. Q(t) * W <= R * F(t) /\ R * F(t) + C(t) <= (Q(t) + C(t)) * W
      BY <3>2
    <3>4. /\ Q(s) = q[x] + Q(t) /\ F(s) = f[x] + F(t) /\ C(s) = C(t) + 1
          /\ Q(t) \in Nat /\ F(t) \in Nat /\ C(t) \in Nat
      BY <1>3, <3>1, <3>2
    <3>5. /\ f[x] \in Nat /\ q[x] \in Nat
          /\ q[x] * W <= R * f[x]
          /\ R * f[x] + 1 <= q[x] * W + W
          /\ R * f[x] \in Nat /\ q[x] * W \in Nat
      BY <1>1, <3>1
    <3> HIDE DEF t
    <3>6. /\ Q(s) * W = q[x] * W + Q(t) * W
          /\ R * F(s) = R * f[x] + R * F(t)
          /\ (Q(s) + C(s)) * W = (q[x] * W + W) + (Q(t) + C(t)) * W
      <4>1. Q(s) * W = q[x] * W + Q(t) * W /\ R * F(s) = R * f[x] + R * F(t)
        BY <3>4, <3>5, Distribute
      <4>2. (Q(s) + C(s)) * W = (q[x] * W + W) + (Q(t) + C(t)) * W
        <5> DEFINE a == q[x]
                   b == Q(t)
                   n == C(t)
        <5>1. a \in Nat /\ b \in Nat /\ n \in Nat /\ W \in Nat
          BY <3>4, <3>5
        <5>2. Q(s) = a + b /\ C(s) = n + 1
          BY <3>4
        <5>3. ((a + b) + (n + 1)) * W = (a * W + W) + (b + n) * W
          <6> HIDE DEF a, b, n
          <6> QED
            BY ONLY <5>1, OneMore
        <5> QED
          BY <5>2, <5>3
      <4> QED
        BY <4>1, <4>2
    <3>7. /\ Q(t) * W \in Nat /\ R * F(t) \in Nat /\ (Q(t) + C(t)) * W \in Nat
      BY <3>4, TimesNat
    <3>8. Q(s) * W <= R * F(s)
      BY <3>3, <3>5, <3>6, <3>7
    <3>9. R * F(s) + C(s) <= (Q(s) + C(s)) * W
      BY <3>3, <3>4, <3>5, <3>6, <3>7
    <3> QED
      BY <3>8, <3>9
  <2> QED
    BY <2>1, <2>2
<1> HIDE DEF P
<1>5. A \in P
  <2>1. \A s \in SUBSET A : s \in P
    BY <1>4, SubsetInduction
  <2> QED
    BY <2>1
<1>6. /\ Q(A) * W <= R * W
      /\ R * W + C(A) <= (Q(A) + C(A)) * W
      /\ Q(A) \in Nat /\ C(A) \in Nat
  BY <1>3, <1>5 DEF P, F
<1>7. C(A) > 0
  <2>1. PICK x \in A : TRUE
    OBVIOUS
  <2>2. C(A) = C(A \ {x}) + 1 /\ C(A \ {x}) \in Nat
    BY <1>3
  <2> QED
    BY <2>2
<1>8. Q(A) <= R
  BY <1>6, TimesCancel
<1>9. R < Q(A) + C(A)
  <2>1. CASE Q(A) + C(A) <= R
    <3>1. (Q(A) + C(A)) * W <= R * W /\ R * W \in Nat /\ (Q(A) + C(A)) * W \in Nat
      BY <1>6, <2>1, TimesLeq, TimesNat
    <3> QED
      BY <1>6, <1>7, <3>1
  <2> QED
    BY <1>6, <2>1
<1>10. R - Q(A) < C(A)
  BY <1>6, <1>9
<1> QED
  BY <1>6, <1>8, <1>10 DEF Q, C

\* What an active seat gets above its floor.
Lifted(seats, level, i) == (level.remaining * seats[i].stake) \div level.weight

LEMMA LiftBounds ==
    ASSUME NEW budget, NEW crash, NEW seats, SeatsOK(seats), NEW level,
           GoodLevel(budget, crash, seats, level), Stable(seats, level),
           NEW i \in level.active
    PROVE  /\ i \in Survivor(seats, crash) /\ i \in DOMAIN seats
           /\ level.weight \in Nat \ {0} /\ level.remaining \in Nat
           /\ Lifted(seats, level, i) \in Nat
           /\ Lifted(seats, level, i) < Headroom(seats, i)
           /\ Lifted(seats, level, i) * level.weight <= level.remaining * seats[i].stake
           /\ level.remaining * seats[i].stake < (Lifted(seats, level, i) + 1) * level.weight
<1> DEFINE R == level.remaining
           W == level.weight
           s == seats[i].stake
           c == Headroom(seats, i)
<1>1. /\ level \in Levels(seats) /\ R \in Nat /\ W \in Nat
      /\ level.active \in SUBSET DOMAIN seats /\ level.payouts \in [DOMAIN seats -> Nat]
      /\ i \in Survivor(seats, crash) /\ i \in DOMAIN seats
  BY DEF GoodLevel, Levels
<1>2. s \in Nat \ {0} /\ c \in Nat
  BY <1>1, SeatFacts
<1>3. s <= W
  <2>1. s <= SumFunctionOnSet(StakesOf(seats), level.active)
    BY <1>1, LevelSums
  <2>2. W = SumFunctionOnSet(StakesOf(seats), level.active)
    BY DEF GoodLevel
  <2> HIDE DEF W, s
  <2> QED
    BY <2>1, <2>2
<1>4. W \in Nat \ {0}
  BY <1>1, <1>2, <1>3
<1>5. level.payouts[i] = FloorOf(seats[i])
  BY <1>1 DEF GoodLevel, HasGot, Survivor
<1>6. ~(c * W <= R * s)
  BY <1>5 DEF Stable, Reaches, Headroom
<1> HIDE DEF R, W, s, c
<1>7. R * s \in Nat /\ c * W \in Nat
  BY <1>1, <1>2, TimesNat
<1>8. (R * s) \div W < c
  BY <1>1, <1>2, <1>4, <1>6, <1>7, QuotientLess
<1> DEFINE l == (R * s) \div W
<1>9. l \in Nat /\ l * W <= R * s /\ R * s < l * W + W
  BY <1>4, <1>7, Quotient
<1> HIDE DEF l
<1>10. (l + 1) * W = l * W + W
  BY <1>1, <1>9
<1>11. Lifted(seats, level, i) = l /\ l < c
  BY <1>8 DEF Lifted, l, R, W, s
<1> QED
  BY <1>1, <1>4, <1>9, <1>10, <1>11 DEF R, W, s, c

\* The settlement below the full caps, from a level that is stable.
SharePays(crash, seats, level, h) ==
    /\ h \in [DOMAIN seats -> Nat]
    /\ \A i \in level.active :
          h[i] = FloorOf(seats[i]) + Lifted(seats, level, i)
    /\ \A i \in DOMAIN seats \ level.active :
          h[i] = IF Survives(seats[i], crash) THEN CapOf(seats[i]) ELSE 0

LEMMA ShareFacts ==
    ASSUME NEW budget \in Nat, NEW crash, NEW seats, SeatsOK(seats), NEW level,
           GoodLevel(budget, crash, seats, level), Stable(seats, level),
           level.active # {}
    PROVE  /\ SharePays(crash, seats, level, Share(seats, level))
           /\ Total(Share(seats, level)) <= budget
           /\ budget - Total(Share(seats, level)) < Cardinality(level.active)
<1> DEFINE R == level.remaining
           W == level.weight
           A == level.active
           S == DOMAIN seats
           p == level.payouts
           q == [i \in S |-> IF i \in A THEN Lifted(seats, level, i) ELSE 0]
           h == Share(seats, level)
<1>1. /\ level \in Levels(seats) /\ R \in Nat /\ W \in Nat
      /\ A \in SUBSET S /\ p \in [S -> Nat] /\ A \subseteq Survivor(seats, crash)
  BY DEF GoodLevel, Levels
<1>2. \A i \in A : Lifted(seats, level, i) \in Nat /\ W \in Nat \ {0}
  BY LiftBounds
<1>3. q \in [S -> Nat] /\ \A i \in S : q[i] = IF i \in A THEN Lifted(seats, level, i) ELSE 0
  BY <1>2
<1>4. /\ h = [i \in S |-> IF i \in A THEN p[i] + Lifted(seats, level, i) ELSE p[i]]
  BY DEF Share, Lifted
<1>5. \A i \in S : p[i] = HasGot(crash, seats, level, i)
  BY DEF GoodLevel
<1>6. h \in [S -> Nat] /\ \A i \in S : h[i] = p[i] + q[i]
  <2> HIDE DEF q, h, p, A
  <2>1. \A i \in S : p[i] \in Nat /\ q[i] \in Nat
    BY <1>1, <1>3
  <2>2. \A i \in S : h[i] = p[i] + q[i]
    BY <1>3, <1>4, <2>1
  <2>3. \A i \in S : h[i] \in Nat
    BY <2>1, <2>2
  <2> QED
    BY <1>4, <2>2, <2>3
<1>7. \A i \in A : h[i] = FloorOf(seats[i]) + Lifted(seats, level, i)
  BY <1>1, <1>4, <1>5 DEF HasGot, Survivor
<1>8. \A i \in S \ A : h[i] = IF Survives(seats[i], crash) THEN CapOf(seats[i]) ELSE 0
  BY <1>4, <1>5 DEF HasGot
<1>9. /\ IsFiniteSet(S) /\ IsFiniteSet(A)
      /\ Total(p) \in Nat /\ Total(p) = SumFunctionOnSet(p, S) /\ IntOn(p, S)
      /\ Total(h) \in Nat /\ Total(h) = SumFunctionOnSet(h, S)
      /\ IntOn(q, S) /\ IntOn(q, A)
  <2> HIDE DEF q, h, p, A, S
  <2>1. IsFiniteSet(S) /\ IsFiniteSet(A)
    BY <1>1, SeatsFinite, FS_Subset DEF S
  <2>2. /\ Total(p) \in Nat /\ Total(p) = SumFunctionOnSet(p, S) /\ IntOn(p, S)
        /\ Total(h) \in Nat /\ Total(h) = SumFunctionOnSet(h, S)
    BY <1>1, <1>6, LevelSums DEF S
  <2>3. IntOn(q, S) /\ IntOn(q, A)
    BY <1>1, <1>3 DEF IntOn
  <2> QED
    BY <2>1, <2>2, <2>3
<1>10. Total(h) = Total(p) + SumFunctionOnSet(q, S)
  <2> HIDE DEF q, h, p, A, S
  <2>1. SumFunctionOnSet(h, S) = SumFunctionOnSet(p, S) + SumFunctionOnSet(q, S)
    BY <1>6, <1>9, SumAdd
  <2> QED
    BY <1>9, <2>1
<1>11. SumFunctionOnSet(q, S) = SumFunctionOnSet(q, A)
  <2> HIDE DEF q, A, S
  <2>1. \A i \in S : i \notin A => q[i] = 0
    BY <1>3
  <2> QED
    BY <1>1, <1>9, <2>1, SumRestrict
<1>12. /\ SumFunctionOnSet(q, A) \in Nat
       /\ SumFunctionOnSet(q, A) <= R
       /\ R - SumFunctionOnSet(q, A) < Cardinality(A)
  <2> DEFINE f == StakesOf(seats)
  <2>1. \A i \in A : f[i] \in Nat /\ f[i] = seats[i].stake
    <3>1. \A i \in A : i \in S /\ seats[i].stake \in Nat
      BY <1>1, SeatFacts
    <3> QED
      BY <3>1 DEF StakesOf
  <2>2. \A i \in A : q[i] = (R * f[i]) \div W
    BY <1>1, <1>3, <2>1 DEF Lifted
  <2>3. W = SumFunctionOnSet(f, A)
    BY DEF GoodLevel
  <2>4. W \in Nat \ {0}
    BY <1>2
  <2> HIDE DEF q, A, S, R, W, f
  <2>5. A # {}
    BY DEF A
  <2> QED
    BY <1>1, <1>9, <2>1, <2>2, <2>3, <2>4, <2>5, RoundedShares
<1>13. R + Total(p) = budget
  BY DEF GoodLevel
<1>14. Total(h) <= budget /\ budget - Total(h) < Cardinality(A)
  <2> DEFINE x == SumFunctionOnSet(q, A)
             y == Total(p)
             z == Total(h)
             n == Cardinality(A)
  <2>1. z = y + x /\ y \in Nat /\ x \in Nat /\ x <= R /\ R - x < n /\ R + y = budget
    BY <1>9, <1>10, <1>11, <1>12, <1>13
  <2>2. n \in Nat
    BY <1>9, FS_CardinalityType
  <2> HIDE DEF x, y, z, n, R
  <2>3. z <= budget /\ budget - z < n
    BY <1>1, <2>1, <2>2
  <2> QED
    BY <2>3 DEF z, n
<1>15. SharePays(crash, seats, level, h)
  <2> HIDE DEF q, h, p, R, W
  <2> QED
    BY <1>6, <1>7, <1>8 DEF SharePays
<1> QED
  BY <1>14, <1>15

-----------------------------------------------------------------------------
(* The settlement                                                          *)

\* Survivors below their cap.
Below(crash, seats, payouts) ==
    {i \in Survivor(seats, crash) : payouts[i] < CapOf(seats[i])}

\* Either everybody has the full cap, or the water was shared at a stable level.
Settled(budget, crash, seats, level) ==
    /\ GoodLevel(budget, crash, seats, level)
    /\ Stable(seats, level)
    /\ level.active # {}
    /\ Payouts(budget, crash, seats) = Share(seats, level)

LEMMA PayoutsSplit ==
    ASSUME NEW budget, NEW crash, NEW seats, Fundable(budget, crash, seats)
    PROVE  \/ /\ Payouts(budget, crash, seats) = OfSurvivors(seats, crash, Caps(seats))
              /\ Total(OfSurvivors(seats, crash, Caps(seats))) <= budget
           \/ /\ \E level : Settled(budget, crash, seats, level)
              /\ budget < Total(OfSurvivors(seats, crash, Caps(seats)))
<1> DEFINE caps == OfSurvivors(seats, crash, Caps(seats))
           level == Filled(budget, crash, seats)
<1>1. SeatsOK(seats) /\ budget \in Nat /\ Total(caps) \in Nat
  BY SeatAmounts, SurvivorSum DEF Fundable
<1>2. CASE budget >= Total(caps)
  BY <1>1, <1>2 DEF Payouts
<1>3. CASE budget < Total(caps)
  <2>1. Payouts(budget, crash, seats) = Share(seats, level)
    BY <1>1, <1>3 DEF Payouts
  <2>2. GoodLevel(budget, crash, seats, level) /\ Stable(seats, level)
    BY FilledStable
  <2>3. level.active # {}
    <3>1. SUFFICES ASSUME level.active = {} PROVE FALSE
      OBVIOUS
    <3> HIDE DEF level
    <3>2. level.payouts \in [DOMAIN seats -> Nat] /\ level.remaining \in Nat
      BY <2>2 DEF GoodLevel, Levels
    <3>3. \A i \in DOMAIN seats : level.payouts[i] = caps[i]
      BY <2>2, <3>1 DEF GoodLevel, HasGot, OfSurvivors, Caps
    <3>4. level.payouts = caps
      BY <3>2, <3>3 DEF OfSurvivors
    <3>5. level.remaining + Total(caps) = budget
      BY <2>2, <3>4 DEF GoodLevel
    <3> HIDE DEF caps
    <3> QED
      BY <1>1, <1>3, <3>2, <3>5
  <2>4. Settled(budget, crash, seats, level)
    BY <2>1, <2>2, <2>3 DEF Settled
  <2> QED
    BY <1>3, <2>4
<1> QED
  BY <1>1, <1>2, <1>3

\* What the settlement at a stable level pays to whom.
LEMMA SettledSeats ==
    ASSUME NEW budget \in Nat, NEW crash, NEW seats, SeatsOK(seats), NEW level,
           Settled(budget, crash, seats, level), NEW P, P = Payouts(budget, crash, seats)
    PROVE  /\ P \in [DOMAIN seats -> Nat]
           /\ level.active = Below(crash, seats, P)
           /\ \A i \in level.active : P[i] - FloorOf(seats[i]) = Lifted(seats, level, i)
           /\ \A i \in Survivor(seats, crash) \ level.active :
                 /\ P[i] = CapOf(seats[i])
                 /\ P[i] - FloorOf(seats[i]) = Headroom(seats, i)
           /\ \A i \in DOMAIN seats :
                 ~Survives(seats[i], crash) => P[i] = 0
<1> DEFINE A == level.active
<1>1. /\ GoodLevel(budget, crash, seats, level) /\ Stable(seats, level) /\ A # {}
      /\ P = Share(seats, level)
  BY DEF Settled
<1>2. /\ P \in [DOMAIN seats -> Nat]
      /\ \A i \in A : P[i] = FloorOf(seats[i]) + Lifted(seats, level, i)
      /\ \A i \in DOMAIN seats \ A :
            P[i] = IF Survives(seats[i], crash) THEN CapOf(seats[i]) ELSE 0
  <2>1. SharePays(crash, seats, level, P)
    BY <1>1, ShareFacts
  <2> QED
    BY <2>1 DEF SharePays
<1>3. A \subseteq Survivor(seats, crash)
  BY <1>1 DEF GoodLevel
<1>4. ASSUME NEW i \in A
      PROVE  /\ P[i] - FloorOf(seats[i]) = Lifted(seats, level, i)
             /\ i \in DOMAIN seats /\ P[i] < CapOf(seats[i])
  <2> DEFINE l == Lifted(seats, level, i)
             c == Headroom(seats, i)
             f == FloorOf(seats[i])
  <2>1. l \in Nat /\ l < c /\ i \in DOMAIN seats
    BY <1>1, LiftBounds
  <2>2. c \in Nat /\ f \in Nat /\ CapOf(seats[i]) = f + c
    BY <2>1, SeatFacts
  <2>3. P[i] = f + l
    BY <1>2
  <2> HIDE DEF l, c, f
  <2>4. P[i] - f = l /\ P[i] < CapOf(seats[i])
    BY <2>1, <2>2, <2>3
  <2> QED
    BY <2>1, <2>4 DEF l, f
<1>5. ASSUME NEW i \in Survivor(seats, crash) \ A
      PROVE  /\ P[i] = CapOf(seats[i])
             /\ P[i] - FloorOf(seats[i]) = Headroom(seats, i)
             /\ ~(P[i] < CapOf(seats[i]))
  <2>1. i \in DOMAIN seats \ A /\ Survives(seats[i], crash)
    BY DEF Survivor
  <2>2. P[i] = CapOf(seats[i]) /\ CapOf(seats[i]) \in Nat
    BY <1>2, <2>1, SeatFacts
  <2> QED
    BY <2>2 DEF Headroom
<1>6. A = Below(crash, seats, P)
  <2> HIDE DEF A
  <2> QED
    BY <1>3, <1>4, <1>5 DEF Below
<1>7. \A i \in DOMAIN seats : ~Survives(seats[i], crash) => P[i] = 0
  BY <1>2, <1>3 DEF Survivor
<1> QED
  BY <1>2, <1>4, <1>5, <1>6, <1>7

LEMMA CapsPaid ==
    ASSUME NEW crash, NEW seats, SeatsOK(seats),
           NEW P, P = OfSurvivors(seats, crash, Caps(seats))
    PROVE  /\ P \in [DOMAIN seats -> Nat]
           /\ \A i \in DOMAIN seats :
                 P[i] = IF Survives(seats[i], crash) THEN CapOf(seats[i]) ELSE 0
           /\ Below(crash, seats, P) = {}
<1>1. P \in [DOMAIN seats -> Nat]
  BY SeatAmounts, SurvivorSum
<1>2. \A i \in DOMAIN seats :
        /\ P[i] = IF Survives(seats[i], crash) THEN CapOf(seats[i]) ELSE 0
        /\ CapOf(seats[i]) \in Nat
  BY SeatFacts DEF OfSurvivors, Caps
<1>3. Below(crash, seats, P) = {}
  BY <1>2 DEF Below, Survivor
<1> QED
  BY <1>1, <1>2, <1>3

\* A survivor is paid between its floor and its cap, a busted seat nothing.
LEMMA PaidWithinBounds ==
    ASSUME NEW budget, NEW crash, NEW seats, Fundable(budget, crash, seats),
           NEW P, P = Payouts(budget, crash, seats)
    PROVE  /\ P \in [DOMAIN seats -> Nat]
           /\ \A i \in DOMAIN seats :
                 IF Survives(seats[i], crash)
                 THEN P[i] \in FloorOf(seats[i])..CapOf(seats[i])
                 ELSE P[i] = 0
<1>0. SeatsOK(seats) /\ budget \in Nat
  BY DEF Fundable
<1>1. ASSUME NEW i \in DOMAIN seats
      PROVE  /\ CapOf(seats[i]) \in Nat /\ FloorOf(seats[i]) \in Nat
             /\ Headroom(seats, i) \in Nat
             /\ CapOf(seats[i]) = FloorOf(seats[i]) + Headroom(seats, i)
  BY <1>0, SeatFacts
<1>2. CASE P = OfSurvivors(seats, crash, Caps(seats))
  <2>1. /\ P \in [DOMAIN seats -> Nat]
        /\ \A i \in DOMAIN seats :
              P[i] = IF Survives(seats[i], crash) THEN CapOf(seats[i]) ELSE 0
    BY <1>0, <1>2, CapsPaid
  <2>2. \A i \in DOMAIN seats : CapOf(seats[i]) \in FloorOf(seats[i])..CapOf(seats[i])
    BY <1>1
  <2> QED
    BY <2>1, <2>2
<1>3. ASSUME NEW level, Settled(budget, crash, seats, level)
      PROVE  /\ P \in [DOMAIN seats -> Nat]
             /\ \A i \in DOMAIN seats :
                   IF Survives(seats[i], crash)
                   THEN P[i] \in FloorOf(seats[i])..CapOf(seats[i])
                   ELSE P[i] = 0
  <2>1. /\ P \in [DOMAIN seats -> Nat]
        /\ level.active = Below(crash, seats, P)
        /\ \A i \in level.active : P[i] - FloorOf(seats[i]) = Lifted(seats, level, i)
        /\ \A i \in Survivor(seats, crash) \ level.active : P[i] = CapOf(seats[i])
        /\ \A i \in DOMAIN seats : ~Survives(seats[i], crash) => P[i] = 0
    BY <1>0, <1>3, SettledSeats
  <2>2. ASSUME NEW i \in DOMAIN seats, Survives(seats[i], crash)
        PROVE  P[i] \in FloorOf(seats[i])..CapOf(seats[i])
    <3>1. i \in Survivor(seats, crash) /\ P[i] \in Nat
      BY <2>1, <2>2 DEF Survivor
    <3>2. CASE i \in level.active
      <4>1. P[i] < CapOf(seats[i])
        BY <2>1, <3>2 DEF Below
      <4>2. Lifted(seats, level, i) \in Nat
        BY <1>0, <1>3, <3>2, LiftBounds DEF Settled
      <4>3. P[i] - FloorOf(seats[i]) \in Nat
        BY <2>1, <3>2, <4>2
      <4> QED
        BY <1>1, <3>1, <4>1, <4>3
    <3>3. CASE i \notin level.active
      BY <1>1, <2>1, <3>1, <3>3
    <3> QED
      BY <3>2, <3>3
  <2> QED
    BY <2>1, <2>2
<1> QED
  BY <1>2, <1>3, PayoutsSplit

\* The budget covers what is paid; while somebody is below the cap, less than one
\* unit for each of them is kept.
LEMMA PaidWithinBudget ==
    ASSUME NEW budget, NEW crash, NEW seats, Fundable(budget, crash, seats),
           NEW P, P = Payouts(budget, crash, seats)
    PROVE  /\ Total(P) \in Nat /\ Total(P) <= budget
           /\ Below(crash, seats, P) # {} =>
                 budget - Total(P) < Cardinality(Below(crash, seats, P))
<1>0. SeatsOK(seats) /\ budget \in Nat
  BY DEF Fundable
<1>1. P \in [DOMAIN seats -> Nat]
  BY PaidWithinBounds
<1>2. Total(P) \in Nat
  BY <1>0, <1>1, LevelSums
<1>3. CASE P = OfSurvivors(seats, crash, Caps(seats)) /\ Total(P) <= budget
  BY <1>0, <1>2, <1>3, CapsPaid
<1>4. ASSUME NEW level, Settled(budget, crash, seats, level)
      PROVE  /\ Total(P) <= budget
             /\ budget - Total(P) < Cardinality(Below(crash, seats, P))
  <2>1. level.active = Below(crash, seats, P)
    BY <1>0, <1>4, SettledSeats
  <2>2. /\ Total(Share(seats, level)) <= budget
        /\ budget - Total(Share(seats, level)) < Cardinality(level.active)
    BY <1>0, <1>4, ShareFacts DEF Settled
  <2>3. P = Share(seats, level)
    BY <1>4 DEF Settled
  <2> QED
    BY <2>1, <2>2, <2>3
<1> QED
  BY <1>2, <1>3, <1>4, PayoutsSplit

\* Cross-multiplied, the water stands at one level: the lift of a seat, per unit
\* of its stake, exceeds that of a seat below its cap by rounding only.
LEMMA CrossLevel ==
    ASSUME NEW R \in Nat, NEW W \in Nat \ {0}, NEW l \in Nat, NEW k \in Nat,
           NEW s \in Nat \ {0}, NEW t \in Nat, l * W <= R * s, R * t < (k + 1) * W
    PROVE  l * t < (k + 1) * s
<1>1. (l * W) * t <= (R * s) * t
  BY TimesLeq, TimesNat
<1>2. (R * t) * s < ((k + 1) * W) * s
  BY TimesLess, TimesNat
<1>3. /\ (l * W) * t = (l * t) * W
      /\ (R * s) * t = (R * t) * s
      /\ ((k + 1) * W) * s = ((k + 1) * s) * W
  OBVIOUS
<1>4. l * t \in Nat /\ (k + 1) * s \in Nat /\ R * t \in Nat /\ k + 1 \in Nat
  BY TimesNat
<1>5. (l * t) * W \in Nat /\ ((k + 1) * s) * W \in Nat /\ (R * t) * s \in Nat
  BY <1>4, TimesNat
<1>6. (l * t) * W < ((k + 1) * s) * W
  BY <1>1, <1>2, <1>3, <1>5
<1>7. CASE (k + 1) * s <= l * t
  <2>1. ((k + 1) * s) * W <= (l * t) * W
    BY <1>4, <1>7, TimesLeq
  <2> QED
    BY <1>5, <1>6, <2>1
<1> QED
  BY <1>4, <1>7

LEMMA PaidFairly ==
    ASSUME NEW budget, NEW crash, NEW seats, Fundable(budget, crash, seats),
           NEW P, P = Payouts(budget, crash, seats),
           NEW i \in Survivor(seats, crash), NEW j \in Below(crash, seats, P)
    PROVE  (P[i] - FloorOf(seats[i])) * seats[j].stake
              < (P[j] - FloorOf(seats[j]) + 1) * seats[i].stake
<1>0. SeatsOK(seats) /\ budget \in Nat /\ i \in DOMAIN seats
  BY DEF Fundable, Survivor
<1>1. PICK level : Settled(budget, crash, seats, level)
  BY <1>0, PayoutsSplit, CapsPaid
<1>2. /\ level.active = Below(crash, seats, P)
      /\ \A k \in level.active : P[k] - FloorOf(seats[k]) = Lifted(seats, level, k)
      /\ \A k \in Survivor(seats, crash) \ level.active :
            P[k] - FloorOf(seats[k]) = Headroom(seats, k)
  BY <1>0, <1>1, SettledSeats
<1> DEFINE R == level.remaining
           W == level.weight
           l == P[i] - FloorOf(seats[i])
           k == P[j] - FloorOf(seats[j])
           s == seats[i].stake
           t == seats[j].stake
<1>3. GoodLevel(budget, crash, seats, level) /\ Stable(seats, level)
  BY <1>1 DEF Settled
<1>4. /\ k = Lifted(seats, level, j) /\ j \in DOMAIN seats
      /\ W \in Nat \ {0} /\ R \in Nat /\ k \in Nat
      /\ R * t < (k + 1) * W
  <2>1. j \in level.active /\ k = Lifted(seats, level, j)
    BY <1>2
  <2> QED
    BY <1>0, <1>3, <2>1, LiftBounds
<1>5. l \in Nat /\ l * W <= R * s
  <2>1. CASE i \in level.active
    <3>1. l = Lifted(seats, level, i)
      BY <1>2, <2>1
    <3> QED
      BY <1>0, <1>3, <2>1, <3>1, LiftBounds
  <2>2. CASE i \notin level.active
    <3>1. l = Headroom(seats, i) /\ i \in Survivor(seats, crash) \ level.active
      BY <1>2, <2>2
    <3>2. Headroom(seats, i) * level.weight <= level.remaining * seats[i].stake
      BY <1>3, <3>1 DEF GoodLevel
    <3> QED
      BY <1>0, <3>1, <3>2, SeatFacts
  <2> QED
    BY <2>1, <2>2
<1>6. s \in Nat \ {0} /\ t \in Nat
  BY <1>0, <1>4, SeatFacts
<1> HIDE DEF R, W, l, k, s, t
<1>7. l * t < (k + 1) * s
  BY <1>4, <1>5, <1>6, CrossLevel
<1> QED
  BY <1>7 DEF l, k, s, t

-----------------------------------------------------------------------------
(* The level is unique                                                     *)

\* If every summand exceeds its share, so does the sum.
LEMMA SumExceeds ==
    ASSUME NEW D, IsFiniteSet(D), D # {}, NEW f, \A i \in D : f[i] \in Nat,
           NEW g, \A i \in D : g[i] \in Nat, NEW R \in Nat, NEW W \in Nat,
           \A i \in D : R * f[i] < g[i] * W
    PROVE  R * SumFunctionOnSet(f, D) < SumFunctionOnSet(g, D) * W
<1> DEFINE F(s) == SumFunctionOnSet(f, s)
           G(s) == SumFunctionOnSet(g, s)
           P == {s \in SUBSET D : IF s = {} THEN F(s) = 0 /\ G(s) = 0
                                  ELSE R * F(s) < G(s) * W}
<1>1. ASSUME NEW s \in SUBSET D
      PROVE  /\ F(s) \in Nat /\ G(s) \in Nat
             /\ s = {} => F(s) = 0 /\ G(s) = 0
             /\ \A x \in s : F(s) = f[x] + F(s \ {x}) /\ G(s) = g[x] + G(s \ {x})
  <2>1. /\ IntOn(f, D) /\ IntOn(g, D)
        /\ \A x \in s : f[x] \in Nat /\ g[x] \in Nat
    BY DEF IntOn
  <2>2. /\ IsFiniteSet(s)
        /\ s = {} => F(s) = 0
        /\ \A x \in s : F(s) = f[x] + F(s \ {x})
    BY ONLY IsFiniteSet(D), s \in SUBSET D, <2>1, SumSubset
  <2>3. /\ s = {} => G(s) = 0
        /\ \A x \in s : G(s) = g[x] + G(s \ {x})
    BY ONLY IsFiniteSet(D), s \in SUBSET D, <2>1, SumSubset
  <2>4. F(s) \in Nat /\ G(s) \in Nat
    BY ONLY <2>1, <2>2, SumNatural
  <2> QED
    BY ONLY <2>2, <2>3, <2>4
<1> HIDE DEF F, G
<1>2. ASSUME NEW s \in SUBSET D, \A t \in SUBSET s : t # s => t \in P
      PROVE  s \in P
  <2>1. CASE s = {}
    BY <1>1, <2>1
  <2>2. CASE s # {}
    <3>1. PICK x \in s : TRUE
      BY <2>2
    <3> DEFINE t == s \ {x}
    <3>2. t \in P /\ t \in SUBSET D
      <4> HIDE DEF P
      <4> QED
        BY <1>2, <3>1
    <3>3. /\ F(s) = f[x] + F(t) /\ G(s) = g[x] + G(t)
          /\ F(t) \in Nat /\ G(t) \in Nat /\ f[x] \in Nat /\ g[x] \in Nat
          /\ R * f[x] < g[x] * W
      BY <1>1, <3>1, <3>2
    <3>4. R * F(t) <= G(t) * W
      <4>1. CASE t = {}
        <5>1. F(t) = 0 /\ G(t) = 0
          BY <3>2, <4>1
        <5> QED
          BY <5>1
      <4>2. CASE t # {}
        <5>1. R * F(t) < G(t) * W
          BY <3>2, <4>2
        <5>2. R * F(t) \in Nat /\ G(t) * W \in Nat
          BY <3>3, TimesNat
        <5> QED
          BY <5>1, <5>2
      <4> QED
        BY <4>1, <4>2
    <3>5. R * F(s) < G(s) * W
      <4> DEFINE a == f[x]
                 b == F(t)
                 c == g[x]
                 d == G(t)
      <4>1. /\ a \in Nat /\ b \in Nat /\ c \in Nat /\ d \in Nat
            /\ R * a < c * W /\ R * b <= d * W
            /\ F(s) = a + b /\ G(s) = c + d
        BY <3>3, <3>4
      <4> HIDE DEF a, b, c, d
      <4>2. R * (a + b) = R * a + R * b /\ (c + d) * W = c * W + d * W
        BY <4>1, Distribute
      <4>3. R * a \in Nat /\ R * b \in Nat /\ c * W \in Nat /\ d * W \in Nat
        BY <4>1, TimesNat
      <4>4. R * (a + b) < (c + d) * W
        BY <4>1, <4>2, <4>3
      <4> QED
        BY <4>1, <4>4
    <3> QED
      BY <2>2, <3>5
  <2> QED
    BY <2>1, <2>2
<1> HIDE DEF P
<1>3. D \in P
  <2>1. \A s \in SUBSET D : s \in P
    BY <1>2, SubsetInduction
  <2> QED
    BY <2>1
<1> QED
  BY <1>3 DEF P, F, G

\* With a higher level fewer seats are active.
LEMMA HigherLevelCapsMore ==
    ASSUME NEW budget \in Nat, NEW crash, NEW seats, SeatsOK(seats), NEW m, NEW n,
           GoodLevel(budget, crash, seats, m), Stable(seats, m), m.active # {},
           GoodLevel(budget, crash, seats, n), Stable(seats, n), n.active # {},
           m.remaining * n.weight <= n.remaining * m.weight
    PROVE  n.active \subseteq m.active
<1> SUFFICES ASSUME NEW i \in n.active, i \notin m.active PROVE FALSE
  OBVIOUS
<1> DEFINE R == m.remaining
           W == m.weight
           Q == n.remaining
           V == n.weight
           s == seats[i].stake
           c == Headroom(seats, i)
<1>1. i \in DOMAIN seats /\ i \in Survivor(seats, crash) \ m.active
  BY DEF GoodLevel, Survivor
<1>2. s \in Nat \ {0} /\ c \in Nat
  BY <1>1, SeatFacts
<1>3. /\ R \in Nat /\ W \in Nat \ {0} /\ Q \in Nat /\ V \in Nat \ {0}
  BY LiftBounds
<1>4. c * W <= R * s
  BY <1>1 DEF GoodLevel
<1>5. Q * s < c * V
  <2>1. n.payouts[i] = FloorOf(seats[i])
    BY <1>1 DEF GoodLevel, HasGot, Survivor
  <2>2. ~(c * V <= Q * s)
    BY <2>1 DEF Stable, Reaches, Headroom
  <2> HIDE DEF Q, V, s, c
  <2>3. c * V \in Nat /\ Q * s \in Nat
    BY <1>2, <1>3, TimesNat
  <2> QED
    BY <2>2, <2>3
<1>6. R * V <= Q * W
  OBVIOUS
<1> HIDE DEF R, W, Q, V, s, c
<1>7. c * V <= Q * s
  BY <1>2, <1>3, <1>4, <1>6, StillReached
<1>8. c * V \in Nat /\ Q * s \in Nat
  BY <1>2, <1>3, TimesNat
<1> QED
  BY <1>5, <1>7, <1>8

\* So many seats are active at a level as at one that is not lower: what they
\* would have got more has to come out of the water.
LEMMA HigherLevelCapsNoMore ==
    ASSUME NEW budget \in Nat, NEW crash, NEW seats, SeatsOK(seats), NEW m, NEW n,
           GoodLevel(budget, crash, seats, m), Stable(seats, m), m.active # {},
           GoodLevel(budget, crash, seats, n), Stable(seats, n), n.active # {},
           m.remaining * n.weight <= n.remaining * m.weight
    PROVE  n.active = m.active
<1> DEFINE S == DOMAIN seats
           D == m.active \ n.active
           f == StakesOf(seats)
           g == [i \in S |-> IF i \in D THEN Headroom(seats, i) ELSE 0]
           R == m.remaining
           W == m.weight
           Q == n.remaining
           V == n.weight
           x == SumFunctionOnSet(f, D)
           y == SumFunctionOnSet(g, D)
<1>1. n.active \subseteq m.active
  BY HigherLevelCapsMore
<1>2. SUFFICES ASSUME D # {} PROVE FALSE
  BY <1>1
<1>3. /\ m \in Levels(seats) /\ n \in Levels(seats)
      /\ m.active \in SUBSET S /\ n.active \in SUBSET S /\ D \in SUBSET S
      /\ m.active \subseteq Survivor(seats, crash)
      /\ m.payouts \in [S -> Nat] /\ n.payouts \in [S -> Nat]
  BY DEF GoodLevel, Levels
<1>4. R \in Nat /\ W \in Nat \ {0} /\ Q \in Nat /\ V \in Nat \ {0}
  BY LiftBounds
<1>5. \A i \in S : /\ Headroom(seats, i) \in Nat /\ f[i] \in Nat
                   /\ f[i] = seats[i].stake
                   /\ CapOf(seats[i]) = FloorOf(seats[i]) + Headroom(seats, i)
                   /\ CapOf(seats[i]) \in Nat /\ FloorOf(seats[i]) \in Nat
  BY SeatFacts DEF StakesOf
<1>6. /\ \A i \in S : g[i] = IF i \in D THEN Headroom(seats, i) ELSE 0
      /\ \A i \in S : g[i] \in Nat
  BY <1>5
<1>7. IsFiniteSet(S) /\ IsFiniteSet(D) /\ IsFiniteSet(m.active)
  <2> HIDE DEF D, S
  <2> QED
    BY <1>3, SeatsFinite, FS_Subset DEF S
<1>8. W = V + x
  <2>1. /\ W = SumFunctionOnSet(f, m.active) /\ V = SumFunctionOnSet(f, n.active)
    BY DEF GoodLevel
  <2> DEFINE u == [i \in m.active |-> IF i \in n.active THEN f[i] ELSE 0]
             v == [i \in m.active |-> IF i \in D THEN f[i] ELSE 0]
             A == m.active
             B == n.active
  <2>2. \A i \in A : /\ u[i] = IF i \in B THEN f[i] ELSE 0
                     /\ v[i] = IF i \in D THEN f[i] ELSE 0
                     /\ f[i] \in Nat /\ (i \in D <=> i \notin B)
    BY <1>3, <1>5
  <2>3. /\ A \in SUBSET S /\ B \in SUBSET A /\ D \in SUBSET A /\ IsFiniteSet(A)
        /\ IsFiniteSet(B)
    BY <1>1, <1>3, <1>7, FS_Subset
  <2> HIDE DEF u, v, f, A, B, D
  <2>4. /\ IntOn(f, A) /\ IntOn(u, A) /\ IntOn(v, A) /\ IntOn(f, B) /\ IntOn(f, D)
        /\ \A i \in A : f[i] = u[i] + v[i]
        /\ \A i \in A : i \notin B => u[i] = 0
        /\ \A i \in A : i \notin D => v[i] = 0
        /\ \A i \in B : f[i] = u[i]
        /\ \A i \in D : f[i] = v[i]
    BY <2>2, <2>3 DEF IntOn
  <2>5. SumFunctionOnSet(f, A) = SumFunctionOnSet(u, A) + SumFunctionOnSet(v, A)
    BY <2>3, <2>4, SumAdd
  <2>6. SumFunctionOnSet(u, A) = SumFunctionOnSet(u, B)
    BY <2>3, <2>4, SumRestrict
  <2>7. SumFunctionOnSet(v, A) = SumFunctionOnSet(v, D)
    BY <2>3, <2>4, SumRestrict
  <2>8. /\ SumFunctionOnSet(f, B) = SumFunctionOnSet(u, B)
        /\ SumFunctionOnSet(f, D) = SumFunctionOnSet(v, D)
    BY <1>7, <2>3, <2>4, SumAgree
  <2> QED
    BY <2>1, <2>5, <2>6, <2>7, <2>8 DEF A, B
<1>9. R = Q + y
  <2> DEFINE p == m.payouts
             q == n.payouts
  <2>1. \A i \in S : q[i] = p[i] + g[i]
    <3>1. ASSUME NEW i \in S PROVE q[i] = p[i] + g[i]
      <4>1. p[i] = HasGot(crash, seats, m, i) /\ q[i] = HasGot(crash, seats, n, i)
        BY DEF GoodLevel
      <4>2. i \in m.active => Survives(seats[i], crash)
        BY <1>3 DEF Survivor
      <4>3. g[i] = IF i \in D THEN Headroom(seats, i) ELSE 0
        BY <1>6
      <4> HIDE DEF g, p, q
      <4> QED
        BY <1>1, <1>5, <4>1, <4>2, <4>3 DEF HasGot
    <3> QED
      BY <3>1
  <2>2. R + Total(p) = budget /\ Q + Total(q) = budget
    BY DEF GoodLevel
  <2>3. /\ Total(p) \in Nat /\ Total(p) = SumFunctionOnSet(p, S) /\ IntOn(p, S)
        /\ Total(q) \in Nat /\ Total(q) = SumFunctionOnSet(q, S)
    BY <1>3, LevelSums
  <2> HIDE DEF p, q, g, S, D
  <2>4. IntOn(g, S) /\ \A i \in S : i \notin D => g[i] = 0
    BY <1>6 DEF IntOn
  <2>5. SumFunctionOnSet(q, S) = SumFunctionOnSet(p, S) + SumFunctionOnSet(g, S)
    BY <1>7, <2>1, <2>3, <2>4, SumAdd
  <2>6. SumFunctionOnSet(g, S) = y
    BY <1>3, <1>7, <2>4, SumRestrict
  <2>7. y \in Int
    <3>1. IntOn(g, D)
      BY <1>3, <2>4 DEF IntOn
    <3> QED
      BY <1>7, <3>1, SumChosen
  <2>8. Total(q) = Total(p) + y
    BY <2>3, <2>5, <2>6
  <2> HIDE DEF y, R, Q
  <2> QED
    BY <1>4, <2>2, <2>3, <2>7, <2>8
<1>10. R * x < y * W
  <2>1. ASSUME NEW i \in D PROVE f[i] \in Nat /\ g[i] \in Nat /\ R * f[i] < g[i] * W
    <3> DEFINE s == seats[i].stake
               c == Headroom(seats, i)
    <3>1. i \in S /\ i \in m.active
      BY <1>3
    <3>2. f[i] = s /\ g[i] = c /\ s \in Nat /\ c \in Nat
      BY <1>5, <1>6, <3>1
    <3>3. m.payouts[i] = FloorOf(seats[i])
      BY <1>3, <3>1 DEF GoodLevel, HasGot, Survivor
    <3>4. ~(c * W <= R * s)
      BY <3>1, <3>3 DEF Stable, Reaches, Headroom
    <3> HIDE DEF R, W, s, c, f, g
    <3>5. c * W \in Nat /\ R * s \in Nat
      BY <1>4, <3>2, TimesNat
    <3> QED
      BY <3>2, <3>4, <3>5
  <2> HIDE DEF D, f, g, R, W
  <2> QED
    BY <1>2, <1>4, <1>7, <2>1, SumExceeds
<1>11. x \in Nat /\ y \in Nat
  <2> HIDE DEF D, f, g
  <2>1. \A i \in D : f[i] \in Nat /\ g[i] \in Nat
    BY <1>3, <1>5, <1>6
  <2> QED
    BY <1>7, <2>1, SumNatural
<1>12. R * V <= Q * W
  OBVIOUS
<1> HIDE DEF R, W, Q, V, x, y
<1>13. /\ R * W = R * V + R * x
       /\ R * W = Q * W + y * W
  <2>1. R * W = R * (V + x) /\ R * (V + x) = R * V + R * x
    BY <1>4, <1>8, <1>11, Distribute
  <2>2. R * W = (Q + y) * W /\ (Q + y) * W = Q * W + y * W
    BY <1>4, <1>9, <1>11, Distribute
  <2> QED
    BY <2>1, <2>2
<1>14. R * V \in Nat /\ R * x \in Nat /\ Q * W \in Nat /\ y * W \in Nat
  BY <1>4, <1>11, TimesNat
<1> QED
  BY <1>10, <1>12, <1>13, <1>14

\* The water has one level only.
LEMMA LevelUnique ==
    ASSUME NEW budget \in Nat, NEW crash, NEW seats, SeatsOK(seats), NEW m, NEW n,
           GoodLevel(budget, crash, seats, m), Stable(seats, m), m.active # {},
           GoodLevel(budget, crash, seats, n), Stable(seats, n), n.active # {}
    PROVE  m = n
<1>1. /\ m.remaining \in Nat /\ m.weight \in Nat
      /\ n.remaining \in Nat /\ n.weight \in Nat
      /\ m \in Levels(seats) /\ n \in Levels(seats)
      /\ m.payouts \in [DOMAIN seats -> Nat] /\ n.payouts \in [DOMAIN seats -> Nat]
  BY DEF GoodLevel, Levels
<1>2. m.active = n.active
  <2> DEFINE p == m.remaining * n.weight
             q == n.remaining * m.weight
  <2>1. p \in Nat /\ q \in Nat
    BY <1>1, TimesNat
  <2>2. p <= q \/ q <= p
    <3> HIDE DEF p, q
    <3> QED
      BY <2>1
  <2>3. p <= q => n.active = m.active
    BY HigherLevelCapsNoMore
  <2>4. q <= p => m.active = n.active
    BY HigherLevelCapsNoMore
  <2> QED
    BY <2>2, <2>3, <2>4
<1>3. m.payouts = n.payouts
  <2>1. \A i \in DOMAIN seats : m.payouts[i] = n.payouts[i]
    BY <1>2 DEF GoodLevel, HasGot
  <2> QED
    BY <1>1, <2>1
<1>4. m.weight = n.weight
  BY <1>2 DEF GoodLevel
<1>5. m.remaining = n.remaining
  <2> DEFINE t == Total(m.payouts)
  <2>1. m.remaining + t = budget /\ n.remaining + t = budget /\ t \in Nat
    BY <1>1, <1>3, LevelSums DEF GoodLevel
  <2> HIDE DEF t
  <2> QED
    BY <1>1, <2>1
<1> QED
  BY <1>1, <1>2, <1>3, <1>4, <1>5 DEF Levels

-----------------------------------------------------------------------------
(* Two seats in the other order                                            *)

Other(a, b, x) == IF x = a THEN b ELSE IF x = b THEN a ELSE x

\* g is f with a and b exchanged.
Exchanged(f, g, a, b) ==
    /\ a \in DOMAIN f /\ b \in DOMAIN f
    /\ DOMAIN g = DOMAIN f
    /\ \A x \in DOMAIN f : g[x] = f[Other(a, b, x)]

LEMMA OtherFacts ==
    ASSUME NEW S, NEW a \in S, NEW b \in S
    PROVE  \A x \in S : Other(a, b, x) \in S /\ Other(a, b, Other(a, b, x)) = x
BY DEF Other

\* g has at x what f has at the other place.
Mirrored(S, f, g, a, b) == \A x \in S : g[x] = f[Other(a, b, x)]

LEMMA TotalExchanged ==
    ASSUME NEW seats, SeatsOK(seats), NEW f \in [DOMAIN seats -> Nat],
           NEW g \in [DOMAIN seats -> Nat], NEW a \in DOMAIN seats,
           NEW b \in DOMAIN seats, Mirrored(DOMAIN seats, f, g, a, b)
    PROVE  Total(g) = Total(f)
<1> DEFINE S == DOMAIN seats
<1>1. IsFiniteSet(S) /\ IntOn(f, S)
  BY SeatsFinite, LevelSums
<1>2. g[a] = f[b] /\ g[b] = f[a] /\ \A z \in S : z # a /\ z # b => g[z] = f[z]
  BY DEF Other, Mirrored
<1>3. SumFunctionOnSet(g, S) = SumFunctionOnSet(f, S)
  BY <1>1, <1>2, SumSwap
<1> QED
  BY <1>3, LevelSums

\* The level of the one book, as the level of the other.
LevelExchanged(seats, level, a, b) ==
    [payouts   |-> [x \in DOMAIN seats |-> level.payouts[Other(a, b, x)]],
     remaining |-> level.remaining,
     weight    |-> level.weight,
     active    |-> {x \in DOMAIN seats : Other(a, b, x) \in level.active}]

LEMMA WeightExchanged ==
    ASSUME NEW seats, SeatsOK(seats), NEW seats2, SeatsOK(seats2), NEW a, NEW b,
           Exchanged(seats, seats2, a, b), NEW A \in SUBSET DOMAIN seats,
           NEW B, B = {x \in DOMAIN seats : Other(a, b, x) \in A}
    PROVE  SumFunctionOnSet(StakesOf(seats2), B) = SumFunctionOnSet(StakesOf(seats), A)
<1> DEFINE S == DOMAIN seats
           f == StakesOf(seats)
           g == StakesOf(seats2)
           u == [i \in S |-> IF i \in A THEN f[i] ELSE 0]
           v == [i \in S |-> IF i \in B THEN g[i] ELSE 0]
<1>1. /\ DOMAIN seats2 = S /\ a \in S /\ b \in S
      /\ \A x \in S : Other(a, b, x) \in S /\ seats2[x] = seats[Other(a, b, x)]
      /\ A \in SUBSET S /\ B \in SUBSET S
  BY OtherFacts DEF Exchanged
<1>2. \A x \in S : /\ f[x] = seats[x].stake /\ g[x] = seats2[x].stake
                   /\ f[x] \in Nat /\ g[x] \in Nat
  BY <1>1, SeatFacts DEF StakesOf
<1>3. \A x \in S : /\ g[x] = f[Other(a, b, x)]
                   /\ (x \in B <=> Other(a, b, x) \in A)
  BY <1>1, <1>2
<1>4. /\ u \in [S -> Nat] /\ v \in [S -> Nat]
      /\ \A x \in S : u[x] = IF x \in A THEN f[x] ELSE 0
      /\ \A x \in S : v[x] = IF x \in B THEN g[x] ELSE 0
  BY <1>2
<1>5. \A x \in S : v[x] = u[Other(a, b, x)]
  <2> HIDE DEF u, v, f, g
  <2> QED
    BY <1>1, <1>3, <1>4
<1> HIDE DEF u, v, f, g
<1>6. Total(v) = Total(u)
  <2>1. Mirrored(S, u, v, a, b)
    BY <1>5 DEF Mirrored
  <2> QED
    BY <1>1, <1>4, <2>1, TotalExchanged
<1>7. SumFunctionOnSet(v, S) = SumFunctionOnSet(u, S) /\ IntOn(u, S) /\ IntOn(v, S)
  BY <1>4, <1>6, LevelSums
<1>8. IsFiniteSet(S) /\ IsFiniteSet(A) /\ IsFiniteSet(B)
  BY <1>1, SeatsFinite, FS_Subset
<1> HIDE DEF S
<1>9. /\ IntOn(f, A) /\ IntOn(g, B)
      /\ \A x \in A : f[x] = u[x]
      /\ \A x \in B : g[x] = v[x]
      /\ \A x \in S : x \notin A => u[x] = 0
      /\ \A x \in S : x \notin B => v[x] = 0
  BY <1>1, <1>2, <1>4 DEF IntOn
<1>10. /\ SumFunctionOnSet(u, S) = SumFunctionOnSet(u, A)
       /\ SumFunctionOnSet(v, S) = SumFunctionOnSet(v, B)
  BY <1>1, <1>7, <1>8, <1>9, SumRestrict
<1>11. /\ SumFunctionOnSet(f, A) = SumFunctionOnSet(u, A)
       /\ SumFunctionOnSet(g, B) = SumFunctionOnSet(v, B)
  BY <1>8, <1>9, SumAgree
<1> QED
  BY <1>7, <1>10, <1>11 DEF f, g

LEMMA GoodExchanged ==
    ASSUME NEW budget \in Nat, NEW crash, NEW seats, SeatsOK(seats),
           NEW seats2, SeatsOK(seats2), NEW a, NEW b,
           Exchanged(seats, seats2, a, b), NEW level,
           GoodLevel(budget, crash, seats, level), Stable(seats, level),
           level.active # {}, NEW m, m = LevelExchanged(seats, level, a, b)
    PROVE  /\ GoodLevel(budget, crash, seats2, m)
           /\ Stable(seats2, m)
           /\ m.active # {}
<1> DEFINE S == DOMAIN seats
           O(x) == Other(a, b, x)
<1>1. /\ DOMAIN seats2 = S /\ a \in S /\ b \in S
      /\ \A x \in S : O(x) \in S /\ O(O(x)) = x /\ seats2[x] = seats[O(x)]
  BY OtherFacts DEF Exchanged
<1>2. /\ level \in Levels(seats) /\ level.payouts \in [S -> Nat]
      /\ level.remaining \in Nat /\ level.weight \in Nat /\ level.active \in SUBSET S
      /\ level.active \subseteq Survivor(seats, crash)
  BY DEF GoodLevel, Levels
<1>3. /\ m.remaining = level.remaining /\ m.weight = level.weight
      /\ m.payouts = [x \in S |-> level.payouts[O(x)]]
      /\ m.active = {x \in S : O(x) \in level.active}
      /\ m = [payouts |-> m.payouts, remaining |-> m.remaining,
              weight |-> m.weight, active |-> m.active]
  BY DEF LevelExchanged
<1> HIDE DEF O
<1>4. /\ m.payouts \in [S -> Nat]
      /\ \A x \in S : m.payouts[x] = level.payouts[O(x)]
      /\ \A x \in S : x \in m.active <=> O(x) \in level.active
      /\ m.active \in SUBSET S
  BY <1>1, <1>2, <1>3
<1>5. m \in Levels(seats2)
  BY <1>1, <1>2, <1>3, <1>4 DEF Levels
<1>6. \A x \in S : /\ x \in Survivor(seats2, crash) <=> O(x) \in Survivor(seats, crash)
                   /\ Survives(seats2[x], crash) <=> Survives(seats[O(x)], crash)
                   /\ FloorOf(seats2[x]) = FloorOf(seats[O(x)])
                   /\ CapOf(seats2[x]) = CapOf(seats[O(x)])
                   /\ Headroom(seats2, x) = Headroom(seats, O(x))
                   /\ seats2[x].stake = seats[O(x)].stake
  BY <1>1 DEF Survivor, Headroom
<1>7. m.active \subseteq Survivor(seats2, crash)
  BY <1>2, <1>4, <1>6
<1>8. ASSUME NEW x \in S PROVE m.payouts[x] = HasGot(crash, seats2, m, x)
  <2>1. O(x) \in S /\ level.payouts[O(x)] = HasGot(crash, seats, level, O(x))
    BY <1>1 DEF GoodLevel
  <2> QED
    BY <1>4, <1>6, <2>1 DEF HasGot
<1>9. m.remaining + Total(m.payouts) = budget
  <2>1. Total(m.payouts) = Total(level.payouts)
    <3>1. Mirrored(S, level.payouts, m.payouts, a, b)
      BY <1>4 DEF Mirrored, O
    <3> QED
      BY <1>1, <1>2, <1>4, <3>1, TotalExchanged
  <2> QED
    BY <1>3, <2>1 DEF GoodLevel
<1>10. m.weight = SumFunctionOnSet(StakesOf(seats2), m.active)
  <2>1. SumFunctionOnSet(StakesOf(seats2), m.active)
          = SumFunctionOnSet(StakesOf(seats), level.active)
    BY <1>2, <1>3, WeightExchanged DEF O
  <2> QED
    BY <1>3, <2>1 DEF GoodLevel
<1>11. ASSUME NEW x \in Survivor(seats2, crash) \ m.active
       PROVE  Headroom(seats2, x) * m.weight <= m.remaining * seats2[x].stake
  <2>1. x \in S /\ O(x) \in Survivor(seats, crash) \ level.active
    BY <1>1, <1>4, <1>6, <1>11 DEF Survivor
  <2>2. Headroom(seats, O(x)) * level.weight <= level.remaining * seats[O(x)].stake
    BY <2>1 DEF GoodLevel
  <2> QED
    BY <1>3, <1>6, <2>1, <2>2
<1>12. Stable(seats2, m)
  <2>1. ASSUME NEW x \in m.active PROVE ~Reaches(seats2, m, x)
    <3>1. x \in S /\ O(x) \in level.active
      BY <1>4
    <3>2. ~Reaches(seats, level, O(x))
      BY <3>1 DEF Stable
    <3>3. /\ CapOf(seats2[x]) = CapOf(seats[O(x)])
          /\ m.payouts[x] = level.payouts[O(x)]
          /\ seats2[x].stake = seats[O(x)].stake
      BY <1>4, <1>6, <3>1
    <3> QED
      BY <1>3, <3>2, <3>3 DEF Reaches
  <2> QED
    BY <2>1 DEF Stable
<1>13. m.active # {}
  <2>1. PICK x \in level.active : TRUE
    OBVIOUS
  <2>2. O(x) \in S /\ O(O(x)) = x
    BY <1>1, <1>2
  <2> QED
    BY <1>4, <2>1, <2>2
<1> QED
  BY <1>1, <1>5, <1>7, <1>8, <1>9, <1>10, <1>11, <1>12, <1>13 DEF GoodLevel


\* Two seats in the other order are paid the same.
LEMMA PayoutsExchanged ==
    ASSUME NEW budget, NEW crash, NEW seats, Fundable(budget, crash, seats),
           NEW seats2, SeatsOK(seats2), NEW a, NEW b, Exchanged(seats, seats2, a, b),
           NEW P, P = Payouts(budget, crash, seats),
           NEW Q, Q = Payouts(budget, crash, seats2)
    PROVE  /\ P \in [DOMAIN seats -> Nat] /\ Q \in [DOMAIN seats -> Nat]
           /\ Mirrored(DOMAIN seats, P, Q, a, b)
<1> DEFINE S == DOMAIN seats
           O(x) == Other(a, b, x)
           caps == OfSurvivors(seats, crash, Caps(seats))
           caps2 == OfSurvivors(seats2, crash, Caps(seats2))
           floors == OfSurvivors(seats, crash, Floors(seats))
           floors2 == OfSurvivors(seats2, crash, Floors(seats2))
<1>1. /\ DOMAIN seats2 = S /\ a \in S /\ b \in S
      /\ \A x \in S : O(x) \in S /\ seats2[x] = seats[O(x)]
      /\ SeatsOK(seats) /\ budget \in Nat
  BY OtherFacts DEF Exchanged, Fundable
<1>2. /\ caps \in [S -> Nat] /\ caps2 \in [S -> Nat]
      /\ floors \in [S -> Nat] /\ floors2 \in [S -> Nat]
  BY <1>1, SeatAmounts, SurvivorSum
<1>3. Mirrored(S, caps, caps2, a, b) /\ Mirrored(S, floors, floors2, a, b)
  BY <1>1 DEF Mirrored, OfSurvivors, Caps, Floors
<1>4. Total(caps2) = Total(caps) /\ Total(floors2) = Total(floors)
  <2> HIDE DEF caps, caps2, floors, floors2
  <2> QED
    BY <1>1, <1>2, <1>3, TotalExchanged
<1>5. Fundable(budget, crash, seats2)
  BY <1>1, <1>4 DEF Fundable
<1>6. P \in [S -> Nat] /\ Q \in [S -> Nat]
  BY <1>1, <1>5, PaidWithinBounds
<1>7. Total(caps) \in Nat
  BY <1>1, SeatAmounts, SurvivorSum
<1> HIDE DEF O
<1>8. CASE Total(caps) <= budget
  <2>1. P = caps /\ Q = caps2
    <3>1. budget >= Total(caps) /\ budget >= Total(caps2)
      BY <1>1, <1>4, <1>7, <1>8
    <3> QED
      BY <3>1 DEF Payouts
  <2> QED
    BY <1>3, <1>6, <2>1
<1>9. CASE budget < Total(caps)
  <2>0. ~(Total(caps) <= budget) /\ ~(Total(caps2) <= budget)
    BY <1>1, <1>4, <1>7, <1>9
  <2>1. /\ \E l : Settled(budget, crash, seats, l)
        /\ \E l : Settled(budget, crash, seats2, l)
    BY <1>5, <2>0, PayoutsSplit
  <2>2. PICK l : Settled(budget, crash, seats, l)
    BY <2>1
  <2>3. PICK m : Settled(budget, crash, seats2, m)
    BY <2>1
  <2> DEFINE n == LevelExchanged(seats, l, a, b)
  <2>4. /\ GoodLevel(budget, crash, seats, l) /\ Stable(seats, l) /\ l.active # {}
        /\ GoodLevel(budget, crash, seats2, m) /\ Stable(seats2, m) /\ m.active # {}
    BY <2>2, <2>3 DEF Settled
  <2>5. GoodLevel(budget, crash, seats2, n) /\ Stable(seats2, n) /\ n.active # {}
    BY <1>1, <2>4, GoodExchanged
  <2>6. m = n
    BY <1>1, <2>4, <2>5, LevelUnique
  <2>7. /\ m.remaining = l.remaining /\ m.weight = l.weight
        /\ \A x \in S : x \in m.active <=> O(x) \in l.active
        /\ l.active \subseteq S
    BY <2>4, <2>6 DEF LevelExchanged, O, GoodLevel, Levels
  <2>8. /\ \A i \in l.active : P[i] - FloorOf(seats[i]) = Lifted(seats, l, i)
        /\ \A i \in Survivor(seats, crash) \ l.active : P[i] = CapOf(seats[i])
        /\ \A i \in S : ~Survives(seats[i], crash) => P[i] = 0
        /\ l.active \subseteq Survivor(seats, crash)
    BY <1>1, <2>2, <2>4, SettledSeats DEF GoodLevel
  <2>9. /\ \A i \in m.active : Q[i] - FloorOf(seats2[i]) = Lifted(seats2, m, i)
        /\ \A i \in Survivor(seats2, crash) \ m.active : Q[i] = CapOf(seats2[i])
        /\ \A i \in S : ~Survives(seats2[i], crash) => Q[i] = 0
    BY <1>1, <2>3, SettledSeats
  <2>10. ASSUME NEW x \in S PROVE Q[x] = P[O(x)]
    <3>1. /\ O(x) \in S /\ seats2[x] = seats[O(x)]
          /\ P[O(x)] \in Nat /\ Q[x] \in Nat
      BY <1>1, <1>6
    <3>2. CASE ~Survives(seats[O(x)], crash)
      BY <2>8, <2>9, <3>1, <3>2
    <3>3. CASE x \in m.active
      <4>1. O(x) \in l.active
        BY <2>7, <3>3
      <4>2. Lifted(seats2, m, x) = Lifted(seats, l, O(x))
        BY <2>7, <3>1 DEF Lifted
      <4>3. /\ Q[x] - FloorOf(seats2[x]) = Lifted(seats2, m, x)
            /\ P[O(x)] - FloorOf(seats[O(x)]) = Lifted(seats, l, O(x))
        BY <2>8, <2>9, <3>3, <4>1
      <4>4. FloorOf(seats2[x]) = FloorOf(seats[O(x)]) /\ FloorOf(seats[O(x)]) \in Nat
        BY <1>1, <3>1, SeatFacts
      <4> QED
        BY <3>1, <4>2, <4>3, <4>4
    <3>4. CASE Survives(seats[O(x)], crash) /\ x \notin m.active
      <4>1. /\ O(x) \in Survivor(seats, crash) \ l.active
            /\ x \in Survivor(seats2, crash) \ m.active
        BY <1>1, <2>7, <3>1, <3>4 DEF Survivor
      <4>2. Q[x] = CapOf(seats2[x]) /\ P[O(x)] = CapOf(seats[O(x)])
        BY <2>8, <2>9, <4>1
      <4> QED
        BY <3>1, <4>2
    <3> QED
      BY <3>2, <3>3, <3>4
  <2> QED
    BY <1>6, <2>10 DEF Mirrored, O
<1> QED
  BY <1>1, <1>6, <1>7, <1>8, <1>9

=============================================================================
