-------------------------- MODULE CappedPoolProofs --------------------------
(***************************************************************************)
(* CappedPoolBooks' four promises of the settlement, for every book of any *)
(* length, every pair of purses and every crash: the facts about the       *)
(* water-filling are PoolMathProofs'; here they are read off the result of *)
(* settle.                                                                 *)
(***************************************************************************)
EXTENDS CappedPoolBooks, PoolMathProofs

\* The states a behaviour reaches: a book of placed seats, two purses.
BookInv ==
    /\ book \in Seq([stake : Stakes, targetBps : Targets])
    /\ d \in Nat /\ h \in Nat

LEMMA BookInvInit == PoolInit => BookInv
BY DEF PoolInit, BookInv

LEMMA BookInvNext == BookInv /\ [PoolNext]_poolVars => BookInv'
<1> SUFFICES ASSUME BookInv, [PoolNext]_poolVars PROVE BookInv'
  OBVIOUS
<1>1. CASE PoolNext
  <2>1. PICK stake \in Stakes, targetBps \in Targets : Bet(stake, targetBps)
    BY <1>1 DEF PoolNext
  <2> DEFINE seat == [stake |-> stake, targetBps |-> targetBps]
             T == [stake : Stakes, targetBps : Targets]
  <2>2. seat \in T /\ book' = Append(book, seat) /\ UNCHANGED <<d, h>>
    BY <2>1 DEF Bet
  <2>3. book \in Seq(T)
    BY DEF BookInv
  <2> HIDE DEF seat, T
  <2>4. book' \in Seq(T)
    BY <2>2, <2>3
  <2> QED
    BY <2>2, <2>4 DEF BookInv, T
<1>2. CASE UNCHANGED poolVars
  BY <1>2 DEF BookInv, poolVars
<1> QED
  BY <1>1, <1>2

LEMMA BooksReached == PoolSpec => []BookInv
BY BookInvInit, BookInvNext, PTL DEF PoolSpec

\* What settle lets through is a book the water-filling is proved for.
LEMMA SettledBook ==
    ASSUME BookInv, NEW crash, Settles(crash)
    PROVE  /\ Fundable(d + h, crash, book)
           /\ SeatsOK(book)
           /\ Len(book) \in Nat /\ DOMAIN book = 1..Len(book)
           /\ book \in [DOMAIN book -> [stake : Stakes, targetBps : Targets]]
<1> DEFINE T == [stake : Stakes, targetBps : Targets]
           n == Len(book)
<1>1. book \in [1..n -> T] /\ n \in Nat /\ DOMAIN book = 1..n
  <2>1. book \in Seq(T)
    BY DEF BookInv
  <2> HIDE DEF T
  <2> QED
    BY <2>1
<1>2. ASSUME NEW i \in DOMAIN book
      PROVE  /\ book[i].stake \in Nat \ {0}
             /\ book[i].targetBps \in Nat /\ book[i].targetBps > BPS
  <2>1. /\ book[i].stake \in 1..MAX_STAKE
        /\ book[i].targetBps \in MIN_TARGET_BPS..MAX_TARGET
    BY DEF Settles, ValidInput
  <2> DEFINE s == book[i].stake
             t == book[i].targetBps
  <2> HIDE DEF s, t
  <2>2. s \in Nat \ {0} /\ t \in Nat /\ t > BPS
    BY <2>1, PoolAssumption DEF s, t
  <2> QED
    BY <2>2 DEF s, t
<1>3. SeatsOK(book)
  BY <1>1, <1>2 DEF SeatsOK
<1>4. d + h \in Nat
  BY DEF BookInv
<1> QED
  BY <1>1, <1>3, <1>4 DEF Fundable, Settles, FloorFunded

-----------------------------------------------------------------------------
(* What settle pays                                                        *)

LEMMA SettlePays ==
    ASSUME NEW purse, NEW seed, NEW crash, NEW seats,
           NEW r, r = settle(purse, seed, crash, seats)
    PROVE  r.payouts = Payouts(purse + seed, crash, seats)
BY DEF settle

\* The purses are spent in turn, so their returns are what the payouts leave.
LEMMA SettleReturns ==
    ASSUME NEW purse \in Nat, NEW seed \in Nat, NEW crash, NEW seats,
           NEW paid \in Nat, paid = Total(Payouts(purse + seed, crash, seats)),
           paid <= purse + seed, NEW r, r = settle(purse, seed, crash, seats)
    PROVE  /\ r.houseReturned \in 0..seed
           /\ r.bustedToReserve \in 0..purse
           /\ r.houseReturned + r.bustedToReserve = purse + seed - paid
<1> DEFINE own == IF paid < purse THEN paid ELSE purse
<1>1. /\ r.houseReturned = seed - (paid - own)
      /\ r.bustedToReserve = purse - own
  BY DEF settle
<1> QED
  BY <1>1

\* THEOREM: in every state a survivor is paid between its floor and its cap and a
\* busted seat nothing, for every book, however long.
THEOREM PayoutsAreBounded == PoolSpec => []PayoutsBounded
<1>1. ASSUME BookInv PROVE PayoutsBounded
  <2> SUFFICES ASSUME NEW crash \in Crashes, Settles(crash), NEW i \in DOMAIN book
               PROVE  LET payouts == settle(d, h, crash, book).payouts IN
                      IF Survives(book[i], crash)
                      THEN payouts[i] \in FloorOf(book[i])..CapOf(book[i])
                      ELSE payouts[i] = 0
    BY DEF PayoutsBounded
  <2>1. Fundable(d + h, crash, book)
    BY <1>1, SettledBook
  <2>2. settle(d, h, crash, book).payouts = Payouts(d + h, crash, book)
    BY SettlePays
  <2> QED
    BY <2>1, <2>2, PaidWithinBounds
<1> QED
  BY <1>1, BooksReached, PTL

\* THEOREM: neither return underflows, and while a survivor is below the cap less
\* than one unit per such survivor is withheld.
THEOREM PotsAlwaysCover == PoolSpec => []PotsCover
<1>1. ASSUME BookInv PROVE PotsCover
  <2>1. ASSUME NEW crash \in Crashes, Settles(crash)
        PROVE  LET result == settle(d, h, crash, book)
                   below == Uncapped(crash, result.payouts)
                   kept == result.houseReturned + result.bustedToReserve
               IN /\ result.houseReturned \in 0..h
                  /\ result.bustedToReserve \in 0..d
                  /\ below # {} => kept < Cardinality(below)
    <3> DEFINE P == Payouts(d + h, crash, book)
               r == settle(d, h, crash, book)
    <3>0. d \in Nat /\ h \in Nat
      BY <1>1 DEF BookInv
    <3>1. Fundable(d + h, crash, book)
      BY <1>1, <2>1, SettledBook
    <3>2. r.payouts = P
      BY SettlePays
    <3>3. Uncapped(crash, r.payouts) = Below(crash, book, P)
      BY <3>2 DEF Uncapped, Survivors, Below, Survivor
    <3>4. /\ Total(P) \in Nat /\ Total(P) <= d + h
          /\ Below(crash, book, P) # {} =>
                d + h - Total(P) < Cardinality(Below(crash, book, P))
      <4> DEFINE budget == d + h
      <4>1. Fundable(budget, crash, book) /\ P = Payouts(budget, crash, book)
        BY <3>1
      <4> HIDE DEF budget, P
      <4>2. /\ Total(P) \in Nat /\ Total(P) <= budget
            /\ Below(crash, book, P) # {} =>
                  budget - Total(P) < Cardinality(Below(crash, book, P))
        BY <4>1, PaidWithinBudget
      <4> QED
        BY <3>0, <4>2 DEF budget
    <3>6. /\ r.houseReturned \in 0..h
          /\ r.bustedToReserve \in 0..d
          /\ r.houseReturned + r.bustedToReserve = d + h - Total(P)
      BY <3>0, <3>4, SettleReturns
    <3> HIDE DEF P, r
    <3> QED
      BY <3>3, <3>4, <3>6 DEF r
  <2> QED
    BY <2>1 DEF PotsCover
<1> QED
  BY <1>1, BooksReached, PTL

\* THEOREM: per unit of stake nobody is lifted further above the floor than a
\* survivor who is still below the cap, up to the rounding of one unit.
THEOREM SharesAreMaxMinFair == PoolSpec => []MaxMinFair
<1>1. ASSUME BookInv PROVE MaxMinFair
  <2>1. ASSUME NEW crash \in Crashes, Settles(crash)
        PROVE  LET payouts == settle(d, h, crash, book).payouts
                   Lift(i) == payouts[i] - FloorOf(book[i])
               IN \A i \in Survivors(crash), j \in Uncapped(crash, payouts) :
                     Lift(i) * book[j].stake < (Lift(j) + 1) * book[i].stake
    <3> DEFINE P == Payouts(d + h, crash, book)
    <3>1. Fundable(d + h, crash, book)
      BY <1>1, <2>1, SettledBook
    <3>2. settle(d, h, crash, book).payouts = P
      BY SettlePays
    <3>3. /\ Uncapped(crash, P) = Below(crash, book, P)
          /\ Survivors(crash) = Survivor(book, crash)
      BY DEF Uncapped, Survivors, Below, Survivor
    <3> HIDE DEF P
    <3>4. ASSUME NEW i \in Survivor(book, crash), NEW j \in Below(crash, book, P)
          PROVE  (P[i] - FloorOf(book[i])) * book[j].stake
                    < (P[j] - FloorOf(book[j]) + 1) * book[i].stake
      BY <3>1, PaidFairly DEF P
    <3> QED
      BY <3>2, <3>3, <3>4
  <2> QED
    BY <2>1 DEF MaxMinFair
<1> QED
  BY <1>1, BooksReached, PTL

\* THEOREM: two seats that had bet in the other order are paid the same; the loop
\* walks the seats in their order and stops after any number of passes, but the
\* level it reaches is the only one there is.
THEOREM OrderNeverMatters == PoolSpec => []OrderIrrelevant
<1>1. ASSUME BookInv PROVE OrderIrrelevant
  <2>1. ASSUME NEW crash \in Crashes, NEW i \in DOMAIN book, Settles(crash), i > 1
        PROVE  LET swapped == [book EXCEPT ![i] = book[i - 1], ![i - 1] = book[i]]
                   payouts == settle(d, h, crash, book).payouts
               IN settle(d, h, crash, swapped).payouts
                     = [payouts EXCEPT ![i] = payouts[i - 1], ![i - 1] = payouts[i]]
    <3> DEFINE j == i - 1
               S == DOMAIN book
               T == [stake : Stakes, targetBps : Targets]
               swapped == [book EXCEPT ![i] = book[j], ![j] = book[i]]
               P == Payouts(d + h, crash, book)
               Q == Payouts(d + h, crash, swapped)
    <3>1. /\ Fundable(d + h, crash, book) /\ SeatsOK(book)
          /\ Len(book) \in Nat /\ S = 1..Len(book)
          /\ book \in [S -> T]
      BY <1>1, <2>1, SettledBook
    <3>2. i \in S /\ j \in S /\ i # j
      BY <2>1, <3>1
    <3> HIDE DEF j, T
    <3>4. /\ swapped \in [S -> T]
          /\ \A x \in S : swapped[x] = book[Other(i, j, x)]
      BY <3>1, <3>2 DEF Other
    <3> HIDE DEF swapped
    <3>5. SeatsOK(swapped)
      <4>1. Len(swapped) = Len(book) /\ DOMAIN swapped = S
        <5>1. swapped \in Seq(T)
          BY <3>1, <3>4
        <5> QED
          BY <3>1, <3>4, <5>1
      <4>2. \A x \in S : Other(i, j, x) \in S /\ swapped[x] = book[Other(i, j, x)]
        BY <3>2, <3>4, OtherFacts
      <4> QED
        BY <3>1, <4>1, <4>2 DEF SeatsOK
    <3>6. Exchanged(book, swapped, i, j)
      BY <3>2, <3>4 DEF Exchanged
    <3>7. /\ P \in [S -> Nat] /\ Q \in [S -> Nat]
          /\ Mirrored(S, P, Q, i, j)
      BY <3>1, <3>5, <3>6, PayoutsExchanged
    <3>8. /\ settle(d, h, crash, book).payouts = P
          /\ settle(d, h, crash, swapped).payouts = Q
      BY SettlePays
    <3> HIDE DEF P, Q, S
    <3>9. Q = [P EXCEPT ![i] = P[j], ![j] = P[i]]
      BY <3>2, <3>7 DEF Mirrored, Other
    <3> QED
      BY <3>8, <3>9 DEF j, swapped
  <2> QED
    BY <2>1 DEF OrderIrrelevant
<1> QED
  BY <1>1, BooksReached, PTL

=============================================================================
