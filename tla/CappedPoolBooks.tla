-------------------------- MODULE CappedPoolBooks --------------------------
(***************************************************************************)
(* What the crash game promises of PlankCappedPoolMath.settle, checked for *)
(* every book within the bounds.  A behaviour builds a book seat by seat,  *)
(* in the order of the bets; each property looks at the settlement of the  *)
(* book at every crash.  A crash between two targets settles like the      *)
(* lower one.                                                              *)
(***************************************************************************)
EXTENDS PlankCappedPoolMath

CONSTANTS
    Stakes,      \* stakes that are placed
    Targets,     \* targets that are chosen
    MaxBook,     \* BOUND: seats of a book
    MaxBudget    \* BOUND: either purse

VARIABLES
    book,   \* the seats
    d,      \* the players' purse
    h       \* the house's purse, the round's seed

poolVars == <<book, d, h>>

PoolInit ==
    /\ book = <<>>
    /\ d \in 0..MaxBudget
    /\ h \in 0..MaxBudget

Bet(stake, targetBps) ==
    /\ Len(book) < MaxBook
    /\ book' = Append(book, [stake |-> stake, targetBps |-> targetBps])
    /\ UNCHANGED <<d, h>>

PoolNext == \E stake \in Stakes, targetBps \in Targets : Bet(stake, targetBps)

PoolSpec == PoolInit /\ [][PoolNext]_poolVars

-----------------------------------------------------------------------------
(* Correctness                                                             *)

Crashes == {BPS} \cup Targets

Settles(crash) == ValidInput(d, h, crash, book) /\ FloorFunded(d, h, crash, book)

Survivors(crash) == {i \in DOMAIN book : Survives(book[i], crash)}

Uncapped(crash, payouts) == {i \in Survivors(crash) : payouts[i] < CapOf(book[i])}

\* A survivor gets its floor at least and its cap at most, a busted seat gets
\* nothing, whatever the order in which the loop caps the seats.
PayoutsBounded ==
    \A crash \in Crashes : Settles(crash) =>
        LET payouts == settle(d, h, crash, book).payouts IN
        \A i \in DOMAIN book :
            IF Survives(book[i], crash)
            THEN payouts[i] \in FloorOf(book[i])..CapOf(book[i])
            ELSE payouts[i] = 0

\* The two purses cover the payouts: neither return underflows.  And nothing
\* is withheld: while a survivor is below its cap, less than one unit per such
\* survivor stays behind.
PotsCover ==
    \A crash \in Crashes : Settles(crash) =>
        LET result == settle(d, h, crash, book)
            below == Uncapped(crash, result.payouts)
            kept == result.houseReturned + result.bustedToReserve
        IN /\ result.houseReturned \in 0..h
           /\ result.bustedToReserve \in 0..d
           /\ below # {} => kept < Cardinality(below)

\* The water stands equally high: per unit of stake nobody was lifted further
\* above the floor than a survivor who is still below the cap, up to rounding.
MaxMinFair ==
    \A crash \in Crashes : Settles(crash) =>
        LET payouts == settle(d, h, crash, book).payouts
            Lift(i) == payouts[i] - FloorOf(book[i])
        IN \A i \in Survivors(crash), j \in Uncapped(crash, payouts) :
              Lift(i) * book[j].stake < (Lift(j) + 1) * book[i].stake

\* "Position ordering can change attribution, never the position's total
\* payout": two seats that had bet in the other order are paid the same.
OrderIrrelevant ==
    \A crash \in Crashes, i \in DOMAIN book : (Settles(crash) /\ i > 1) =>
        LET swapped == [book EXCEPT ![i] = book[i - 1], ![i - 1] = book[i]]
            payouts == settle(d, h, crash, book).payouts
        IN settle(d, h, crash, swapped).payouts
              = [payouts EXCEPT ![i] = payouts[i - 1], ![i - 1] = payouts[i]]

=============================================================================
