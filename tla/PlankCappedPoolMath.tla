------------------------ MODULE PlankCappedPoolMath ------------------------
(***************************************************************************)
(* contracts/lib/PlankCappedPoolMath.sol: how the pot of a crash round is  *)
(* shared.  Every seat whose target the crash reaches gets a floor; what   *)
(* is left rises over these survivors like water, in proportion to their   *)
(* stakes, and no seat gets more than its cap.  The library is pure: settle *)
(* is a function, its loop a recursive function of the number of passes.   *)
(***************************************************************************)
EXTENDS Integers, SequencesExt

CONSTANTS
    BPS,              \* basis points in one
    MIN_TARGET_BPS,   \* the least target a seat may have
    MAX_TARGET,       \* 1e8: the greatest crash and the greatest target
    MAX_STAKE,        \* the greatest stake of a seat
    MAX_POT,          \* the greatest purse, seed and total of stakes
    MAX_SEATS,        \* 256
    floorBps          \* params.floorBps: a survivor's floor

ASSUME PoolAssumption ==
    /\ BPS \in Nat \ {0}
    /\ {MIN_TARGET_BPS, MAX_TARGET, MAX_STAKE, MAX_POT, MAX_SEATS} \subseteq Nat
    /\ MIN_TARGET_BPS > BPS
    /\ floorBps \in 0..BPS

-----------------------------------------------------------------------------
(* One seat                                                                *)

Survives(seat, crash) == seat.targetBps <= crash

CapOf(seat) == (seat.stake * seat.targetBps) \div BPS

FloorOf(seat) == (seat.stake * floorBps) \div BPS

Total(amounts) == SumFunctionOnSet(amounts, DOMAIN amounts)

Caps(seats) == [i \in DOMAIN seats |-> CapOf(seats[i])]
Floors(seats) == [i \in DOMAIN seats |-> FloorOf(seats[i])]
StakesOf(seats) == [i \in DOMAIN seats |-> seats[i].stake]

\* The amounts of the seats that survive, busted seats have nothing.
OfSurvivors(seats, crash, amounts) ==
    [i \in DOMAIN seats |-> IF Survives(seats[i], crash) THEN amounts[i] ELSE 0]

\* The reverts of settle: InvalidInput and FloorNotFunded.
ValidInput(purse, seed, crash, seats) ==
    /\ Len(seats) <= MAX_SEATS
    /\ purse <= MAX_POT /\ seed <= MAX_POT
    /\ crash \in BPS..MAX_TARGET
    /\ \A i \in DOMAIN seats :
          /\ seats[i].stake \in 1..MAX_STAKE
          /\ seats[i].targetBps \in MIN_TARGET_BPS..MAX_TARGET
    /\ Total(StakesOf(seats)) <= MAX_POT

FloorFunded(purse, seed, crash, seats) ==
    Total(OfSurvivors(seats, crash, Floors(seats))) <= purse + seed

-----------------------------------------------------------------------------
(* The water-filling                                                       *)

\* Before the first pass: the floors are paid, every survivor is active.
Start(budget, crash, seats) ==
    LET floors == OfSurvivors(seats, crash, Floors(seats)) IN
    [payouts   |-> floors,
     remaining |-> budget - Total(floors),
     weight    |-> Total(OfSurvivors(seats, crash, StakesOf(seats))),
     active    |-> {i \in DOMAIN seats : Survives(seats[i], crash)}]

\* Bug: the seat is done, its part of the water stays.
CapForFree(seats, level, i) ==
    [level EXCEPT !.payouts[i] = CapOf(seats[i]),
                  !.weight = @ - seats[i].stake,
                  !.active = @ \ {i}]

\* Bug: the water is shared with seats that are done.
CapKeepsWeight(seats, level, i) ==
    [level EXCEPT !.payouts[i] = CapOf(seats[i]),
                  !.remaining = @ - (CapOf(seats[i]) - level.payouts[i]),
                  !.active = @ \ {i}]

\* The water would lift seat i to its cap: it gets the cap and is done.
Cap(seats, level, i) ==
    [level EXCEPT !.payouts[i] = CapOf(seats[i]),
                  !.remaining = @ - (CapOf(seats[i]) - level.payouts[i]),
                  !.weight = @ - seats[i].stake,
                  !.active = @ \ {i}]

\* Bug: first come, first served: whoever can be filled is filled.
ReachesGreedily(seats, level, i) ==
    CapOf(seats[i]) - level.payouts[i] <= level.remaining

Reaches(seats, level, i) ==
    (CapOf(seats[i]) - level.payouts[i]) * level.weight
        <= level.remaining * seats[i].stake

Visit(seats, level, i) ==
    IF i \in level.active /\ Reaches(seats, level, i)
    THEN Cap(seats, level, i)
    ELSE level

Pass(seats, level) ==
    FoldLeft(LAMBDA l, i : Visit(seats, l, i), level, [i \in DOMAIN seats |-> i])

\* Bug: one walk over the seats is thought to be enough.
SinglePass(seats) == 1

\* The loop ends after a pass that caps nobody, so after one pass per seat at
\* most; a pass more changes nothing.
Passes(seats) == Len(seats)

Filled(budget, crash, seats) ==
    LET after[n \in 0..Passes(seats)] ==
            IF n = 0 THEN Start(budget, crash, seats) ELSE Pass(seats, after[n - 1])
    IN after[Passes(seats)]

\* What is left is shared among those whom it does not lift to their cap.
Share(seats, level) ==
    [i \in DOMAIN seats |->
        IF i \in level.active
        THEN level.payouts[i] + (level.remaining * seats[i].stake) \div level.weight
        ELSE level.payouts[i]]

Payouts(budget, crash, seats) ==
    LET caps == OfSurvivors(seats, crash, Caps(seats)) IN
    IF budget >= Total(caps) THEN caps ELSE Share(seats, Filled(budget, crash, seats))

\* The players' purse is spent first; what is left of either purse goes back.
settle(purse, seed, crash, seats) ==
    LET payouts == Payouts(purse + seed, crash, seats)
        paid == Total(payouts)
        totalPlayerPaid == IF paid < purse THEN paid ELSE purse
    IN [payouts |-> payouts,
        totalPlayerPaid |-> totalPlayerPaid,
        totalBonus |-> paid - totalPlayerPaid,
        houseReturned |-> seed - (paid - totalPlayerPaid),
        bustedToReserve |-> purse - totalPlayerPaid]

=============================================================================
