------------------------- MODULE PlankCycleLottery -------------------------
(***************************************************************************)
(* contracts/PlankCycleLottery.sol, the lottery that is deployed, with     *)
(* what it inherits from PlankNumberedLottery.sol and PlankLottery.sol.    *)
(* Whoever funds it pays a founders' fee and provides for the fee of the   *)
(* draws to come; the rest is the pool.  Every settled round of the crash  *)
(* game is a draw for the prize, at the terms that were committed when the *)
(* round before was recorded; then the next board is committed.            *)
(*                                                                         *)
(* One action is one transaction.  The ball is the hash of the round's     *)
(* seed: a hit is a choice, where the odds are not zero.  Statistics that  *)
(* nothing reads, roundsContributed (the carve of this lottery ignores it) *)
(* and the spillover it pays to the game are left out.                     *)
(***************************************************************************)
EXTENDS Integers

CONSTANTS
    Winners,                \* accounts a draw may be won by
    Donations,              \* amounts anybody may fund
    BASIS,                  \* BPS of the source, 10_000
    PROB_ONE,               \* certainty, 1e18
    MAX_FUNDING,            \* 1e33
    founderFeeBps,
    rolloverFeeBps,
    cycleRetentionMaxBps,
    cycleFundingScaleWei,
    oddsOneIn,
    contributionBps,
    kappaBps

\* The checks of the constructors; 2500 is a quarter of BASIS.
ASSUME LotteryAssumption ==
    /\ {BASIS, cycleFundingScaleWei, MAX_FUNDING} \subseteq Nat \ {0}
    /\ PROB_ONE \in Nat /\ oddsOneIn \in 2..PROB_ONE
    /\ founderFeeBps \in 0..BASIS - 1
    /\ rolloverFeeBps \in Nat /\ 4 * rolloverFeeBps <= BASIS
    /\ cycleRetentionMaxBps \in Nat /\ 4 * cycleRetentionMaxBps <= BASIS
    /\ contributionBps \in 1..BASIS
    /\ kappaBps \in Nat /\ kappaBps > BASIS
    /\ Donations \subseteq Nat

VARIABLES
    pool,
    board,                 \* the committed terms: prize and split, and the
                           \* funding and the provision they were made from
    founderEscrow,
    pendingRolloverFees,   \* provided for, not yet earned
    cycleFunding,          \* net funding of the cycle
    remainders,            \* fractions of a wei that the fees still owe
    totals,                \* funded, fees, and of these the draws' and the wins'
    prizeOwed,             \* owed
    totalPrizeOwed,        \* totalOwed
    totalWinnerPaid,
    lastRecordedRound,
    lotteryBalance         \* of the contract

prizeVars == <<prizeOwed, totalPrizeOwed, totalWinnerPaid>>
fundingVars == <<pool, founderEscrow, pendingRolloverFees, cycleFunding, remainders, totals>>
cycleVars == <<fundingVars, prizeVars, board, lastRecordedRound, lotteryBalance>>

-----------------------------------------------------------------------------
(* Fees                                                                    *)

\* A fee takes whole wei; the fraction is owed by the next one.
Charge(amount, bps, carried) == (amount * bps + carried) \div BASIS

\* Bug: the fraction is forgotten.
CarryNothing(amount, bps, carried) == 0

Carry(amount, bps, carried) == (amount * bps + carried) % BASIS

rollFee(grossSeed) == Charge(grossSeed, rolloverFeeBps, remainders.roll)

-----------------------------------------------------------------------------
(* The board                                                               *)

retentionBps(funding) ==
    (cycleRetentionMaxBps * funding) \div (cycleFundingScaleWei + funding)

\* What is kept of a prize for the next board.
grossSeed(prize, funding) == (prize * retentionBps(funding)) \div BASIS

Board(prize, funding, fees) ==
    [prize |-> prize,
     seeded |-> grossSeed(prize, funding),
     winnerPaid |-> prize - grossSeed(prize, funding),
     cycleFunding |-> funding,
     rolloverFees |-> fees]

\* Bug: the board is committed before the draw is accounted for.
commitBoardFirst == board' = Board(pool, cycleFunding, pendingRolloverFees)

commitBoard == board' = Board(pool', cycleFunding', pendingRolloverFees')

\* hitThreshold of the committed prize.
hitThreshold(rakeWei) ==
    LET flat == PROB_ONE \div oddsOneIn
        contribution == (rakeWei * contributionBps) \div BASIS
        afterFee == (contribution * (BASIS - founderFeeBps)) \div BASIS
        net == (afterFee * (BASIS - rolloverFeeBps)) \div BASIS
        outflow == board.winnerPaid + rollFee(board.seeded)
        funded == (net * PROB_ONE * BASIS) \div (kappaBps * outflow)
    IN IF board.winnerPaid = 0 \/ funded > flat THEN flat ELSE funded

-----------------------------------------------------------------------------
(* The operations                                                          *)

fund(amount) ==
    LET fee == Charge(amount, founderFeeBps, remainders.funding)
        provision == Charge(amount - fee, rolloverFeeBps, remainders.provision)
        net == amount - fee - provision
    IN /\ amount \in 1..MAX_FUNDING
       /\ net <= MAX_FUNDING - cycleFunding
       /\ remainders' = [remainders EXCEPT
             !.funding = Carry(amount, founderFeeBps, @),
             !.provision = Carry(amount - fee, rolloverFeeBps, @)]
       /\ pendingRolloverFees' = pendingRolloverFees + provision
       /\ cycleFunding' = cycleFunding + net
       /\ founderEscrow' = founderEscrow + fee
       /\ pool' = pool + net
       /\ totals' = [totals EXCEPT !.funded = @ + amount, !.fees = @ + fee]
       /\ lotteryBalance' = lotteryBalance + amount
       /\ UNCHANGED <<prizeVars, board, lastRecordedRound>>

\* Nothing was banked when the board was committed.
NoDraw ==
    /\ board.prize = 0
    /\ UNCHANGED <<fundingVars, prizeVars>>

\* Bug: the founders are paid out of the pool, the provision is kept.
MissPaidByPool ==
    /\ board.prize > 0
    /\ founderEscrow' = founderEscrow + board.rolloverFees
    /\ totals' = [totals EXCEPT !.fees = @ + board.rolloverFees,
                                !.drawFees = @ + board.rolloverFees]
    /\ UNCHANGED <<pool, pendingRolloverFees, cycleFunding, remainders, prizeVars>>

\* _onMiss: the founders earn what was provided when the board was committed.
Miss ==
    /\ board.prize > 0
    /\ pendingRolloverFees' = pendingRolloverFees - board.rolloverFees
    /\ founderEscrow' = founderEscrow + board.rolloverFees
    /\ totals' = [totals EXCEPT !.fees = @ + board.rolloverFees,
                                !.drawFees = @ + board.rolloverFees]
    /\ UNCHANGED <<pool, cycleFunding, remainders, prizeVars>>

\* Bug: the split follows what was funded since.
TermsLive == Board(board.prize, cycleFunding, board.rolloverFees)

\* The terms a win is paid at.
Terms == board

\* The winner is credited, then _onWin: the seed pays a fee, and funding that
\* came after the board was committed counts for the next cycle.
Hit(winner, rakeWei) ==
    LET fee == rollFee(Terms.seeded) IN
    /\ board.prize > 0
    /\ hitThreshold(rakeWei) > 0
    /\ prizeOwed' = [prizeOwed EXCEPT ![winner] = @ + Terms.winnerPaid]
    /\ totalPrizeOwed' = totalPrizeOwed + Terms.winnerPaid
    /\ totalWinnerPaid' = totalWinnerPaid + Terms.winnerPaid
    /\ pool' = pool - board.prize + Terms.seeded - fee
    /\ pendingRolloverFees' = pendingRolloverFees - board.rolloverFees
    /\ founderEscrow' = founderEscrow + board.rolloverFees + fee
    /\ totals' = [totals EXCEPT !.fees = @ + board.rolloverFees + fee,
                                !.drawFees = @ + board.rolloverFees,
                                !.winFees = @ + fee]
    /\ remainders' = [remainders EXCEPT
          !.roll = Carry(Terms.seeded, rolloverFeeBps, @)]
    /\ cycleFunding' = cycleFunding - board.cycleFunding

recordRound(roundId, winner, rakeWei) ==
    /\ roundId > lastRecordedRound
    /\ lastRecordedRound' = roundId
    /\ NoDraw \/ Miss \/ Hit(winner, rakeWei)
    /\ commitBoard
    /\ UNCHANGED lotteryBalance

\* withdraw and withdrawTo.
withdrawPrize(player) ==
    /\ prizeOwed[player] > 0
    /\ prizeOwed' = [prizeOwed EXCEPT ![player] = 0]
    /\ totalPrizeOwed' = totalPrizeOwed - prizeOwed[player]
    /\ lotteryBalance' = lotteryBalance - prizeOwed[player]
    /\ UNCHANGED <<fundingVars, totalWinnerPaid, board, lastRecordedRound>>

withdrawFounderFees ==
    /\ founderEscrow > 0
    /\ founderEscrow' = 0
    /\ lotteryBalance' = lotteryBalance - founderEscrow
    /\ UNCHANGED <<pool, pendingRolloverFees, cycleFunding, remainders, totals,
                   prizeVars, board, lastRecordedRound>>

-----------------------------------------------------------------------------
LotteryInit ==
    /\ pool = 0
    /\ board = [prize |-> 0, seeded |-> 0, winnerPaid |-> 0,
                cycleFunding |-> 0, rolloverFees |-> 0]
    /\ founderEscrow = 0
    /\ pendingRolloverFees = 0
    /\ cycleFunding = 0
    /\ remainders = [funding |-> 0, provision |-> 0, roll |-> 0]
    /\ totals = [funded |-> 0, fees |-> 0, drawFees |-> 0, winFees |-> 0]
    /\ prizeOwed = [p \in Winners |-> 0]
    /\ totalPrizeOwed = 0
    /\ totalWinnerPaid = 0
    /\ lastRecordedRound = 0
    /\ lotteryBalance = 0

\* Whoever funds, whatever the game records, in any order.
LotteryNext ==
    \/ \E amount \in Nat : fund(amount)
    \/ \E roundId \in Nat, winner \in Winners, rakeWei \in Nat :
          recordRound(roundId, winner, rakeWei)
    \/ \E player \in Winners : withdrawPrize(player)
    \/ withdrawFounderFees

LotterySpec == LotteryInit /\ [][LotteryNext]_cycleVars

-----------------------------------------------------------------------------
(* Correctness                                                             *)

\* recordRound's checked arithmetic never reverts: what a draw takes was there
\* when the board was committed and nothing but the draw takes it.  A draw that
\* reverted would do so at every retry, and the game waits for it.
BoardCovered ==
    /\ board.prize <= pool
    /\ board.rolloverFees <= pendingRolloverFees
    /\ board.cycleFunding <= cycleFunding
    /\ rollFee(board.seeded) <= board.seeded
    /\ board.seeded + board.winnerPaid = board.prize

\* accountedBalance: every wei that came in is in one ledger, through fees,
\* provisions, draws and exits.
LotteryAccounted ==
    /\ lotteryBalance = pool + founderEscrow + totalPrizeOwed + pendingRolloverFees
    /\ totals.funded = pool + totals.fees + pendingRolloverFees + totalWinnerPaid

\* "Integer remainder carry makes splitting deposits unable to avoid the
\* aggregate fees": after any sequence of deposits and draws, both fees on
\* funding are those of one deposit of the whole.
FeesSplitBlind ==
    LET founders == totals.fees - totals.drawFees - totals.winFees
        provided == pendingRolloverFees + totals.drawFees
    IN /\ founders * BASIS + remainders.funding = totals.funded * founderFeeBps
       /\ provided * BASIS + remainders.provision
             = (totals.funded - founders) * rolloverFeeBps
       /\ {remainders.funding, remainders.provision} \subseteq 0..BASIS - 1

\* quote: what is announced is what a draw pays, however much is funded while
\* the round is open; late funding waits for the next board.
Announced == INSTANCE ProgressiveBoard WITH
    prize <- board.prize,
    promised <- board.winnerPaid,
    seed <- board.seeded - rollFee(board.seeded),
    incoming <- pool - board.prize,
    paid <- totalWinnerPaid

BoardSpec == Announced!Spec

=============================================================================
