----------------------------- MODULE PlankCrash -----------------------------
(***************************************************************************)
(* contracts/PlankCrash.sol: rounds of the crash game.  Bets are taken     *)
(* until a deadline; the round's randomness is a drand round fixed before  *)
(* the first bet; anybody locks and settles; the next round is started in  *)
(* the same transaction when that is possible and by anybody later when it *)
(* is not.  Money is kept in ledgers: the reserve with its protected part, *)
(* the round's seed and pool, what is owed to players, rake and overflow   *)
(* on their way to other contracts.                                        *)
(*                                                                         *)
(* One action is one transaction: every entry point is nonReentrant, sends *)
(* ETH last and reverts as a whole, so a revert is a guard.  A call to the *)
(* lottery, the router or the bank works or fails; CasinoMoney says what   *)
(* the first two do.  flushRake and deliverOverflow restore everything     *)
(* when their call fails, so only their success is an action.  A round is  *)
(* voided when it is empty only, so unclaimedRefunds stays 0 and           *)
(* claimRefund never applies.                                              *)
(***************************************************************************)
EXTENDS DrandBeacon, PlankCappedPoolMath

CONSTANTS
    Players,                      \* accounts that bet and call
    Stakes,                       \* stakes that are sent
    Targets,                      \* targets that are chosen
    Funding,                      \* amounts of donations
    Words,                        \* seed hashes, modulo BPS
    deployedAt,                   \* genesisTimestamp of the game
    bettingDurationSeconds,
    roundIntervalSeconds,         \* 0: reopen immediately
    TARGET_ROUND_SAFETY_PERIODS,
    rakeBps,
    rakeFloorBps,
    rakeStepBps,
    rakeVolumeStepWei,
    keeperRewardBps,
    minStakeWei,
    maxTargetBps,
    maxSeats,
    emissionBufferCapWei,         \* 0: uncapped
    protectedPrincipalBps,
    houseCapBps,
    seedBootstrapBudgetWei,
    refundTimeoutSeconds,
    LotteryFails,                 \* recordRound may revert
    MaxRounds,                    \* BOUND: the last round that is started
    MaxFunded                     \* BOUND: the budget and principal funded

\* The checks of the constructor.
ASSUME CrashAssumption ==
    /\ IsFiniteSet(Players)
    /\ {bettingDurationSeconds, roundIntervalSeconds, TARGET_ROUND_SAFETY_PERIODS,
        minStakeWei, maxSeats, emissionBufferCapWei, seedBootstrapBudgetWei} \subseteq Nat
    /\ deployedAt \in Nat /\ deployedAt >= genesisTimestamp
    /\ IF roundIntervalSeconds # 0
       THEN roundIntervalSeconds > (TARGET_ROUND_SAFETY_PERIODS + 1) * period
       ELSE bettingDurationSeconds >= period
    /\ rakeBps \in 0..BPS /\ rakeFloorBps \in 0..rakeBps
    /\ rakeStepBps \in 1..BPS /\ rakeVolumeStepWei \in Nat \ {0}
    /\ keeperRewardBps \in 0..BPS
    /\ maxTargetBps \in MIN_TARGET_BPS..MAX_TARGET
    /\ maxSeats \in 1..MAX_SEATS
    /\ maxSeats * MAX_STAKE <= MAX_POT /\ BPS * BPS <= MAX_TARGET
    /\ protectedPrincipalBps \in 0..BPS /\ houseCapBps \in 0..BPS
    /\ floorBps <= BPS - rakeBps
    /\ refundTimeoutSeconds \in Nat \ {0}
    /\ Stakes \subseteq Nat \ {0} /\ Targets \subseteq Nat
    /\ Funding \subseteq Nat \ {0} /\ Words \subseteq 0..BPS - 1
    /\ LotteryFails \in BOOLEAN
    /\ MaxRounds \in Nat /\ MaxFunded \in Nat

VARIABLES
    currentRoundId,
    round,                 \* rounds[currentRoundId] with its seats
    drandRounds,           \* drandRoundToRoundId: the target rounds in use
    vault,                 \* reserve, protectedPrincipal, seedBudget, pendingOverflow
    pendingRake,
    owed,
    totalOwed,
    qualifiedVolume,
    pendingLotteryRound,   \* a settled round the lottery has not recorded, or 0
    stalledRound,
    settled,               \* the rounds whose phase is SETTLED, in order
    balance,               \* of the contract
    recorded               \* external: the rounds the lottery has recorded

moneyVars == <<vault, pendingRake, owed, totalOwed, qualifiedVolume, balance>>
lotteryVars == <<pendingLotteryRound, settled, recorded>>
roundVars == <<currentRoundId, round, drandRounds>>
crashVars == <<roundVars, moneyVars, lotteryVars, stalledRound, beaconVars>>

-----------------------------------------------------------------------------
(* The reserve                                                             *)

Buffer(v) == v.reserve - v.protectedPrincipal

\* Bug: the seed is a part of the whole reserve.
nextSeedOfReserve(v) ==
    LET quote == (v.reserve * BPS) \div BPS
    IN IF quote > v.seedBudget THEN v.seedBudget ELSE quote

nextSeed(v) ==
    LET quote == (Buffer(v) * houseCapBps) \div BPS
        funded == IF quote > v.seedBudget THEN v.seedBudget ELSE quote
    IN IF funded > MAX_POT THEN MAX_POT ELSE funded

drawSeed(v) ==
    [v EXCEPT !.reserve = @ - nextSeed(v), !.seedBudget = @ - nextSeed(v)]

\* Income raises the budget of seeds; what exceeds the cap goes to the lottery.
creditBuffer(v, amount) ==
    LET buffer == Buffer(v) + amount
        excess == IF emissionBufferCapWei # 0 /\ buffer > emissionBufferCapWei
                  THEN buffer - emissionBufferCapWei ELSE 0
    IN [v EXCEPT !.reserve = @ + amount - excess,
                 !.seedBudget = @ + amount,
                 !.pendingOverflow = @ + excess]

-----------------------------------------------------------------------------
(* Starting a round                                                        *)

nextSlot(timestamp) ==
    deployedAt
      + ((timestamp - deployedAt) \div roundIntervalSeconds + 1) * roundIntervalSeconds

\* _bettingDeadline of the round after the current one.
bettingDeadline(timestamp) ==
    IF roundIntervalSeconds = 0
    THEN timestamp + bettingDurationSeconds
    ELSE nextSlot(timestamp)

\* Bug: the first round drand emits once betting is over.
TargetWithoutSafety(deadline) == currentRoundAt(deadline)

TargetFor(deadline) == nextRoundAfter(deadline) + TARGET_ROUND_SAFETY_PERIODS

\* BOUND: the randomness of every round that is started is due by MaxTime.
TimeLeft(deadline) == TimeOfRound(TargetFor(deadline)) <= MaxTime

\* Bug: the next round is started over a record that is still pending.
StartsOverPending(pending, deadline) ==
    /\ TargetFor(deadline) \notin drandRounds
    /\ currentRoundId < MaxRounds /\ TimeLeft(deadline)

\* The guards of _startRound, and the bounds.
CanStart(pending, deadline) ==
    /\ pending = 0
    /\ TargetFor(deadline) \notin drandRounds
    /\ currentRoundId < MaxRounds /\ TimeLeft(deadline)

NewRound(deadline, seed) ==
    [phase |-> "BETTING", bettingEndsAt |-> deadline, target |-> TargetFor(deadline),
     seed |-> seed, playerPool |-> 0, seats |-> <<>>]

\* _startRound from the reserve v.
StartRound(v, pending) ==
    LET deadline == bettingDeadline(now) IN
    /\ CanStart(pending, deadline)
    /\ currentRoundId' = currentRoundId + 1
    /\ round' = NewRound(deadline, nextSeed(v))
    /\ drandRounds' = drandRounds \cup {TargetFor(deadline)}
    /\ vault' = drawSeed(v)

\* _tryStartRound: a start that reverts, or for which the caller left too
\* little gas, is deferred.  After settlement and retry the gas was checked.
TryStartRound(phase, v, pending, mayStarve) ==
    \/ StartRound(v, pending)
    \/ /\ mayStarve \/ ~CanStart(pending, bettingDeadline(now))
       /\ round' = [round EXCEPT !.phase = phase]
       /\ vault' = v
       /\ UNCHANGED <<currentRoundId, drandRounds>>

\* Bug: a voided round is not thought of.
restartAfterSettlement ==
    /\ round.phase = "SETTLED"
    /\ StartRound(vault, pendingLotteryRound)
    /\ UNCHANGED <<pendingRake, owed, totalOwed, qualifiedVolume, balance,
                   lotteryVars, stalledRound, beaconVars>>

restartRounds ==
    /\ round.phase \in {"SETTLED", "VOIDED"}
    /\ StartRound(vault, pendingLotteryRound)
    /\ UNCHANGED <<pendingRake, owed, totalOwed, qualifiedVolume, balance,
                   lotteryVars, stalledRound, beaconVars>>

-----------------------------------------------------------------------------
(* Bets                                                                    *)

\* All four entry points: for oneself or, through the bank, for a player.
placeBet(player, targetBps, stake) ==
    /\ round.phase = "BETTING"
    /\ now < round.bettingEndsAt
    /\ \A i \in DOMAIN round.seats : round.seats[i].player # player
    /\ stake \in (IF minStakeWei = 0 THEN 1 ELSE minStakeWei)..MAX_STAKE
    /\ targetBps \in MIN_TARGET_BPS..maxTargetBps
    /\ Len(round.seats) < maxSeats
    /\ round' = [round EXCEPT
          !.playerPool = @ + stake,
          !.seats = Append(@, [player |-> player, stake |-> stake, targetBps |-> targetBps])]
    /\ balance' = balance + stake
    /\ UNCHANGED <<currentRoundId, drandRounds, vault, pendingRake, owed, totalOwed,
                   qualifiedVolume, lotteryVars, stalledRound, beaconVars>>

-----------------------------------------------------------------------------
(* Lock                                                                    *)

\* Bug: a table of one waits for a second player.
LockableWithQuorum ==
    round.phase = "BETTING" /\ now >= round.bettingEndsAt /\ Len(round.seats) # 1

\* _lock reverts otherwise.
Lockable == round.phase = "BETTING" /\ now >= round.bettingEndsAt

\* Bug: the seed of a voided round is not given back.
ReturnSeedForgotten(v, seed) == v

ReturnSeed(v, seed) == IF seed = 0 THEN v ELSE creditBuffer(v, seed)

\* An empty book: settleRound does the same as lockRound.
VoidRound ==
    /\ Lockable
    /\ round.seats = <<>>
    /\ TryStartRound("VOIDED", ReturnSeed(vault, round.seed), pendingLotteryRound, TRUE)
    /\ UNCHANGED <<pendingRake, owed, totalOwed, qualifiedVolume, balance,
                   lotteryVars, stalledRound, beaconVars>>

lockRound ==
    /\ Lockable
    /\ round.seats # <<>>
    /\ round' = [round EXCEPT !.phase = "LIVE"]
    /\ UNCHANGED <<currentRoundId, drandRounds, moneyVars, lotteryVars,
                   stalledRound, beaconVars>>

-----------------------------------------------------------------------------
(* Settlement                                                              *)

deriveCrash(word) == IF word = 0 THEN BPS ELSE (BPS * BPS) \div (BPS - word)

\* Bug: the staircase leads up.
rakeClimbs(volume) ==
    LET tier == volume \div rakeVolumeStepWei
    IN IF rakeBps + tier * rakeStepBps > BPS THEN BPS ELSE rakeBps + tier * rakeStepBps

\* The ratified rake staircase.
effectiveRakeBpsAt(volume) ==
    LET possibleDrop == rakeBps - rakeFloorBps
        maxTiers == (possibleDrop + rakeStepBps - 1) \div rakeStepBps
        earned == volume \div rakeVolumeStepWei
        drop == (IF earned < maxTiers THEN earned ELSE maxTiers) * rakeStepBps
    IN rakeBps - (IF drop > possibleDrop THEN possibleDrop ELSE drop)

playerDistributable ==
    (round.playerPool * (BPS - effectiveRakeBpsAt(qualifiedVolume))) \div BPS

keeperReward ==
    ((round.playerPool - playerDistributable) * keeperRewardBps) \div BPS

netRake == round.playerPool - playerDistributable - keeperReward

\* settle reverts on a bad input; and the arithmetic is checked: no payout, no
\* sum of payouts and nothing that is returned is below zero.
SettleReturns(crash) ==
    /\ ValidInput(playerDistributable, round.seed, crash, round.seats)
    /\ FloorFunded(playerDistributable, round.seed, crash, round.seats)
    /\ \E result \in {settle(playerDistributable, round.seed, crash, round.seats)} :
          /\ result.payouts \in [DOMAIN round.seats -> Nat]
          /\ Total(result.payouts) \in Nat
          /\ result.houseReturned \in Nat

\* AlreadyBet leaves a player one seat.
PayoutOf(player, result) ==
    IF \E i \in DOMAIN round.seats : round.seats[i].player = player
    THEN result.payouts[CHOOSE i \in DOMAIN round.seats : round.seats[i].player = player]
    ELSE 0

\* Unused seed, then unused player money, each when there is any.
Recycled(result) ==
    LET v == ReturnSeed(vault, result.houseReturned)
    IN ReturnSeed(v, result.bustedToReserve)

\* The isolated call: a failure is kept for retryLottery.
RecordRound ==
    \/ /\ recorded' = Append(recorded, currentRoundId)
       /\ UNCHANGED pendingLotteryRound
    \/ /\ LotteryFails
       /\ pendingLotteryRound' = currentRoundId
       /\ UNCHANGED recorded

\* The round's outcome, result, and the reserve after it, v.
settleRound(keeper, word) ==
    /\ round.phase = "LIVE" \/ (Lockable /\ round.seats # <<>>)
    /\ isRoundAvailable(round.target)
    /\ SettleReturns(deriveCrash(word))
    /\ \E result \in {settle(playerDistributable, round.seed, deriveCrash(word), round.seats)} :
          /\ owed' = [p \in Players |->
                owed[p] + PayoutOf(p, result) + (IF p = keeper THEN keeperReward ELSE 0)]
          /\ totalOwed' = totalOwed + Total(result.payouts) + keeperReward
          /\ pendingRake' = pendingRake + netRake
          /\ qualifiedVolume' = qualifiedVolume + round.playerPool
          /\ settled' = Append(settled, currentRoundId)
          /\ RecordRound
          /\ \E v \in {Recycled(result)} :
                TryStartRound("SETTLED", v, pendingLotteryRound', FALSE)
    /\ UNCHANGED <<balance, stalledRound, beaconVars>>

NoPending == 0

\* A failing retry reverts.
retryLottery ==
    /\ pendingLotteryRound # 0
    /\ recorded' = Append(recorded, pendingLotteryRound)
    /\ pendingLotteryRound' = NoPending
    /\ TryStartRound(round.phase, vault, pendingLotteryRound', FALSE)
    /\ UNCHANGED <<pendingRake, owed, totalOwed, qualifiedVolume, balance,
                   settled, stalledRound, beaconVars>>

\* An incident report: nothing moves.
freezeStalledRound ==
    /\ round.phase = "LIVE"
    /\ now >= TimeOfRound(round.target) + refundTimeoutSeconds
    /\ stalledRound # currentRoundId
    /\ stalledRound' = currentRoundId
    /\ UNCHANGED <<roundVars, moneyVars, lotteryVars, beaconVars>>

-----------------------------------------------------------------------------
(* Exits and funding                                                       *)

\* Bug: the total is debited, the player is not.
withdrawUndebited(player) ==
    /\ owed[player] > 0
    /\ totalOwed' = totalOwed - owed[player]
    /\ balance' = balance - owed[player]
    /\ UNCHANGED <<roundVars, vault, owed, pendingRake, qualifiedVolume, lotteryVars,
                   stalledRound, beaconVars>>

\* withdraw, withdrawTo and withdrawToBank.
withdraw(player) ==
    /\ owed[player] > 0
    /\ owed' = [owed EXCEPT ![player] = 0]
    /\ totalOwed' = totalOwed - owed[player]
    /\ balance' = balance - owed[player]
    /\ UNCHANGED <<roundVars, vault, pendingRake, qualifiedVolume, lotteryVars,
                   stalledRound, beaconVars>>

Fund(amount, v) ==
    /\ vault.seedBudget + vault.protectedPrincipal + amount <= MaxFunded
    /\ vault' = v
    /\ balance' = balance + amount
    /\ UNCHANGED <<roundVars, pendingRake, owed, totalOwed, qualifiedVolume,
                   lotteryVars, stalledRound, beaconVars>>

fundVault(amount) == Fund(amount, creditBuffer(vault, amount))

\* The router's leg: a part of it becomes protected principal.
fundCommunityReturn(amount) ==
    LET principal == (amount * protectedPrincipalBps) \div BPS
        protected == [vault EXCEPT !.protectedPrincipal = @ + principal,
                                   !.reserve = @ + principal]
    IN Fund(amount, creditBuffer(protected, amount - principal))

flushRake ==
    /\ pendingRake > 0
    /\ pendingRake' = 0
    /\ balance' = balance - pendingRake
    /\ UNCHANGED <<roundVars, vault, owed, totalOwed, qualifiedVolume, lotteryVars,
                   stalledRound, beaconVars>>

deliverOverflow ==
    /\ vault.pendingOverflow > 0
    /\ vault' = [vault EXCEPT !.pendingOverflow = 0]
    /\ balance' = balance - vault.pendingOverflow
    /\ UNCHANGED <<roundVars, pendingRake, owed, totalOwed, qualifiedVolume,
                   lotteryVars, stalledRound, beaconVars>>

-----------------------------------------------------------------------------
(* The environment: time, drand, and relayers of the round that is waited  *)
(* for                                                                     *)

\* BOUND: between two rounds the clock stops where a round still fits, so that
\* a start may be late but not too late.
ClockRuns ==
    \/ round.phase \in {"BETTING", "LIVE"}
    \/ currentRoundId = MaxRounds
    \/ TimeLeft(bettingDeadline(now)) => TimeLeft(bettingDeadline(now + 1))

Environment ==
    /\ \/ Tick /\ ClockRuns
       \/ PublishRound
       \/ SubmitRound(round.target, SignatureOf(round.target))
    /\ UNCHANGED <<roundVars, moneyVars, lotteryVars, stalledRound>>

-----------------------------------------------------------------------------
NewVault == [reserve |-> 0, protectedPrincipal |-> 0,
             seedBudget |-> seedBootstrapBudgetWei, pendingOverflow |-> 0]

\* The constructor starts the first round.
CrashInit ==
    /\ now = deployedAt
    /\ published = currentRoundAt(deployedAt)
    /\ randomness = [r \in {} |-> NoRandomness]
    /\ currentRoundId = 1
    /\ round = NewRound(now + bettingDurationSeconds, nextSeed(NewVault))
    /\ drandRounds = {round.target}
    /\ vault = drawSeed(NewVault)
    /\ pendingRake = 0
    /\ owed = [p \in Players |-> 0]
    /\ totalOwed = 0
    /\ qualifiedVolume = 0
    /\ pendingLotteryRound = 0
    /\ stalledRound = 0
    /\ settled = <<>>
    /\ balance = 0
    /\ recorded = <<>>

\* What keepers do; anybody may.
Keep ==
    \/ VoidRound
    \/ lockRound
    \/ \E keeper \in Players, word \in Words : settleRound(keeper, word)
    \/ restartRounds
    \/ retryLottery

Bet == \E player \in Players, targetBps \in Targets, stake \in Stakes :
          placeBet(player, targetBps, stake)

Move ==
    \/ \E player \in Players : withdraw(player)
    \/ \E amount \in Funding : fundVault(amount)
    \/ \E amount \in Nat \ {0} : fundCommunityReturn(amount)
    \/ flushRake
    \/ deliverOverflow

CrashNext == Bet \/ Keep \/ freezeStalledRound \/ Move \/ Environment

CrashSpec == CrashInit /\ [][CrashNext]_crashVars

-----------------------------------------------------------------------------
(* Correctness                                                             *)

\* The type of the storage: no subtraction from a ledger goes below zero, so none
\* of the contract's checked subtractions reverts.
CrashTypeOK ==
    /\ currentRoundId \in Nat \ {0}
    /\ round \in [phase : {"BETTING", "LIVE", "SETTLED", "VOIDED"}, bettingEndsAt : Nat,
                  target : Nat, seed : Nat, playerPool : Nat,
                  seats : Seq([player : Players, stake : Nat, targetBps : Nat])]
    /\ vault \in [reserve : Nat, protectedPrincipal : Nat, seedBudget : Nat,
                  pendingOverflow : Nat]
    /\ owed \in [Players -> Nat]
    /\ {pendingRake, qualifiedVolume, pendingLotteryRound} \subseteq Nat
    /\ settled \in Seq(Nat) /\ recorded \in Seq(Nat)

\* "Every wei this contract is responsible for" (accountedBalance): the ledgers
\* add up to the contract's balance through bets, voids, settlements with their
\* rounding, seeds drawn and returned, overflow, rake and exits.
Accounted ==
    balance = vault.reserve + pendingRake + vault.pendingOverflow + totalOwed
        + (IF round.phase \in {"BETTING", "LIVE"} THEN round.seed + round.playerPool ELSE 0)

\* What is owed to players and keepers adds up to totalOwed: paidSum, taken
\* from the library's result, is what the seats were credited.
OwedAddsUp == totalOwed = Total(owed)

\* Protected principal is never seeded, recycled or sent to the lottery: the
\* reserve covers it, whatever was drawn and whatever overflowed.
PrincipalProtected == vault.reserve >= vault.protectedPrincipal

\* Settlement cannot revert for any outcome, at any rake tier: the floors are
\* covered by the pool net of rake, the payouts by the pool and the seed.  A
\* round that could not be settled would hold its stakes forever.
SettlementNeverReverts ==
    (round.phase \in {"BETTING", "LIVE"} /\ round.seats # <<>>)
        => \A word \in Words : SettleReturns(deriveCrash(word))

\* The lottery records every settled round once and in order, whatever calls
\* fail; one round at most is pending, and it is the last one.
RecordedOnce ==
    settled = IF pendingLotteryRound = 0
              THEN recorded
              ELSE Append(recorded, pendingLotteryRound)

\* No bet can be placed once the round's randomness is public, while the chain
\* lags the network by the safety periods at most.
BetsBlind ==
    (MaxLag <= TARGET_ROUND_SAFETY_PERIODS * period
        /\ round.phase = "BETTING" /\ now < round.bettingEndsAt)
    => published < round.target

\* Every round that was started ends: it is voided or it is settled.
RoundEnds ==
    \A id \in 1..MaxRounds :
        (currentRoundId = id /\ round.phase \in {"BETTING", "LIVE"})
            ~> (currentRoundId > id \/ round.phase \in {"SETTLED", "VOIDED"})

\* A game that stopped between two rounds goes on: a deferred start, a target
\* round that is in use and a failing lottery all pass.
GameGoesOn ==
    (round.phase \in {"SETTLED", "VOIDED"} /\ currentRoundId < MaxRounds
        /\ \E deadline \in {bettingDeadline(now)} : TimeLeft(deadline))
    ~> round.phase = "BETTING"

=============================================================================
