-------------------------- MODULE CasinoMoneyProofs -------------------------
(***************************************************************************)
(* Theorems about the crash game, about the lottery and about both as they *)
(* are deployed together, for every number of players, amounts, rake       *)
(* schedules, fundings, reports and clocks.                                *)
(*                                                                         *)
(* Of the crash game, CrashInv is the inductive invariant: the accounts,   *)
(* the cover of the protected principal, the lottery's record and the date *)
(* of the randomness; there, what settle computes enters only by the guard *)
(* that its arithmetic is checked (SettleReturns).  SeatsInv, inductive on *)
(* top of it, is about the book; with PoolMathProofs it shows that the     *)
(* guard never refuses a round that was bet on.  Of the casino everything  *)
(* holds that is proved of the game and of the lottery alone; the guarded  *)
(* game is the casino with steps taken away and stops that last through    *)
(* incidents and delays.                                                   *)
(***************************************************************************)
EXTENDS PlankGuardedCrash, PoolMathProofs, TLAPS

-----------------------------------------------------------------------------
(* The crash game                                                          *)

Running == {"BETTING", "LIVE"}
Ended == {"SETTLED", "VOIDED"}

\* The reserve of the contract, its protected part covered.
VaultType == [reserve : Nat, protectedPrincipal : Nat, seedBudget : Nat,
              pendingOverflow : Nat]

VaultOK(v) ==
    /\ v \in VaultType
    /\ v.reserve >= v.protectedPrincipal

\* A round's target is the one its deadline was bound to; an empty book has no pool.
RoundOK(r) ==
    /\ r \in [phase : Running \cup Ended, bettingEndsAt : Nat, target : Nat, seed : Nat,
              playerPool : Nat,
              seats : Seq([player : Players, stake : Nat, targetBps : Nat])]
    /\ r.bettingEndsAt >= genesisTimestamp
    /\ r.target = TargetFor(r.bettingEndsAt)
    /\ r.seats = <<>> => r.playerPool = 0

\* Two ledgers of the accounts, as numbers of their own.
Held(v) == v.reserve + v.pendingOverflow
AtStake(r) == IF r.phase \in Running THEN r.seed + r.playerPool ELSE 0

LedgerInv ==
    /\ VaultOK(vault)
    /\ owed \in [Players -> Nat]
    /\ pendingRake \in Nat /\ qualifiedVolume \in Nat
    /\ totalOwed \in Int /\ balance \in Int
    /\ balance = Held(vault) + AtStake(round) + pendingRake + totalOwed

LotteryInv ==
    /\ currentRoundId \in Nat \ {0}
    /\ pendingLotteryRound \in Nat
    /\ settled \in Seq(Nat) /\ recorded \in Seq(Nat)
    /\ round.phase \in Running => pendingLotteryRound = 0
    /\ RecordedOnce

ClockInv ==
    /\ now \in Nat /\ now >= deployedAt
    /\ published \in Nat
    /\ published > 0 => TimeOfRound(published) <= now + MaxLag

CrashInv == RoundOK(round) /\ LedgerInv /\ LotteryInv /\ ClockInv

-----------------------------------------------------------------------------
(* Arithmetic                                                              *)

\* Floor division, and what a share of a whole is at most.
LEMMA CrashDivision ==
    ASSUME NEW a \in Nat, NEW n \in Nat \ {0}
    PROVE  /\ a \div n \in Nat
           /\ (a \div n) * n <= a
           /\ a < (a \div n) * n + n
  OBVIOUS

LEMMA ShareOfWhole ==
    ASSUME NEW a \in Nat, NEW k \in Nat, k <= BPS
    PROVE  (a * k) \div BPS \in 0..a
<1> USE PoolAssumption
<1> DEFINE q == (a * k) \div BPS
<1>1. a * k \in Nat /\ a * k <= a * BPS
  OBVIOUS
<1>2. q \in Nat /\ q * BPS <= a * k
  BY <1>1, CrashDivision
<1> HIDE DEF q
<1>3. CASE q >= a + 1
  <2>1. q * BPS >= (a + 1) * BPS
    BY <1>2, <1>3
  <2>2. (a + 1) * BPS = a * BPS + BPS /\ a * BPS \in Nat /\ q * BPS \in Nat
    BY <1>2
  <2> QED
    BY <1>1, <1>2, <2>1, <2>2
<1> QED
  BY <1>2, <1>3 DEF q

LEMMA Product ==
    ASSUME NEW a \in Nat, NEW b \in Nat
    PROVE  a * b \in Nat
  OBVIOUS

-----------------------------------------------------------------------------
(* The reserve                                                             *)

LEMMA VaultUpdate ==
    ASSUME NEW v \in VaultType, NEW r \in Nat, NEW s \in Nat, NEW o \in Nat
    PROVE  /\ [v EXCEPT !.reserve = r, !.seedBudget = s] \in VaultType
           /\ [v EXCEPT !.reserve = r, !.seedBudget = s, !.pendingOverflow = o]
                 \in VaultType
  BY DEF VaultType

\* A credit adds the amount to the ledgers and leaves the principal covered:
\* only what the buffer has beyond its cap is queued for the lottery.
LEMMA CreditFacts ==
    ASSUME NEW v, VaultOK(v), NEW amount \in Nat
    PROVE  /\ VaultOK(creditBuffer(v, amount))
           /\ Held(creditBuffer(v, amount)) = Held(v) + amount
<1> DEFINE buffer == Buffer(v) + amount
           excess == IF emissionBufferCapWei # 0 /\ buffer > emissionBufferCapWei
                     THEN buffer - emissionBufferCapWei ELSE 0
           w == [v EXCEPT !.reserve = @ + amount - excess,
                          !.seedBudget = @ + amount,
                          !.pendingOverflow = @ + excess]
<1>1. creditBuffer(v, amount) = w
  BY DEF creditBuffer
<1>2. emissionBufferCapWei \in Nat
  BY CrashAssumption
<1>3. /\ v.reserve \in Nat /\ v.protectedPrincipal \in Nat
      /\ v.seedBudget \in Nat /\ v.pendingOverflow \in Nat
      /\ v.reserve >= v.protectedPrincipal
  BY DEF VaultOK, VaultType
<1>4. excess \in 0..v.reserve - v.protectedPrincipal + amount
  BY <1>2, <1>3 DEF Buffer
<1> HIDE DEF excess
<1>5. /\ w.reserve = v.reserve + amount - excess
      /\ w.pendingOverflow = v.pendingOverflow + excess
      /\ w.protectedPrincipal = v.protectedPrincipal
      /\ w.seedBudget = v.seedBudget + amount
  BY DEF VaultOK, VaultType
<1>6. w \in VaultType
  <2>1. /\ v.reserve + amount - excess \in Nat
        /\ v.seedBudget + amount \in Nat
        /\ v.pendingOverflow + excess \in Nat
    BY <1>3, <1>4
  <2> HIDE DEF excess
  <2> QED
    BY <2>1, VaultUpdate DEF VaultOK
<1> HIDE DEF w
<1> QED
  BY <1>1, <1>3, <1>4, <1>5, <1>6 DEF VaultOK, Held

LEMMA ReturnFacts ==
    ASSUME NEW v, VaultOK(v), NEW amount \in Nat
    PROVE  /\ VaultOK(ReturnSeed(v, amount))
           /\ Held(ReturnSeed(v, amount)) = Held(v) + amount
<1>1. Held(v) \in Nat
  BY DEF VaultOK, VaultType, Held
<1> QED
  BY <1>1, CreditFacts DEF ReturnSeed

\* A seed is taken from the buffer, never from the principal.
LEMMA DrawFacts ==
    ASSUME NEW v, VaultOK(v)
    PROVE  /\ nextSeed(v) \in Nat
           /\ VaultOK(drawSeed(v))
           /\ Held(drawSeed(v)) = Held(v) - nextSeed(v)
<1> DEFINE seed == nextSeed(v)
           w == [v EXCEPT !.reserve = @ - seed, !.seedBudget = @ - seed]
<1>0. /\ v.reserve \in Nat /\ v.protectedPrincipal \in Nat
      /\ v.seedBudget \in Nat /\ v.pendingOverflow \in Nat
      /\ v.reserve >= v.protectedPrincipal
  BY DEF VaultOK, VaultType
<1>1. Buffer(v) \in Nat
  BY <1>0 DEF Buffer
<1>2. houseCapBps \in Nat /\ houseCapBps <= BPS
  BY CrashAssumption, PoolAssumption
<1>3. (Buffer(v) * houseCapBps) \div BPS \in 0..Buffer(v)
  BY <1>1, <1>2, ShareOfWhole
<1>4. seed \in 0..Buffer(v) /\ seed <= v.seedBudget
  <2> DEFINE quote == (Buffer(v) * houseCapBps) \div BPS
  <2>1. quote \in 0..Buffer(v)
    BY <1>3
  <2>2. MAX_POT \in Nat
    BY PoolAssumption
  <2>3. seed = LET funded == IF quote > v.seedBudget THEN v.seedBudget ELSE quote
               IN IF funded > MAX_POT THEN MAX_POT ELSE funded
    BY DEF nextSeed
  <2> HIDE DEF quote, seed
  <2> QED
    BY <1>0, <1>1, <2>1, <2>2, <2>3
<1>5. drawSeed(v) = w
  BY DEF drawSeed
<1> HIDE DEF seed
<1>6. /\ w.reserve = v.reserve - seed
      /\ w.pendingOverflow = v.pendingOverflow
      /\ w.protectedPrincipal = v.protectedPrincipal
      /\ w.seedBudget = v.seedBudget - seed
  BY DEF VaultOK, VaultType
<1>7. w \in VaultType
  <2>1. v.reserve - seed \in Nat /\ v.seedBudget - seed \in Nat
    BY <1>0, <1>1, <1>4 DEF Buffer
  <2> QED
    BY <1>0, <2>1, VaultUpdate DEF VaultOK
<1>8. seed = nextSeed(v)
  BY DEF seed
<1> HIDE DEF w
<1> QED
  BY <1>0, <1>1, <1>4, <1>5, <1>6, <1>7, <1>8 DEF VaultOK, Held, Buffer

-----------------------------------------------------------------------------
(* A new round                                                             *)

LEMMA RoundNumbers ==
    ASSUME NEW t \in Nat
    PROVE  currentRoundAt(t) \in Nat /\ TargetFor(t) \in Nat
<1> USE BeaconAssumption
<1>1. t >= genesisTimestamp => (t - genesisTimestamp) \div period \in Nat
  BY CrashDivision
<1> QED
  BY <1>1, CrashAssumption DEF currentRoundAt, TargetFor, nextRoundAfter

LEMMA DeadlineFacts ==
    ASSUME ClockInv
    PROVE  bettingDeadline(now) \in Nat /\ bettingDeadline(now) >= genesisTimestamp
<1> USE CrashAssumption, BeaconAssumption DEF ClockInv
<1>1. CASE roundIntervalSeconds = 0
  BY <1>1 DEF bettingDeadline
<1>2. CASE roundIntervalSeconds # 0
  <2> DEFINE k == (now - deployedAt) \div roundIntervalSeconds + 1
  <2>1. k \in Nat
    BY <1>2, CrashDivision
  <2> HIDE DEF k
  <2>2. k * roundIntervalSeconds \in Nat
    BY <2>1, Product
  <2>3. bettingDeadline(now) = deployedAt + k * roundIntervalSeconds
    BY <1>2 DEF bettingDeadline, nextSlot, k
  <2> QED
    BY <2>2, <2>3
<1> QED
  BY <1>1, <1>2

\* A start moves the seed from the reserve to the round and waits for the
\* lottery's record.
LEMMA StartFacts ==
    ASSUME ClockInv, currentRoundId \in Nat \ {0}, NEW v, VaultOK(v), NEW pending,
           StartRound(v, pending)
    PROVE  /\ RoundOK(round') /\ VaultOK(vault')
           /\ Held(vault') + AtStake(round') = Held(v)
           /\ currentRoundId' \in Nat \ {0}
           /\ pending = 0
<1> DEFINE deadline == bettingDeadline(now)
<1>1. deadline \in Nat /\ deadline >= genesisTimestamp /\ TargetFor(deadline) \in Nat
  BY DeadlineFacts, RoundNumbers
<1>2. round' = NewRound(deadline, nextSeed(v)) /\ vault' = drawSeed(v)
  BY DEF StartRound
<1> HIDE DEF deadline
<1>3. nextSeed(v) \in Nat
  BY DrawFacts
<1>4. RoundOK(round') /\ AtStake(round') = nextSeed(v)
  BY <1>1, <1>2, <1>3 DEF RoundOK, NewRound, AtStake, Running, Ended
<1>5. Held(v) \in Nat
  BY DEF VaultOK, VaultType, Held
<1>6. Held(vault') + AtStake(round') = Held(v)
  BY <1>2, <1>3, <1>4, <1>5, DrawFacts
<1>7. currentRoundId' = currentRoundId + 1 /\ pending = 0
  BY DEF StartRound, CanStart
<1> QED
  BY <1>2, <1>4, <1>6, <1>7, DrawFacts

\* The same, or the game stops between two rounds and nothing is at stake.
LEMMA TryStartFacts ==
    ASSUME ClockInv, RoundOK(round), currentRoundId \in Nat \ {0},
           NEW v, VaultOK(v), NEW pending, NEW phase \in Ended, NEW mayStarve,
           TryStartRound(phase, v, pending, mayStarve)
    PROVE  /\ RoundOK(round') /\ VaultOK(vault')
           /\ Held(vault') + AtStake(round') = Held(v)
           /\ currentRoundId' \in Nat \ {0}
           /\ round'.phase \in Running => pending = 0
<1>1. CASE StartRound(v, pending)
  BY <1>1, StartFacts
<1>2. CASE /\ round' = [round EXCEPT !.phase = phase]
           /\ vault' = v
           /\ UNCHANGED <<currentRoundId, drandRounds>>
  <2>1. RoundOK(round') /\ round'.phase = phase
    BY <1>2 DEF RoundOK
  <2>2. phase \notin Running
    BY DEF Running, Ended
  <2>3. AtStake(round') = 0 /\ Held(v) \in Nat
    BY <2>1, <2>2 DEF AtStake, VaultOK, VaultType, Held
  <2> QED
    BY <1>2, <2>1, <2>2, <2>3
<1> QED
  BY <1>1, <1>2 DEF TryStartRound

-----------------------------------------------------------------------------
(* A settlement                                                            *)

\* The staircase leads from rakeBps down and not below zero.
LEMMA RakeFacts == ASSUME qualifiedVolume \in Nat
                   PROVE  /\ effectiveRakeBpsAt(qualifiedVolume) \in 0..BPS
                          /\ effectiveRakeBpsAt(qualifiedVolume) <= rakeBps
<1> USE CrashAssumption, PoolAssumption
<1> DEFINE earned == qualifiedVolume \div rakeVolumeStepWei
           maxTiers == (rakeBps - rakeFloorBps + rakeStepBps - 1) \div rakeStepBps
           tiers == IF earned < maxTiers THEN earned ELSE maxTiers
           drop == tiers * rakeStepBps
<1>1. rakeBps \in Nat /\ rakeBps <= BPS /\ rakeFloorBps \in 0..rakeBps
      /\ rakeStepBps \in Nat \ {0} /\ BPS \in Nat
  OBVIOUS
<1>2. earned \in Nat
  BY CrashDivision
<1>3. maxTiers \in Nat
  BY <1>1, CrashDivision
<1> HIDE DEF earned, maxTiers
<1>4. drop \in Nat
  BY <1>1, <1>2, <1>3, Product
<1>5. effectiveRakeBpsAt(qualifiedVolume)
         = rakeBps - (IF drop > rakeBps - rakeFloorBps
                      THEN rakeBps - rakeFloorBps ELSE drop)
  BY DEF effectiveRakeBpsAt, earned, maxTiers
<1> HIDE DEF drop
<1> QED
  BY <1>1, <1>4, <1>5

\* Pool = what is shared + keeper's reward + rake.
LEMMA SplitFacts ==
    ASSUME RoundOK(round), qualifiedVolume \in Nat
    PROVE  /\ round.playerPool \in Nat
           /\ playerDistributable \in Nat /\ keeperReward \in Nat /\ netRake \in Nat
           /\ round.playerPool = playerDistributable + keeperReward + netRake
<1> DEFINE keep == BPS - effectiveRakeBpsAt(qualifiedVolume)
<1> USE PoolAssumption
<1>1. round.playerPool \in Nat
  BY DEF RoundOK
<1>2. keep \in Nat /\ keep <= BPS
  BY RakeFacts
<1> HIDE DEF keep
<1>3. playerDistributable \in 0..round.playerPool
  BY <1>1, <1>2, ShareOfWhole DEF playerDistributable, keep
<1>4. keeperRewardBps \in Nat /\ keeperRewardBps <= BPS
  BY CrashAssumption
<1>5. round.playerPool - playerDistributable \in Nat
  BY <1>1, <1>3
<1>6. keeperReward \in 0..round.playerPool - playerDistributable
  BY <1>4, <1>5, ShareOfWhole DEF keeperReward
<1> QED
  BY <1>1, <1>3, <1>5, <1>6 DEF netRake

\* The sums of a settlement: before it, after it, and what turns into what.
LEMMA SettlementBalances ==
    ASSUME NEW h \in Nat, NEW seed \in Nat, NEW stakes \in Nat, NEW rake \in Nat,
           NEW total \in Int, NEW paid \in Nat, NEW house \in Nat, NEW busted \in Nat,
           NEW purse \in Nat, NEW reward \in Nat, NEW net \in Nat,
           stakes = purse + reward + net,
           paid + house + busted = purse + seed
    PROVE  h + seed + stakes + rake + total
              = h + house + busted + (rake + net) + (total + paid + reward)
  OBVIOUS

\* What is paid and what is returned are the two purses together.
LEMMA SettleFacts ==
    ASSUME NEW purse \in Nat, NEW seed \in Nat, NEW crash, NEW seats, NEW result,
           result = settle(purse, seed, crash, seats),
           Total(result.payouts) \in Nat
    PROVE  /\ result.bustedToReserve \in Nat
           /\ result.houseReturned \in Int
           /\ Total(result.payouts) + result.houseReturned + result.bustedToReserve
                 = purse + seed
<1> DEFINE payouts == Payouts(purse + seed, crash, seats)
           paid == Total(payouts)
           spent == IF paid < purse THEN paid ELSE purse
<1>1. /\ result.payouts = payouts
      /\ result.houseReturned = seed - (paid - spent)
      /\ result.bustedToReserve = purse - spent
  BY DEF settle
<1> HIDE DEF payouts
<1>2. paid \in Nat
  BY <1>1
<1> HIDE DEF paid
<1> QED
  BY <1>1, <1>2 DEF paid

-----------------------------------------------------------------------------
(* One lemma per kind of step                                              *)

LEMMA ClockUnchanged == CrashInv /\ UNCHANGED beaconVars => ClockInv'
  BY DEF CrashInv, ClockInv, beaconVars, TimeOfRound

LEMMA LotteryUnchanged ==
    ASSUME CrashInv, UNCHANGED lotteryVars, currentRoundId' \in Nat \ {0},
           round'.phase \in Running => pendingLotteryRound = 0
    PROVE  LotteryInv'
  BY DEF CrashInv, LotteryInv, lotteryVars, RecordedOnce

\* A stake enters the balance and the pool.
LEMMA BetKeeps ==
    ASSUME CrashInv, NEW player \in Players, NEW targetBps \in Targets,
           NEW stake \in Stakes, placeBet(player, targetBps, stake)
    PROVE  CrashInv'
<1> DEFINE seat == [player |-> player, stake |-> stake, targetBps |-> targetBps]
           stakes == round.playerPool + stake
           book == Append(round.seats, seat)
<1>1. stake \in Nat /\ targetBps \in Nat
  BY CrashAssumption
<1>2. RoundOK(round) /\ round.phase = "BETTING"
  BY DEF CrashInv, placeBet
<1>3. stakes \in Nat
  BY <1>1, <1>2 DEF RoundOK
<1>4. book \in Seq([player : Players, stake : Nat, targetBps : Nat]) /\ book # <<>>
  <2> DEFINE Seats == [player : Players, stake : Nat, targetBps : Nat]
  <2>1. round.seats \in Seq(Seats)
    BY <1>2 DEF RoundOK
  <2>2. seat \in Seats
    BY <1>1
  <2> HIDE DEF Seats, seat
  <2>3. book \in Seq(Seats) /\ Len(book) = Len(round.seats) + 1
    BY <2>1, <2>2
  <2>4. Len(round.seats) \in Nat
    BY <2>1
  <2>5. book # <<>>
    BY <2>3, <2>4
  <2> QED
    BY <2>3, <2>5 DEF Seats
<1>5. round' = [round EXCEPT !.playerPool = stakes, !.seats = book]
  BY DEF placeBet
<1> HIDE DEF stakes, book, seat
<1>6. /\ RoundOK(round')
      /\ round'.phase = round.phase /\ round'.seed = round.seed
      /\ round'.playerPool = stakes
  BY <1>2, <1>3, <1>4, <1>5 DEF RoundOK
<1>7. AtStake(round') = AtStake(round) + stake
  <2>1. round.seed \in Nat /\ round.playerPool \in Nat /\ stakes = round.playerPool + stake
    BY <1>2 DEF RoundOK, stakes
  <2> QED
    BY <1>1, <1>2, <1>6, <2>1 DEF AtStake, Running
<1>8. AtStake(round) \in Nat /\ Held(vault) \in Nat
  <2>1. AtStake(round) \in Nat
    BY <1>2 DEF AtStake, RoundOK
  <2>2. VaultOK(vault)
    BY DEF CrashInv, LedgerInv
  <2> QED
    BY <2>1, <2>2 DEF VaultOK, VaultType, Held
<1>9. LedgerInv'
  BY <1>1, <1>7, <1>8 DEF CrashInv, LedgerInv, placeBet
<1>10. LotteryInv' /\ ClockInv'
  BY <1>2, <1>6, LotteryUnchanged, ClockUnchanged
     DEF placeBet, CrashInv, LotteryInv, Running
<1> QED
  BY <1>6, <1>9, <1>10 DEF CrashInv

\* The seed of an empty round goes back; no stake is lost, there is none.
LEMMA VoidKeeps ==
    ASSUME CrashInv, VoidRound
    PROVE  CrashInv'
<1> DEFINE v == ReturnSeed(vault, round.seed)
<1>1. RoundOK(round) /\ VaultOK(vault) /\ ClockInv /\ currentRoundId \in Nat \ {0}
  BY DEF CrashInv, LedgerInv, LotteryInv
<1>2. round.seed \in Nat /\ round.phase = "BETTING" /\ round.playerPool = 0
  BY <1>1 DEF RoundOK, VoidRound, Lockable
<1>3. VaultOK(v) /\ Held(v) = Held(vault) + AtStake(round)
  BY <1>1, <1>2, ReturnFacts DEF AtStake, Running
<1>4. TryStartRound("VOIDED", v, pendingLotteryRound, TRUE)
  BY DEF VoidRound
<1> HIDE DEF v
<1>5. /\ RoundOK(round') /\ VaultOK(vault')
      /\ Held(vault') + AtStake(round') = Held(v)
      /\ currentRoundId' \in Nat \ {0}
      /\ round'.phase \in Running => pendingLotteryRound = 0
  BY <1>1, <1>3, <1>4, TryStartFacts DEF Ended
<1>6. LedgerInv'
  BY <1>3, <1>5 DEF CrashInv, LedgerInv, VoidRound
<1>7. LotteryInv' /\ ClockInv'
  BY <1>5, LotteryUnchanged, ClockUnchanged DEF VoidRound
<1> QED
  BY <1>5, <1>6, <1>7 DEF CrashInv

LEMMA LockKeeps == CrashInv /\ lockRound => CrashInv'
<1> SUFFICES ASSUME CrashInv, lockRound PROVE CrashInv'
  OBVIOUS
<1>1. RoundOK(round) /\ round.phase = "BETTING"
  BY DEF CrashInv, lockRound, Lockable
<1>2. round' = [round EXCEPT !.phase = "LIVE"]
  BY DEF lockRound
<1>3. RoundOK(round') /\ AtStake(round') = AtStake(round) /\ round'.phase = "LIVE"
  BY <1>1, <1>2 DEF RoundOK, AtStake, Running
<1>4. LedgerInv'
  BY <1>3 DEF CrashInv, LedgerInv, lockRound, moneyVars
<1>5. LotteryInv' /\ ClockInv'
  BY <1>1, LotteryUnchanged, ClockUnchanged
     DEF lockRound, CrashInv, LotteryInv, Running
<1> QED
  BY <1>3, <1>4, <1>5 DEF CrashInv

\* A deferred start: nothing was at stake.
LEMMA RestartKeeps == CrashInv /\ restartRounds => CrashInv'
<1> SUFFICES ASSUME CrashInv, restartRounds PROVE CrashInv'
  OBVIOUS
<1>1. VaultOK(vault) /\ ClockInv /\ currentRoundId \in Nat \ {0}
      /\ StartRound(vault, pendingLotteryRound)
  BY DEF CrashInv, LedgerInv, LotteryInv, restartRounds
<1>2. /\ RoundOK(round') /\ VaultOK(vault')
      /\ Held(vault') + AtStake(round') = Held(vault)
      /\ currentRoundId' \in Nat \ {0}
      /\ pendingLotteryRound = 0
  BY <1>1, StartFacts
<1>3. AtStake(round) = 0
  BY DEF AtStake, Running, restartRounds
<1>4. LedgerInv'
  BY <1>1, <1>2, <1>3 DEF CrashInv, LedgerInv, restartRounds, VaultOK, VaultType, Held
<1>5. LotteryInv' /\ ClockInv'
  BY <1>2, LotteryUnchanged, ClockUnchanged DEF restartRounds
<1> QED
  BY <1>2, <1>4, <1>5 DEF CrashInv

\* A settlement turns the seed and the pool into claims, rake and reserve; the
\* lottery has recorded every earlier round, or the round would not have begun.
LEMMA SettleKeeps ==
    ASSUME CrashInv, NEW keeper \in Players, NEW word \in Words,
           settleRound(keeper, word)
    PROVE  CrashInv'
<1> DEFINE crash == deriveCrash(word)
           result == settle(playerDistributable, round.seed, crash, round.seats)
           paid == Total(result.payouts)
           v == Recycled(result)
<1>1. RoundOK(round) /\ VaultOK(vault) /\ ClockInv
      /\ currentRoundId \in Nat \ {0} /\ qualifiedVolume \in Nat
  BY DEF CrashInv, LedgerInv, LotteryInv
<1>2. round.seed \in Nat /\ round.phase \in Running
  BY <1>1 DEF RoundOK, settleRound, Lockable, Running
<1>3. /\ result.payouts \in [DOMAIN round.seats -> Nat]
      /\ paid \in Nat
      /\ result.houseReturned \in Nat
  BY DEF settleRound, SettleReturns
<1>4. /\ owed' = [p \in Players |->
             owed[p] + PayoutOf(p, result) + (IF p = keeper THEN keeperReward ELSE 0)]
      /\ totalOwed' = totalOwed + paid + keeperReward
      /\ pendingRake' = pendingRake + netRake
      /\ qualifiedVolume' = qualifiedVolume + round.playerPool
      /\ settled' = Append(settled, currentRoundId)
      /\ RecordRound
      /\ TryStartRound("SETTLED", v, pendingLotteryRound', FALSE)
      /\ UNCHANGED <<balance, stalledRound, beaconVars>>
  BY DEF settleRound
<1> HIDE DEF crash
<1>5. /\ round.playerPool \in Nat
      /\ playerDistributable \in Nat /\ keeperReward \in Nat /\ netRake \in Nat
      /\ round.playerPool = playerDistributable + keeperReward + netRake
  BY <1>1, SplitFacts
<1>6. /\ result.bustedToReserve \in Nat
      /\ paid + result.houseReturned + result.bustedToReserve
            = playerDistributable + round.seed
  BY <1>2, <1>3, <1>5, SettleFacts
<1> HIDE DEF result
<1>7. \A p \in Players : PayoutOf(p, result) \in Nat
  BY <1>3 DEF PayoutOf
<1>8. VaultOK(v) /\ Held(v) = Held(vault) + result.houseReturned + result.bustedToReserve
  <2> DEFINE u == ReturnSeed(vault, result.houseReturned)
  <2>1. VaultOK(u) /\ Held(u) = Held(vault) + result.houseReturned
    BY <1>1, <1>3, ReturnFacts
  <2>2. v = ReturnSeed(u, result.bustedToReserve)
    BY DEF Recycled
  <2> HIDE DEF u, v
  <2> QED
    BY <1>6, <2>1, <2>2, ReturnFacts
<1> HIDE DEF v, paid
<1>9. /\ RoundOK(round') /\ VaultOK(vault')
      /\ Held(vault') + AtStake(round') = Held(v)
      /\ currentRoundId' \in Nat \ {0}
      /\ round'.phase \in Running => pendingLotteryRound' = 0
  BY <1>1, <1>4, <1>8, TryStartFacts DEF Ended
<1>10. LedgerInv'
  <2>1. owed' \in [Players -> Nat]
    BY <1>4, <1>5, <1>7 DEF CrashInv, LedgerInv
  <2>2. AtStake(round) = round.seed + round.playerPool
    BY <1>2 DEF AtStake
  <2>3. /\ pendingRake \in Nat /\ totalOwed \in Int /\ balance \in Int
        /\ balance = Held(vault) + AtStake(round) + pendingRake + totalOwed
    BY DEF CrashInv, LedgerInv
  <2>4. Held(vault) \in Nat
    BY <1>1 DEF VaultOK, VaultType, Held
  <2>5. pendingRake' \in Nat /\ qualifiedVolume' \in Nat /\ totalOwed' \in Int
        /\ balance' = balance
    BY <1>1, <1>3, <1>4, <1>5, <2>3 DEF paid
  <2>6. Held(vault') \in Nat /\ AtStake(round') \in Nat
    BY <1>9 DEF VaultOK, VaultType, Held, AtStake, RoundOK
  <2>7. balance = Held(vault') + AtStake(round') + pendingRake' + totalOwed'
    <3>1. Held(vault') + AtStake(round')
             = Held(vault) + result.houseReturned + result.bustedToReserve
      BY <1>8, <1>9
    <3>2. /\ totalOwed' = totalOwed + paid + keeperReward
          /\ pendingRake' = pendingRake + netRake
      BY <1>4
    <3>3. paid \in Nat /\ result.houseReturned \in Nat
      BY <1>3
    <3>4. /\ balance = Held(vault) + round.seed + round.playerPool + pendingRake + totalOwed
          /\ round.seed \in Nat
      BY <1>2, <1>5, <2>2, <2>3, <2>4
    <3>5. /\ round.playerPool = playerDistributable + keeperReward + netRake
          /\ paid + result.houseReturned + result.bustedToReserve
                = playerDistributable + round.seed
      BY <1>5, <1>6
    <3>6. Held(vault) + round.seed + round.playerPool + pendingRake + totalOwed
             = Held(vault) + result.houseReturned + result.bustedToReserve
                 + (pendingRake + netRake) + (totalOwed + paid + keeperReward)
      BY <1>5, <1>6, <2>3, <2>4, <3>3, <3>4, <3>5, SettlementBalances
    <3> QED
      BY <3>1, <3>2, <3>4, <3>6
  <2> QED
    BY <1>9, <2>1, <2>3, <2>5, <2>7 DEF LedgerInv
<1>11. LotteryInv'
  <2>1. /\ pendingLotteryRound = 0
        /\ settled \in Seq(Nat) /\ recorded \in Seq(Nat) /\ settled = recorded
    BY <1>2 DEF CrashInv, LotteryInv, RecordedOnce
  <2>2. CASE recorded' = Append(recorded, currentRoundId)
             /\ pendingLotteryRound' = pendingLotteryRound
    BY <1>1, <1>4, <1>9, <2>1, <2>2 DEF LotteryInv, RecordedOnce
  <2>3. CASE pendingLotteryRound' = currentRoundId /\ recorded' = recorded
    BY <1>1, <1>4, <1>9, <2>1, <2>3 DEF LotteryInv, RecordedOnce
  <2> QED
    BY <1>4, <2>2, <2>3 DEF RecordRound
<1> QED
  BY <1>4, <1>9, <1>10, <1>11, ClockUnchanged DEF CrashInv

\* A retry records the round that was pending, the last one of settled.
LEMMA RetryKeeps == CrashInv /\ retryLottery => CrashInv'
<1> SUFFICES ASSUME CrashInv, retryLottery PROVE CrashInv'
  OBVIOUS
<1>1. RoundOK(round) /\ VaultOK(vault) /\ ClockInv /\ currentRoundId \in Nat \ {0}
  BY DEF CrashInv, LedgerInv, LotteryInv
<1>2. pendingLotteryRound \in Nat \ {0} /\ round.phase \in Ended
  BY <1>1 DEF CrashInv, LotteryInv, retryLottery, RoundOK
<1>3. pendingLotteryRound' = 0
      /\ TryStartRound(round.phase, vault, pendingLotteryRound', FALSE)
  BY DEF retryLottery, NoPending
<1>4. /\ RoundOK(round') /\ VaultOK(vault')
      /\ Held(vault') + AtStake(round') = Held(vault)
      /\ currentRoundId' \in Nat \ {0}
  BY <1>1, <1>2, <1>3, TryStartFacts
<1>5. AtStake(round) = 0 /\ Held(vault) \in Nat
  BY <1>1, <1>2 DEF AtStake, Running, Ended, VaultOK, VaultType, Held
<1>6. LedgerInv'
  BY <1>4, <1>5 DEF CrashInv, LedgerInv, retryLottery
<1>7. LotteryInv'
  BY <1>2, <1>3, <1>4 DEF CrashInv, LotteryInv, RecordedOnce, retryLottery
<1> QED
  BY <1>4, <1>6, <1>7, ClockUnchanged DEF CrashInv, retryLottery

\* Exits and deliveries take from one ledger what they take from the balance;
\* funding adds to both, the protected part with its cover.
LEMMA MoveKeeps == CrashInv /\ Move => CrashInv'
<1> SUFFICES ASSUME CrashInv, Move PROVE CrashInv'
  OBVIOUS
<1>1. /\ RoundOK(round) /\ VaultOK(vault) /\ AtStake(round) \in Nat
      /\ Held(vault) \in Nat
  <2>1. RoundOK(round) /\ VaultOK(vault)
    BY DEF CrashInv, LedgerInv
  <2> QED
    BY <2>1 DEF RoundOK, AtStake, VaultOK, VaultType, Held
<1>2. ASSUME UNCHANGED <<roundVars, lotteryVars, stalledRound, beaconVars>>
      PROVE  RoundOK(round') /\ LotteryInv' /\ ClockInv' /\ AtStake(round') = AtStake(round)
  BY <1>1, <1>2, LotteryUnchanged, ClockUnchanged DEF roundVars, CrashInv, LotteryInv
<1>3. ASSUME NEW player \in Players, withdraw(player) PROVE CrashInv'
  <2>1. owed[player] \in Nat /\ owed' \in [Players -> Nat]
    BY <1>3 DEF CrashInv, LedgerInv, withdraw
  <2>2. LedgerInv'
    BY <1>1, <1>2, <1>3, <2>1 DEF CrashInv, LedgerInv, withdraw
  <2> QED
    BY <1>2, <1>3, <2>2 DEF CrashInv, withdraw
<1>4. ASSUME NEW amount \in Nat, NEW v, Fund(amount, v),
             VaultOK(v), Held(v) = Held(vault) + amount
      PROVE  CrashInv'
  <2>1. LedgerInv'
    BY <1>1, <1>2, <1>4 DEF CrashInv, LedgerInv, Fund
  <2> QED
    BY <1>2, <1>4, <2>1 DEF CrashInv, Fund
<1>5. ASSUME NEW amount \in Funding, fundVault(amount) PROVE CrashInv'
  <2>1. amount \in Nat
    BY CrashAssumption
  <2> QED
    BY <1>1, <1>4, <1>5, <2>1, CreditFacts DEF fundVault
<1>6. ASSUME NEW amount \in Nat \ {0}, fundCommunityReturn(amount) PROVE CrashInv'
  <2> DEFINE principal == (amount * protectedPrincipalBps) \div BPS
             p == vault.protectedPrincipal + principal
             r == vault.reserve + principal
             protected == [vault EXCEPT !.protectedPrincipal = p, !.reserve = r]
  <2>1. amount \in Nat /\ protectedPrincipalBps \in Nat /\ protectedPrincipalBps <= BPS
    BY CrashAssumption, PoolAssumption
  <2>2. principal \in 0..amount
    BY <2>1, ShareOfWhole
  <2>3. Fund(amount, creditBuffer(protected, amount - principal))
    BY <1>6 DEF fundCommunityReturn
  <2> HIDE DEF principal
  <2>4. /\ vault.protectedPrincipal \in Nat /\ vault.reserve \in Nat
        /\ vault.pendingOverflow \in Nat /\ vault.reserve >= vault.protectedPrincipal
    BY <1>1 DEF VaultOK, VaultType
  <2>5. p \in Nat /\ r \in Nat /\ r >= p /\ r = vault.reserve + principal
    BY <2>1, <2>2, <2>4
  <2> HIDE DEF p, r
  <2>6. protected \in VaultType /\ protected.reserve = r /\ protected.protectedPrincipal = p
           /\ protected.pendingOverflow = vault.pendingOverflow
    BY <1>1, <2>5 DEF VaultOK, VaultType
  <2> HIDE DEF protected
  <2>7. VaultOK(protected) /\ Held(protected) = Held(vault) + principal
    BY <2>1, <2>2, <2>4, <2>5, <2>6 DEF VaultOK, Held
  <2>8. amount - principal \in Nat
    BY <2>1, <2>2
  <2>9. /\ VaultOK(creditBuffer(protected, amount - principal))
        /\ Held(creditBuffer(protected, amount - principal))
              = Held(protected) + (amount - principal)
    BY <2>7, <2>8, CreditFacts
  <2>10. Held(creditBuffer(protected, amount - principal)) = Held(vault) + amount
    BY <1>1, <2>1, <2>2, <2>7, <2>9
  <2> QED
    BY <1>4, <2>1, <2>3, <2>9, <2>10
<1>7. CASE flushRake
  <2>1. LedgerInv'
    BY <1>1, <1>2, <1>7 DEF CrashInv, LedgerInv, flushRake
  <2> QED
    BY <1>2, <1>7, <2>1 DEF CrashInv, flushRake
<1>8. CASE deliverOverflow
  <2>1. vault' = [vault EXCEPT !.pendingOverflow = 0]
    BY <1>8 DEF deliverOverflow
  <2>2. VaultOK(vault') /\ vault'.reserve = vault.reserve /\ vault'.pendingOverflow = 0
    BY <1>1, <2>1 DEF VaultOK, VaultType
  <2>3. /\ vault.reserve \in Nat /\ vault.pendingOverflow \in Nat
        /\ balance' = balance - vault.pendingOverflow
    BY <1>1, <1>8 DEF VaultOK, VaultType, deliverOverflow
  <2>4. LedgerInv'
    BY <1>1, <1>2, <1>8, <2>2, <2>3 DEF CrashInv, LedgerInv, deliverOverflow, Held
  <2> QED
    BY <1>2, <1>8, <2>4 DEF CrashInv, deliverOverflow
<1> QED
  BY <1>3, <1>5, <1>6, <1>7, <1>8 DEF Move

\* The clocks move, the network stays within its lag.
LEMMA EnvironmentKeeps == CrashInv /\ Environment => CrashInv'
<1> SUFFICES ASSUME CrashInv, Environment PROVE CrashInv'
  OBVIOUS
<1>1. RoundOK(round') /\ LedgerInv' /\ LotteryInv'
  BY LotteryUnchanged
     DEF Environment, roundVars, moneyVars, CrashInv, LedgerInv, LotteryInv
<1>2. ClockInv
  BY DEF CrashInv
<1> USE BeaconAssumption, CrashAssumption
<1>3. CASE Tick
  <2>1. published > 0 => TimeOfRound(published) \in Int
    BY <1>2, Product DEF ClockInv, TimeOfRound
  <2> QED
    BY <1>1, <1>2, <1>3, <2>1 DEF ClockInv, Tick, CrashInv, TimeOfRound
<1>4. CASE PublishRound
  BY <1>1, <1>2, <1>4 DEF ClockInv, PublishRound, CrashInv
<1>5. CASE SubmitRound(round.target, SignatureOf(round.target))
  BY <1>1, <1>2, <1>5 DEF ClockInv, SubmitRound, CrashInv, TimeOfRound
<1> QED
  BY <1>3, <1>4, <1>5 DEF Environment

\* The constructor's state, at or after the beacon's genesis.
LEMMA CrashInitially == CrashInit => CrashInv
<1> SUFFICES ASSUME CrashInit PROVE CrashInv
  OBVIOUS
<1> USE CrashAssumption, BeaconAssumption
<1> DEFINE deadline == now + bettingDurationSeconds
<1>1. now = deployedAt /\ now \in Nat /\ deadline \in Nat /\ deadline >= genesisTimestamp
  BY DEF CrashInit
<1>2. ClockInv
  <2> DEFINE q == (now - genesisTimestamp) \div period
  <2>0. now - genesisTimestamp \in Nat /\ period \in Nat \ {0}
    BY <1>1
  <2>1. q \in Nat /\ q * period <= now - genesisTimestamp
    BY <2>0, CrashDivision
  <2>2. published = q + 1
    BY <1>1 DEF CrashInit, currentRoundAt
  <2>3. (q + 1 - 1) * period = q * period /\ q * period \in Nat
    BY <2>1
  <2> HIDE DEF q
  <2> QED
    BY <1>1, <2>1, <2>2, <2>3 DEF ClockInv, TimeOfRound
<1>3. VaultOK(NewVault) /\ Held(NewVault) = 0
  BY DEF VaultOK, VaultType, Held, NewVault
<1>4. round = NewRound(deadline, nextSeed(NewVault)) /\ vault = drawSeed(NewVault)
  BY DEF CrashInit
<1>5. nextSeed(NewVault) \in Nat /\ VaultOK(vault)
         /\ Held(vault) = 0 - nextSeed(NewVault)
  BY <1>3, <1>4, DrawFacts
<1>6. TargetFor(deadline) \in Nat
  BY <1>1, RoundNumbers
<1> HIDE DEF deadline
<1>7. RoundOK(round) /\ AtStake(round) = nextSeed(NewVault)
  BY <1>1, <1>4, <1>5, <1>6 DEF RoundOK, NewRound, AtStake, Running, Ended
<1>8. LedgerInv
  BY <1>5, <1>7 DEF CrashInit, LedgerInv
<1>9. LotteryInv
  BY DEF CrashInit, LotteryInv, RecordedOnce
<1> QED
  BY <1>2, <1>7, <1>8, <1>9 DEF CrashInv

LEMMA CrashStep == CrashInv /\ [CrashNext]_crashVars => CrashInv'
<1> SUFFICES ASSUME CrashInv, [CrashNext]_crashVars PROVE CrashInv'
  OBVIOUS
<1>1. CASE Bet
  BY <1>1, BetKeeps DEF Bet
<1>2. CASE Keep
  BY <1>2, VoidKeeps, LockKeeps, SettleKeeps, RestartKeeps, RetryKeeps DEF Keep
<1>3. CASE freezeStalledRound \/ UNCHANGED crashVars
  <2>1. UNCHANGED <<roundVars, moneyVars, lotteryVars, beaconVars>>
    BY <1>3 DEF freezeStalledRound, crashVars
  <2>2. RoundOK(round') /\ LedgerInv'
    BY <2>1 DEF roundVars, moneyVars, CrashInv, LedgerInv
  <2>3. LotteryInv' /\ ClockInv'
    BY <2>1, LotteryUnchanged, ClockUnchanged DEF CrashInv, LotteryInv, roundVars
  <2> QED
    BY <2>2, <2>3 DEF CrashInv
<1>4. CASE Move \/ Environment
  BY <1>4, MoveKeeps, EnvironmentKeeps
<1> QED
  BY <1>1, <1>2, <1>3, <1>4 DEF CrashNext

LEMMA CrashInvariance == CrashSpec => []CrashInv
  BY CrashInitially, CrashStep, PTL DEF CrashSpec

-----------------------------------------------------------------------------
(* Theorems                                                                *)

\* The storage is well typed: a seed never exceeds the reserve, no debit a ledger
\* (_drawSeed, _creditBuffer, _debit, flushRake, deliverOverflow).
THEOREM CrashTypes == CrashSpec => []CrashTypeOK
<1>1. CrashInv => CrashTypeOK
  BY DEF CrashInv, RoundOK, Running, Ended, LedgerInv, VaultOK, VaultType, LotteryInv,
         CrashTypeOK
<1> QED
  BY <1>1, CrashInvariance, PTL

\* The reserve covers the protected principal, whatever was seeded, returned,
\* capped and queued (_drawSeed, _creditBuffer, fundCommunityReturn).
THEOREM PrincipalSafe == CrashSpec => []PrincipalProtected
<1>1. CrashInv => PrincipalProtected
  BY DEF CrashInv, LedgerInv, VaultOK, PrincipalProtected
<1> QED
  BY <1>1, CrashInvariance, PTL

\* The ledgers add up to the contract's balance through every transaction, for
\* every rake schedule, cap and stake (accountedBalance).
THEOREM AccountsAddUp == CrashSpec => []Accounted
<1>1. CrashInv => Accounted
  <2> SUFFICES ASSUME CrashInv PROVE Accounted
    OBVIOUS
  <2>1. /\ vault.reserve \in Nat /\ vault.pendingOverflow \in Nat
        /\ pendingRake \in Nat /\ totalOwed \in Int
        /\ round.seed \in Nat /\ round.playerPool \in Nat
        /\ balance = vault.reserve + vault.pendingOverflow + AtStake(round)
                        + pendingRake + totalOwed
    BY DEF CrashInv, LedgerInv, VaultOK, VaultType, Held, RoundOK
  <2> QED
    BY <2>1 DEF Accounted, AtStake, Running
<1> QED
  BY <1>1, CrashInvariance, PTL

\* The lottery has recorded every settled round once and in order, but for the
\* last one while it is pending (settleRound, retryLottery and _startRound).
THEOREM LotteryRecords == CrashSpec => []RecordedOnce
<1>1. CrashInv => RecordedOnce
  BY DEF CrashInv, LotteryInv
<1> QED
  BY <1>1, CrashInvariance, PTL

\* A deadline d lies before the emission of its target round by more than the
\* safety periods.
LEMMA TargetIsLate ==
    ASSUME NEW d \in Nat, d >= genesisTimestamp, NEW r \in Nat, r >= TargetFor(d)
    PROVE  TimeOfRound(r) > d + TARGET_ROUND_SAFETY_PERIODS * period
<1> USE BeaconAssumption
<1> DEFINE S == TARGET_ROUND_SAFETY_PERIODS
           q == (d - genesisTimestamp) \div period
<1>0. S \in Nat /\ d - genesisTimestamp \in Nat
  BY CrashAssumption
<1>1. q \in Nat /\ d - genesisTimestamp < q * period + period
  BY <1>0, CrashDivision
<1>2. TargetFor(d) = q + 2 + S
  BY <1>0, <1>1 DEF TargetFor, nextRoundAfter, currentRoundAt
<1> HIDE DEF S, q
<1>3. r - 1 >= q + 1 + S
  BY <1>0, <1>1, <1>2
<1>4. (r - 1) * period >= (q + 1 + S) * period
  BY <1>0, <1>1, <1>3
<1>5. (q + 1 + S) * period = q * period + period + S * period
  BY <1>0, <1>1
<1>6. /\ q * period \in Nat /\ S * period \in Nat
      /\ (r - 1) * period \in Int
  BY <1>0, <1>1
<1> QED
  BY <1>0, <1>1, <1>4, <1>5, <1>6 DEF TimeOfRound, S

\* While the chain lags the network by the safety periods at most, no bet is
\* taken once the round's randomness is out, for every genesis, period, slot
\* and deferral (_startRound and _placeBet).
THEOREM BetsAreBlind == CrashSpec => []BetsBlind
<1>1. CrashInv => BetsBlind
  <2> SUFFICES ASSUME CrashInv, MaxLag <= TARGET_ROUND_SAFETY_PERIODS * period,
                      now < round.bettingEndsAt, ~(published < round.target)
               PROVE  FALSE
    BY DEF BetsBlind
  <2> DEFINE lead == TARGET_ROUND_SAFETY_PERIODS * period
  <2>1. /\ round.bettingEndsAt \in Nat /\ round.bettingEndsAt >= genesisTimestamp
        /\ round.target = TargetFor(round.bettingEndsAt) /\ round.target \in Nat
    BY DEF CrashInv, RoundOK
  <2>2. /\ now \in Nat /\ published \in Nat
        /\ published > 0 => TimeOfRound(published) <= now + MaxLag
    BY DEF CrashInv, ClockInv
  <2>3. published >= TargetFor(round.bettingEndsAt)
    BY <2>1, <2>2
  <2>4. TimeOfRound(published) > round.bettingEndsAt + lead
    BY <2>1, <2>2, <2>3, TargetIsLate
  <2>5. published > 0
    <3> DEFINE t == round.bettingEndsAt
    <3>1. t >= genesisTimestamp => (t - genesisTimestamp) \div period \in Nat
      BY <2>1, BeaconAssumption, CrashDivision
    <3>2. TargetFor(t) > 0
      BY <2>1, <3>1, CrashAssumption, BeaconAssumption
         DEF TargetFor, nextRoundAfter, currentRoundAt
    <3> QED
      BY <2>1, <2>2, <2>3, <3>2, RoundNumbers
  <2>6. /\ lead \in Nat /\ MaxLag \in Nat /\ genesisTimestamp \in Nat /\ period \in Nat
    BY CrashAssumption, BeaconAssumption, Product
  <2>7. TimeOfRound(published) \in Int
    BY <2>2, <2>6 DEF TimeOfRound
  <2>8. MaxLag <= lead
    OBVIOUS
  <2> HIDE DEF lead
  <2> QED
    BY <2>1, <2>2, <2>4, <2>5, <2>6, <2>7, <2>8
<1> QED
  BY <1>1, CrashInvariance, PTL

-----------------------------------------------------------------------------
(* The book of a round, and what its settlement can pay                    *)

\* What _placeBet lets into a book: so many seats, one per player, within the
\* limits; the pool is what they staked, and the seed is one the library takes.
BookOK(r) ==
    /\ Len(r.seats) <= maxSeats
    /\ \A i \in DOMAIN r.seats :
          /\ r.seats[i].player \in Players
          /\ r.seats[i].stake \in 1..MAX_STAKE
          /\ r.seats[i].targetBps \in MIN_TARGET_BPS..MAX_TARGET
    /\ \A i, j \in DOMAIN r.seats : r.seats[i].player = r.seats[j].player => i = j
    /\ r.playerPool = Total(StakesOf(r.seats))
    /\ r.seed <= MAX_POT

SeatsInv == BookOK(round) /\ OwedAddsUp

\* The sequence of seats, out of the type of a round.
LEMMA SeatsAreSequence ==
    ASSUME NEW r, RoundOK(r)
    PROVE  /\ Len(r.seats) \in Nat
           /\ DOMAIN r.seats = 1..Len(r.seats)
           /\ r.seats \in Seq([player : Players, stake : Nat, targetBps : Nat])
           /\ r.seed \in Nat /\ r.playerPool \in Nat
<1> DEFINE T == [player : Players, stake : Nat, targetBps : Nat]
<1>1. r.seats \in Seq(T) /\ r.seed \in Nat /\ r.playerPool \in Nat
  BY DEF RoundOK
<1> HIDE DEF T
<1>2. Len(r.seats) \in Nat /\ DOMAIN r.seats = 1..Len(r.seats)
  BY <1>1
<1> QED
  BY <1>1, <1>2 DEF T

LEMMA BookSeats ==
    ASSUME NEW r, RoundOK(r), BookOK(r)
    PROVE  SeatsOK(r.seats)
<1>1. Len(r.seats) \in Nat /\ DOMAIN r.seats = 1..Len(r.seats)
  BY SeatsAreSequence
<1>2. ASSUME NEW i \in DOMAIN r.seats
      PROVE  /\ r.seats[i].stake \in Nat \ {0}
             /\ r.seats[i].targetBps \in Nat /\ r.seats[i].targetBps > BPS
  <2> DEFINE s == r.seats[i].stake
             t == r.seats[i].targetBps
  <2>1. s \in 1..MAX_STAKE /\ t \in MIN_TARGET_BPS..MAX_TARGET
    BY DEF BookOK
  <2> HIDE DEF s, t
  <2>2. s \in Nat \ {0} /\ t \in Nat /\ t > BPS
    BY <2>1, PoolAssumption
  <2> QED
    BY <2>2 DEF s, t
<1> QED
  BY <1>1, <1>2 DEF SeatsOK

\* An empty book has no pool.
LEMMA NothingStaked == Total(StakesOf(<<>>)) = 0
<1>1. DOMAIN <<>> = {}
  OBVIOUS
<1>2. DOMAIN StakesOf(<<>>) = {}
  BY <1>1 DEF StakesOf
<1>3. IsFiniteSet({})
  BY FS_EmptySet
<1>4. SumFunctionOnSet(StakesOf(<<>>), {}) = 0
  BY <1>3, SumZero
<1> QED
  BY <1>2, <1>4 DEF Total

LEMMA NewBook ==
    ASSUME NEW deadline, NEW seed, seed <= MAX_POT
    PROVE  BookOK(NewRound(deadline, seed))
<1>1. /\ NewRound(deadline, seed).seats = <<>>
      /\ NewRound(deadline, seed).playerPool = 0
      /\ NewRound(deadline, seed).seed = seed
  BY DEF NewRound
<1>2. Len(<<>>) = 0 /\ DOMAIN <<>> = {} /\ 0 <= maxSeats
  BY CrashAssumption, PoolAssumption
<1> QED
  BY <1>1, <1>2, NothingStaked DEF BookOK

\* nextSeed never exceeds what the library takes.
LEMMA SeedBounded == ASSUME NEW v, VaultOK(v) PROVE nextSeed(v) <= MAX_POT
<1>1. nextSeed(v) \in Nat /\ MAX_POT \in Nat
  BY DrawFacts, PoolAssumption
<1> DEFINE quote == (Buffer(v) * houseCapBps) \div BPS
           funded == IF quote > v.seedBudget THEN v.seedBudget ELSE quote
<1>2. nextSeed(v) = IF funded > MAX_POT THEN MAX_POT ELSE funded
  BY DEF nextSeed
<1>3. funded \in Int
  <2>1. quote \in Nat /\ v.seedBudget \in Nat
    <3>1. v.reserve \in Nat /\ v.protectedPrincipal \in Nat /\ v.seedBudget \in Nat
          /\ v.reserve >= v.protectedPrincipal
      BY DEF VaultOK, VaultType
    <3>2. Buffer(v) \in Nat /\ houseCapBps \in Nat /\ houseCapBps <= BPS
      BY <3>1, CrashAssumption, PoolAssumption DEF Buffer
    <3>3. quote \in 0..Buffer(v)
      BY <3>2, ShareOfWhole
    <3> HIDE DEF quote
    <3> QED
      BY <3>1, <3>2, <3>3
  <2> HIDE DEF quote
  <2> QED
    BY <2>1
<1> HIDE DEF funded
<1> QED
  BY <1>1, <1>2, <1>3

LEMMA BookStarts ==
    ASSUME NEW v, VaultOK(v), NEW pending, StartRound(v, pending)
    PROVE  BookOK(round')
  BY NewBook, SeedBounded DEF StartRound

LEMMA BookKept ==
    ASSUME NEW r, NEW q, BookOK(r), q.seats = r.seats, q.playerPool = r.playerPool,
           q.seed = r.seed
    PROVE  BookOK(q)
  BY DEF BookOK

LEMMA BookTried ==
    ASSUME RoundOK(round), BookOK(round), NEW v, VaultOK(v), NEW pending, NEW phase,
           NEW mayStarve, TryStartRound(phase, v, pending, mayStarve)
    PROVE  BookOK(round')
<1>1. CASE StartRound(v, pending)
  BY <1>1, BookStarts
<1>2. CASE round' = [round EXCEPT !.phase = phase]
  <2>1. /\ round'.seats = round.seats /\ round'.playerPool = round.playerPool
        /\ round'.seed = round.seed
    BY <1>2 DEF RoundOK
  <2> QED
    BY <2>1, BookKept
<1> QED
  BY <1>1, <1>2 DEF TryStartRound

\* One stake more in the book is so much more in the pool.
LEMMA StakeAdded ==
    ASSUME NEW T, NEW seats \in Seq(T), NEW seat,
           NEW book, book = Append(seats, seat),
           \A i \in DOMAIN seats : seats[i].stake \in Nat, seat.stake \in Nat
    PROVE  Total(StakesOf(book)) = Total(StakesOf(seats)) + seat.stake
<1> DEFINE n == Len(seats)
           f == StakesOf(seats)
           g == StakesOf(book)
           S == 1..n
           U == 1..n + 1
<1>1. /\ n \in Nat /\ DOMAIN seats = S /\ DOMAIN book = U
      /\ \A i \in S : book[i] = seats[i]
      /\ book[n + 1] = seat
  <2> HIDE DEF f, g
  <2> QED
    OBVIOUS
<1>2. /\ DOMAIN f = S /\ DOMAIN g = U
      /\ \A i \in S : f[i] = seats[i].stake /\ g[i] = f[i] /\ f[i] \in Nat
      /\ g[n + 1] = seat.stake
  <2>1. S \subseteq U /\ n + 1 \in U
    BY <1>1
  <2>2. f = [i \in S |-> seats[i].stake] /\ g = [i \in U |-> book[i].stake]
    BY <1>1 DEF StakesOf
  <2> HIDE DEF f, g, S, U
  <2> QED
    BY <1>1, <2>1, <2>2
<1>3. /\ IsFiniteSet(S) /\ IsFiniteSet(U)
      /\ n + 1 \in U /\ U \ {n + 1} = S /\ \A i \in U : i \in S \/ i = n + 1
  <2>1. n + 1 \in U /\ U \ {n + 1} = S /\ \A i \in U : i \in S \/ i = n + 1
    BY <1>1
  <2>2. IsFiniteSet(S)
    BY <1>1, FS_Interval
  <2>3. IsFiniteSet(U)
    <3>1. 1 \in Int /\ n + 1 \in Int
      BY <1>1
    <3> HIDE DEF n
    <3> QED
      BY <3>1, FS_Interval
  <2> QED
    BY <2>1, <2>2, <2>3
<1> HIDE DEF f, g, S, U
<1>4. IntOn(f, S) /\ IntOn(g, U)
  BY <1>2, <1>3 DEF IntOn
<1>5. SumFunctionOnSet(g, U) = seat.stake + SumFunctionOnSet(g, S)
  <2>1. SumFunctionOnSet(g, U) = g[n + 1] + SumFunctionOnSet(g, U \ {n + 1})
    BY <1>3, <1>4, SumSplit
  <2>2. U \ {n + 1} = S /\ g[n + 1] = seat.stake
    BY <1>2, <1>3
  <2> QED
    BY ONLY <2>1, <2>2
<1>6. SumFunctionOnSet(f, S) = SumFunctionOnSet(g, S)
  BY <1>2, <1>3, <1>4, SumAgree
<1>7. SumFunctionOnSet(f, S) \in Int
  BY <1>3, <1>4, SumChosen
<1>8. Total(f) = SumFunctionOnSet(f, S) /\ Total(g) = SumFunctionOnSet(g, U)
  BY <1>2 DEF Total
<1>9. Total(g) = Total(f) + seat.stake
  BY <1>5, <1>6, <1>7, <1>8
<1> QED
  BY <1>9 DEF f, g

LEMMA BookBet ==
    ASSUME CrashInv, BookOK(round), NEW player \in Players, NEW targetBps \in Targets,
           NEW stake \in Stakes, placeBet(player, targetBps, stake)
    PROVE  BookOK(round')
<1> DEFINE seat == [player |-> player, stake |-> stake, targetBps |-> targetBps]
           seats == round.seats
           book == Append(seats, seat)
           n == Len(seats)
<1>1. RoundOK(round)
  BY DEF CrashInv
<1>2. /\ n \in Nat /\ DOMAIN seats = 1..n
      /\ seats \in Seq([player : Players, stake : Nat, targetBps : Nat])
      /\ round.seed \in Nat /\ round.playerPool \in Nat
  BY <1>1, SeatsAreSequence
<1>3. /\ \A i \in DOMAIN seats : seats[i].player # player
      /\ stake \in (IF minStakeWei = 0 THEN 1 ELSE minStakeWei)..MAX_STAKE
      /\ targetBps \in MIN_TARGET_BPS..maxTargetBps
      /\ n < maxSeats
      /\ round' = [round EXCEPT !.playerPool = @ + stake, !.seats = book]
  BY DEF placeBet
<1>4. stake \in 1..MAX_STAKE /\ targetBps \in MIN_TARGET_BPS..MAX_TARGET
      /\ maxSeats \in Nat
  <2>1. minStakeWei \in Nat /\ maxTargetBps \in MIN_TARGET_BPS..MAX_TARGET
        /\ maxSeats \in 1..MAX_SEATS /\ MAX_SEATS \in Nat /\ MAX_STAKE \in Nat
        /\ MIN_TARGET_BPS \in Nat /\ MAX_TARGET \in Nat
    BY CrashAssumption, PoolAssumption
  <2> QED
    BY <1>3, <2>1
<1>5. /\ round'.seats = book /\ round'.playerPool = round.playerPool + stake
      /\ round'.seed = round.seed
  BY <1>1, <1>3 DEF RoundOK
<1>6. /\ Len(book) = n + 1 /\ DOMAIN book = 1..n + 1
      /\ \A i \in 1..n : book[i] = seats[i]
      /\ book[n + 1] = seat
  <2> DEFINE T == [player : Players, stake : Nat, targetBps : Nat]
  <2>1. seats \in Seq(T) /\ seat \in T
    BY <1>2, CrashAssumption
  <2> HIDE DEF T, seat
  <2> QED
    BY <2>1
<1>7. seat.player = player /\ seat.stake = stake /\ seat.targetBps = targetBps
  OBVIOUS
<1>8. Total(StakesOf(book)) = Total(StakesOf(seats)) + stake
  <2>1. SeatsOK(seats)
    BY <1>1, BookSeats
  <2>2. \A i \in DOMAIN seats : seats[i].stake \in Nat
    BY <2>1, SeatFacts
  <2>3. stake \in Nat
    BY CrashAssumption
  <2> HIDE DEF book, seat
  <2> QED
    BY <1>2, <1>7, <2>2, <2>3, StakeAdded DEF book
<1> HIDE DEF book, seat
<1>9. \A i \in DOMAIN book : (i \in DOMAIN seats /\ book[i] = seats[i]) \/ i = n + 1
  BY <1>2, <1>6
<1>10. \A i \in DOMAIN book :
         /\ book[i].player \in Players
         /\ book[i].stake \in 1..MAX_STAKE
         /\ book[i].targetBps \in MIN_TARGET_BPS..MAX_TARGET
  BY <1>4, <1>6, <1>7, <1>9 DEF BookOK
<1>11. \A i, j \in DOMAIN book : book[i].player = book[j].player => i = j
  <2>1. \A i, j \in DOMAIN seats : seats[i].player = seats[j].player => i = j
    BY DEF BookOK
  <2> QED
    BY <1>3, <1>6, <1>7, <1>9, <2>1
<1> HIDE DEF n, seats
<1>12. Len(book) <= maxSeats
  BY <1>2, <1>3, <1>4, <1>6
<1>13. round.playerPool + stake = Total(StakesOf(book)) /\ round.seed <= MAX_POT
  BY <1>8 DEF BookOK, seats
<1> QED
  BY <1>5, <1>10, <1>11, <1>12, <1>13 DEF BookOK

\* Every seat's payout is credited to one player, a player has one seat.
LEMMA PayoutsCredited ==
    ASSUME RoundOK(round), BookOK(round), NEW result,
           result.payouts \in [DOMAIN round.seats -> Nat],
           NEW f, f = [p \in Players |-> PayoutOf(p, result)]
    PROVE  /\ f \in [Players -> Nat]
           /\ SumFunctionOnSet(f, Players) = Total(result.payouts)
<1> DEFINE seats == round.seats
           S == DOMAIN seats
           P == result.payouts
           m == [i \in S |-> seats[i].player]
           At(p) == CHOOSE i \in S : seats[i].player = p
<1>1. /\ \A i \in S : seats[i].player \in Players
      /\ \A i, j \in S : seats[i].player = seats[j].player => i = j
  BY DEF BookOK
<1>2. \A p \in Players :
         f[p] = IF \E i \in S : seats[i].player = p THEN P[At(p)] ELSE 0
  BY DEF PayoutOf
<1>3. \A p \in Players : (\E i \in S : seats[i].player = p)
                            => At(p) \in S /\ seats[At(p)].player = p
  OBVIOUS
<1>4. P \in [S -> Nat]
  OBVIOUS
<1> HIDE DEF At, P
<1>5. f \in [Players -> Nat]
  <2>1. \A p \in Players : f[p] \in Nat
    BY <1>2, <1>3, <1>4
  <2> QED
    BY <2>1
<1>6. m \in [S -> Players] /\ \A i \in S : m[i] = seats[i].player
  BY <1>1
<1>7. \A i \in S : f[m[i]] = P[i]
  <2>1. ASSUME NEW i \in S PROVE f[seats[i].player] = P[i]
    <3>1. seats[i].player \in Players
      BY <1>1
    <3>2. At(seats[i].player) = i
      BY <1>1, <1>3, <3>1
    <3> QED
      BY <1>2, <3>1, <3>2
  <2> QED
    BY <1>6, <2>1
<1>8. \A p \in Players : (\A i \in S : m[i] # p) => f[p] = 0
  BY <1>2, <1>6
<1>9. \A i \in S, j \in S : m[i] = m[j] => i = j
  BY <1>1, <1>6
<1>10. IsFiniteSet(S) /\ IsFiniteSet(Players)
  BY BookSeats, SeatsFinite, CrashAssumption
<1>11. IntOn(P, S) /\ IntOn(f, Players)
  BY <1>4, <1>5 DEF IntOn
<1>12. Carries(m, S, P, Players, f)
  BY <1>6, <1>7, <1>8, <1>9 DEF Carries
<1> HIDE DEF m, S
<1>13. SumFunctionOnSet(f, Players) = SumFunctionOnSet(P, S)
  BY <1>10, <1>11, <1>12, SumImage
<1>14. Total(P) = SumFunctionOnSet(P, S)
  BY <1>4 DEF Total
<1> QED
  BY <1>5, <1>13, <1>14 DEF P

LEMMA OwedSettled ==
    ASSUME CrashInv, SeatsInv, NEW keeper \in Players, NEW word \in Words,
           settleRound(keeper, word)
    PROVE  OwedAddsUp'
<1> DEFINE result == settle(playerDistributable, round.seed, deriveCrash(word), round.seats)
           f == [p \in Players |-> PayoutOf(p, result)]
           o == [p \in Players |-> owed[p] + f[p]]
           paid == Total(result.payouts)
<1>1. /\ RoundOK(round) /\ BookOK(round)
      /\ owed \in [Players -> Nat] /\ qualifiedVolume \in Nat
      /\ totalOwed = Total(owed)
  BY DEF CrashInv, LedgerInv, SeatsInv, OwedAddsUp
<1>2. /\ result.payouts \in [DOMAIN round.seats -> Nat]
      /\ paid \in Nat
  BY DEF settleRound, SettleReturns
<1>3. /\ owed' = [p \in Players |->
             owed[p] + PayoutOf(p, result) + (IF p = keeper THEN keeperReward ELSE 0)]
      /\ totalOwed' = totalOwed + paid + keeperReward
  BY DEF settleRound
<1>4. keeperReward \in Nat
  BY <1>1, SplitFacts
<1> HIDE DEF result
<1>5. f \in [Players -> Nat] /\ SumFunctionOnSet(f, Players) = paid
  BY <1>1, <1>2, PayoutsCredited
<1>6. /\ \A p \in Players : f[p] = PayoutOf(p, result)
      /\ \A p \in Players : f[p] \in Nat /\ owed[p] \in Nat
  BY <1>1, <1>5
<1> HIDE DEF paid, f
<1>7. /\ \A p \in Players : o[p] = owed[p] + f[p]
      /\ \A p \in Players : o[p] \in Nat
  BY <1>6
<1>8. /\ \A p \in Players : owed'[p] = o[p] + (IF p = keeper THEN keeperReward ELSE 0)
      /\ owed' \in [Players -> Nat]
  <2>1. \A p \in Players :
          /\ owed'[p] = owed[p] + f[p] + (IF p = keeper THEN keeperReward ELSE 0)
          /\ owed'[p] \in Nat
    BY <1>3, <1>4, <1>6
  <2> QED
    BY <1>3, <1>7, <2>1
<1> HIDE DEF o
<1>9. /\ IsFiniteSet(Players)
      /\ IntOn(owed, Players) /\ IntOn(f, Players) /\ IntOn(o, Players)
      /\ IntOn(owed', Players)
  BY <1>6, <1>7, <1>8, CrashAssumption DEF IntOn
<1>10. SumFunctionOnSet(o, Players) = SumFunctionOnSet(owed, Players) + paid
  <2>1. SumFunctionOnSet(o, Players)
          = SumFunctionOnSet(owed, Players) + SumFunctionOnSet(f, Players)
    BY <1>7, <1>9, SumAdd
  <2> QED
    BY <1>5, <2>1
<1>11. SumFunctionOnSet(owed', Players)
          = SumFunctionOnSet(o, Players) - o[keeper] + owed'[keeper]
  <2>1. \A p \in Players : p # keeper => owed'[p] = o[p]
    BY <1>7, <1>8
  <2> QED
    BY <1>9, <2>1, SumUpdate
<1>12. owed'[keeper] = o[keeper] + keeperReward /\ o[keeper] \in Nat
  BY <1>7, <1>8
<1>13. /\ Total(owed) = SumFunctionOnSet(owed, Players)
       /\ Total(owed') = SumFunctionOnSet(owed', Players)
       /\ SumFunctionOnSet(owed, Players) \in Int
  BY <1>1, <1>8, <1>9, SumChosen DEF Total
<1>14. paid \in Nat
  BY <1>2
<1>15. totalOwed' = Total(owed')
  BY <1>1, <1>3, <1>4, <1>10, <1>11, <1>12, <1>13, <1>14
<1> QED
  BY <1>15 DEF OwedAddsUp, Total

LEMMA OwedWithdrawn ==
    ASSUME CrashInv, SeatsInv, NEW player \in Players, withdraw(player)
    PROVE  OwedAddsUp'
<1>1. owed \in [Players -> Nat] /\ totalOwed = Total(owed)
  BY DEF CrashInv, LedgerInv, SeatsInv, OwedAddsUp
<1>2. /\ owed' = [owed EXCEPT ![player] = 0]
      /\ totalOwed' = totalOwed - owed[player]
  BY DEF withdraw
<1>3. /\ owed' \in [Players -> Nat] /\ owed'[player] = 0
      /\ \A p \in Players : p # player => owed'[p] = owed[p]
  BY <1>1, <1>2
<1>4. IsFiniteSet(Players) /\ IntOn(owed, Players) /\ IntOn(owed', Players)
  BY <1>1, <1>3, CrashAssumption DEF IntOn
<1>5. SumFunctionOnSet(owed', Players)
          = SumFunctionOnSet(owed, Players) - owed[player] + owed'[player]
  BY <1>3, <1>4, SumUpdate
<1>6. /\ Total(owed) = SumFunctionOnSet(owed, Players)
      /\ Total(owed') = SumFunctionOnSet(owed', Players)
      /\ SumFunctionOnSet(owed, Players) \in Int /\ owed[player] \in Nat
  BY <1>1, <1>3, <1>4, SumChosen DEF Total
<1>7. totalOwed' = Total(owed')
  BY <1>1, <1>2, <1>3, <1>5, <1>6
<1> QED
  BY <1>7 DEF OwedAddsUp, Total

LEMMA SeatsInitially == CrashInit => SeatsInv
<1> SUFFICES ASSUME CrashInit PROVE SeatsInv
  OBVIOUS
<1>1. VaultOK(NewVault)
  BY CrashAssumption DEF VaultOK, VaultType, NewVault
<1>2. BookOK(round)
  BY <1>1, NewBook, SeedBounded DEF CrashInit
<1>3. owed = [p \in Players |-> 0] /\ totalOwed = 0
  BY DEF CrashInit
<1>4. DOMAIN owed = Players /\ \A p \in Players : owed[p] = 0
  BY <1>3
<1>5. SumFunctionOnSet(owed, Players) = 0
  BY <1>4, CrashAssumption, SumZero
<1> QED
  BY <1>2, <1>3, <1>4, <1>5 DEF SeatsInv, OwedAddsUp, Total

LEMMA SeatsStep == CrashInv /\ SeatsInv /\ [CrashNext]_crashVars => SeatsInv'
<1> SUFFICES ASSUME CrashInv, SeatsInv, [CrashNext]_crashVars PROVE SeatsInv'
  OBVIOUS
<1>1. /\ RoundOK(round) /\ BookOK(round) /\ OwedAddsUp /\ VaultOK(vault)
  BY DEF CrashInv, LedgerInv, SeatsInv
<1>2. ASSUME UNCHANGED <<owed, totalOwed>> PROVE OwedAddsUp'
  BY <1>1, <1>2 DEF OwedAddsUp, Total
<1>3. ASSUME UNCHANGED round PROVE BookOK(round')
  BY <1>1, <1>3
<1>4. ASSUME Bet PROVE SeatsInv'
  <2>1. PICK player \in Players, targetBps \in Targets, stake \in Stakes :
           placeBet(player, targetBps, stake)
    BY <1>4 DEF Bet
  <2>2. BookOK(round') /\ UNCHANGED <<owed, totalOwed>>
    BY <1>1, <2>1, BookBet DEF placeBet
  <2> QED
    BY <1>2, <2>2 DEF SeatsInv
<1>5. ASSUME VoidRound PROVE SeatsInv'
  <2> DEFINE v == ReturnSeed(vault, round.seed)
  <2>1. VaultOK(v) /\ TryStartRound("VOIDED", v, pendingLotteryRound, TRUE)
    BY <1>1, <1>5, ReturnFacts, SeatsAreSequence DEF VoidRound
  <2>2. UNCHANGED <<owed, totalOwed>>
    BY <1>5 DEF VoidRound
  <2> HIDE DEF v
  <2> QED
    BY <1>1, <1>2, <2>1, <2>2, BookTried DEF SeatsInv
<1>6. ASSUME lockRound PROVE SeatsInv'
  <2>1. /\ round'.seats = round.seats /\ round'.playerPool = round.playerPool
        /\ round'.seed = round.seed
    BY <1>1, <1>6 DEF lockRound, RoundOK
  <2> QED
    BY <1>1, <1>2, <1>6, <2>1, BookKept DEF SeatsInv, lockRound, moneyVars
<1>7. ASSUME NEW keeper \in Players, NEW word \in Words, settleRound(keeper, word)
      PROVE  SeatsInv'
  <2> DEFINE result == settle(playerDistributable, round.seed, deriveCrash(word), round.seats)
             u == ReturnSeed(vault, result.houseReturned)
             v == Recycled(result)
  <2>1. TryStartRound("SETTLED", v, pendingLotteryRound', FALSE)
    BY <1>7 DEF settleRound
  <2>2. result.houseReturned \in Nat /\ Total(result.payouts) \in Nat
    BY <1>7 DEF settleRound, SettleReturns
  <2>3. result.bustedToReserve \in Nat
    <3>1. playerDistributable \in Nat /\ round.seed \in Nat
      BY <1>1, SplitFacts, SeatsAreSequence DEF CrashInv, LedgerInv
    <3> QED
      BY <2>2, <3>1, SettleFacts
  <2>4. v = ReturnSeed(u, result.bustedToReserve)
    BY DEF Recycled
  <2> HIDE DEF result, v
  <2>5. VaultOK(u)
    BY <1>1, <2>2, ReturnFacts
  <2> HIDE DEF u
  <2>6. VaultOK(v)
    BY <2>3, <2>4, <2>5, ReturnFacts
  <2>7. BookOK(round')
    BY <1>1, <2>1, <2>6, BookTried
  <2> QED
    BY <1>7, <2>7, OwedSettled DEF SeatsInv
<1>8. ASSUME restartRounds PROVE SeatsInv'
  BY <1>1, <1>2, <1>8, BookStarts DEF restartRounds, SeatsInv
<1>9. ASSUME retryLottery PROVE SeatsInv'
  BY <1>1, <1>2, <1>9, BookTried DEF retryLottery, SeatsInv
<1>10. ASSUME NEW player \in Players, withdraw(player) PROVE SeatsInv'
  BY <1>3, <1>10, OwedWithdrawn DEF withdraw, roundVars, SeatsInv
<1>11. ASSUME \/ \E amount \in Funding : fundVault(amount)
              \/ \E amount \in Nat \ {0} : fundCommunityReturn(amount)
              \/ flushRake
              \/ deliverOverflow
              \/ freezeStalledRound
              \/ Environment
              \/ UNCHANGED crashVars
       PROVE  SeatsInv'
  <2>1. UNCHANGED <<round, owed, totalOwed>>
    BY <1>11 DEF fundVault, fundCommunityReturn, Fund, flushRake, deliverOverflow,
         freezeStalledRound, Environment, roundVars, moneyVars, crashVars
  <2> QED
    BY <1>2, <1>3, <2>1 DEF SeatsInv
<1> QED
  BY <1>4, <1>5, <1>6, <1>7, <1>8, <1>9, <1>10, <1>11 DEF CrashNext, Keep, Move

LEMMA SeatsInvariance == CrashSpec => []SeatsInv
  BY CrashInvariance, SeatsInitially, SeatsStep, PTL DEF CrashSpec

\* THEOREM: what is owed to players and keepers adds up to totalOwed.
THEOREM OwedAlwaysAddsUp == CrashSpec => []OwedAddsUp
<1>1. SeatsInv => OwedAddsUp
  BY DEF SeatsInv
<1> QED
  BY <1>1, SeatsInvariance, PTL

\* Every outcome is a crash the library takes.
LEMMA CrashRange ==
    ASSUME NEW word \in Words
    PROVE  deriveCrash(word) \in BPS..MAX_TARGET
<1>1. /\ BPS \in Nat \ {0} /\ MAX_TARGET \in Nat /\ BPS * BPS <= MAX_TARGET
      /\ word \in 0..BPS - 1
  BY PoolAssumption, CrashAssumption
<1>2. BPS <= BPS * BPS /\ BPS * BPS \in Nat
  <2>1. 1 * BPS <= BPS * BPS
    BY <1>1, TimesLeq
  <2> QED
    BY <1>1, <2>1, TimesNat
<1>3. CASE word = 0
  BY <1>1, <1>2, <1>3 DEF deriveCrash
<1>4. CASE word # 0
  <2> DEFINE b == BPS - word
             q == (BPS * BPS) \div b
  <2>1. b \in Nat \ {0} /\ b <= BPS
    BY <1>1, <1>4
  <2> HIDE DEF b
  <2>2. q \in Nat /\ q * b <= BPS * BPS
    BY <1>2, <2>1, Quotient
  <2>3. BPS <= q
    <3>1. b * BPS <= BPS * BPS /\ b * BPS = BPS * b
      BY <1>1, <2>1, TimesLeq, TimesNat
    <3> QED
      BY <1>1, <1>2, <2>1, <3>1, QuotientLeq
  <2>4. q <= q * b
    <3> HIDE DEF q
    <3>1. 1 * q <= b * q /\ b * q = q * b
      BY <2>1, <2>2, TimesLeq, TimesNat
    <3> QED
      BY <2>2, <3>1
  <2>5. q * b \in Nat
    BY <2>1, <2>2, TimesNat
  <2>6. deriveCrash(word) = q
    BY <1>4 DEF deriveCrash, b
  <2> HIDE DEF q
  <2> QED
    BY <1>1, <1>2, <2>2, <2>3, <2>4, <2>5, <2>6
<1> QED
  BY <1>3, <1>4

\* The pool is no more than the library takes.
LEMMA PoolBounded ==
    ASSUME RoundOK(round), BookOK(round)
    PROVE  round.playerPool \in Nat /\ round.playerPool <= MAX_POT
<1> DEFINE seats == round.seats
           S == DOMAIN seats
           f == StakesOf(seats)
           n == Len(seats)
<1>1. SeatsOK(seats) /\ n \in Nat /\ IsFiniteSet(S) /\ Cardinality(S) = n
  BY BookSeats, SeatsFinite
<1>2. /\ round.playerPool = Total(f) /\ n <= maxSeats
      /\ \A i \in S : seats[i].stake \in 1..MAX_STAKE
  BY DEF BookOK
<1>3. MAX_STAKE \in Nat /\ maxSeats \in Nat /\ maxSeats * MAX_STAKE <= MAX_POT
      /\ MAX_POT \in Nat
  BY PoolAssumption, CrashAssumption
<1>4. DOMAIN f = S /\ \A i \in S : f[i] \in 0..MAX_STAKE
  BY <1>2, <1>3 DEF StakesOf
<1> HIDE DEF f, S, n
<1>5. SumFunctionOnSet(f, S) \in Nat /\ SumFunctionOnSet(f, S) <= n * MAX_STAKE
  BY <1>1, <1>3, <1>4, SumBounded
<1>6. n * MAX_STAKE <= maxSeats * MAX_STAKE
  BY <1>1, <1>2, <1>3, TimesLeq
<1>7. n * MAX_STAKE \in Nat /\ maxSeats * MAX_STAKE \in Nat
  BY <1>1, <1>3, TimesNat
<1>8. Total(f) = SumFunctionOnSet(f, S)
  BY <1>4 DEF Total
<1> QED
  BY <1>2, <1>3, <1>5, <1>6, <1>7, <1>8

\* The floors are a part of the pool that no rake tier touches.
LEMMA FloorsFunded ==
    ASSUME RoundOK(round), BookOK(round), qualifiedVolume \in Nat, NEW crash
    PROVE  Total(OfSurvivors(round.seats, crash, Floors(round.seats)))
              <= playerDistributable
<1> DEFINE seats == round.seats
           S == DOMAIN seats
           f == OfSurvivors(seats, crash, Floors(seats))
           g == StakesOf(seats)
           F == SumFunctionOnSet(f, S)
           stakes == round.playerPool
           keep == BPS - effectiveRakeBpsAt(qualifiedVolume)
<1>1. SeatsOK(seats) /\ IsFiniteSet(S)
  BY BookSeats, SeatsFinite
<1>2. /\ BPS \in Nat \ {0} /\ floorBps \in Nat /\ keep \in Nat /\ floorBps <= keep
  <2>1. /\ effectiveRakeBpsAt(qualifiedVolume) \in 0..BPS
        /\ effectiveRakeBpsAt(qualifiedVolume) <= rakeBps
    BY RakeFacts
  <2>2. /\ BPS \in Nat \ {0} /\ floorBps \in 0..BPS /\ rakeBps \in 0..BPS
        /\ floorBps <= BPS - rakeBps
    BY PoolAssumption, CrashAssumption
  <2> QED
    BY <2>1, <2>2
<1> HIDE DEF keep
<1>3. stakes = Total(g) /\ stakes \in Nat
  BY PoolBounded DEF BookOK
<1>4. ASSUME NEW i \in S
      PROVE  f[i] \in Nat /\ g[i] \in Nat /\ BPS * f[i] <= g[i] * floorBps
  <2> DEFINE s == seats[i].stake
  <2>1. s \in Nat
    BY <1>1, SeatFacts
  <2>2. g[i] = s /\ f[i] = IF Survives(seats[i], crash) THEN FloorOf(seats[i]) ELSE 0
    BY DEF StakesOf, OfSurvivors, Floors
  <2>3. FloorOf(seats[i]) = (s * floorBps) \div BPS
    BY DEF FloorOf
  <2>4. s * floorBps \in Nat
    BY <1>2, <2>1, TimesNat
  <2> DEFINE q == (s * floorBps) \div BPS
  <2>5. q \in Nat /\ q * BPS <= s * floorBps
    BY <1>2, <2>4, Quotient
  <2> HIDE DEF f, g, s, q
  <2>6. q * BPS = BPS * q
    BY <1>2, <2>5, TimesNat
  <2>7. CASE f[i] = q
    BY <2>1, <2>2, <2>5, <2>6, <2>7
  <2>8. CASE f[i] = 0
    BY <1>2, <2>1, <2>2, <2>4, <2>8
  <2> QED
    BY <2>2, <2>3, <2>7, <2>8 DEF q
<1>5. DOMAIN f = S /\ DOMAIN g = S
  BY DEF OfSurvivors, StakesOf
<1> HIDE DEF f, g, S
<1>6. BPS * F <= SumFunctionOnSet(g, S) * floorBps
  BY <1>1, <1>2, <1>4, SumScaled
<1>7. F \in Nat
  BY <1>1, <1>4, SumNatural
<1>8. Total(f) = F /\ stakes = SumFunctionOnSet(g, S)
  BY <1>3, <1>5 DEF Total
<1> HIDE DEF F, stakes
<1>9. F * BPS <= stakes * keep
  <2>1. floorBps * stakes <= keep * stakes
    BY <1>2, <1>3, TimesLeq
  <2>2. /\ floorBps * stakes = stakes * floorBps /\ keep * stakes = stakes * keep
        /\ BPS * F = F * BPS
        /\ stakes * floorBps \in Nat /\ stakes * keep \in Nat /\ F * BPS \in Nat
    BY <1>2, <1>3, <1>7, TimesNat
  <2> QED
    BY <1>6, <1>8, <2>1, <2>2
<1>10. F <= (stakes * keep) \div BPS
  BY <1>2, <1>3, <1>7, <1>9, TimesNat, QuotientLeq
<1> QED
  BY <1>8, <1>10 DEF playerDistributable, stakes, keep, f

\* A book of the game is one the library settles.
LEMMA NeverReverts == CrashInv /\ SeatsInv => SettlementNeverReverts
<1> SUFFICES ASSUME CrashInv, SeatsInv, NEW word \in Words
             PROVE  SettleReturns(deriveCrash(word))
  BY DEF SettlementNeverReverts
<1> DEFINE crash == deriveCrash(word)
           purse == playerDistributable
           seed == round.seed
           seats == round.seats
           budget == purse + seed
           result == settle(purse, seed, crash, seats)
           P == Payouts(budget, crash, seats)
<1>1. /\ RoundOK(round) /\ BookOK(round) /\ qualifiedVolume \in Nat
      /\ SeatsOK(seats) /\ seed \in Nat
  BY BookSeats, SeatsAreSequence DEF CrashInv, SeatsInv, LedgerInv
<1>2. /\ purse \in Nat /\ purse <= round.playerPool
      /\ round.playerPool \in Nat /\ round.playerPool <= MAX_POT
  <2>1. /\ purse \in Nat /\ keeperReward \in Nat /\ netRake \in Nat
        /\ round.playerPool = purse + keeperReward + netRake
    BY <1>1, SplitFacts
  <2> HIDE DEF purse
  <2> QED
    BY <1>1, <2>1, PoolBounded
<1>3. crash \in BPS..MAX_TARGET
  BY CrashRange
<1>4. /\ Total(OfSurvivors(seats, crash, Floors(seats))) <= purse
      /\ Total(OfSurvivors(seats, crash, Floors(seats))) \in Nat
  <2> HIDE DEF crash, purse
  <2> QED
    BY <1>1, FloorsFunded, SeatAmounts, SurvivorSum DEF purse
<1> HIDE DEF crash, purse
<1>5. ValidInput(purse, seed, crash, seats)
  <2>1. Len(seats) <= MAX_SEATS
    <3>1. Len(seats) \in Nat /\ Len(seats) <= maxSeats
      BY <1>1, SeatsAreSequence DEF BookOK
    <3>2. maxSeats \in 1..MAX_SEATS /\ MAX_SEATS \in Nat
      BY CrashAssumption, PoolAssumption
    <3> HIDE DEF seats
    <3> QED
      BY <3>1, <3>2
  <2>2. purse <= MAX_POT /\ seed <= MAX_POT
    BY <1>1, <1>2, PoolAssumption DEF BookOK
  <2>3. \A i \in DOMAIN seats :
            /\ seats[i].stake \in 1..MAX_STAKE
            /\ seats[i].targetBps \in MIN_TARGET_BPS..MAX_TARGET
    BY <1>1 DEF BookOK
  <2>4. Total(StakesOf(seats)) <= MAX_POT
    BY <1>1, <1>2 DEF BookOK
  <2> HIDE DEF seed, seats
  <2> QED
    BY <1>3, <2>1, <2>2, <2>3, <2>4 DEF ValidInput
<1>6. /\ FloorFunded(purse, seed, crash, seats)
      /\ Fundable(budget, crash, seats)
  <2> DEFINE F == Total(OfSurvivors(seats, crash, Floors(seats)))
  <2>1. F <= purse + seed /\ purse + seed \in Nat
    <3>1. F <= purse /\ F \in Nat
      BY <1>4
    <3> HIDE DEF F, seed
    <3> QED
      BY <1>1, <1>2, <3>1
  <2> QED
    BY <1>1, <2>1 DEF FloorFunded, Fundable
<1>7. /\ P \in [DOMAIN seats -> Nat]
      /\ Total(P) \in Nat /\ Total(P) <= budget
  <2> HIDE DEF budget
  <2> QED
    BY <1>6, PaidWithinBounds, PaidWithinBudget
<1>8. result.payouts = P
  BY DEF settle
<1>9. result.houseReturned \in Nat
  <2> DEFINE paid == Total(P)
             spent == IF paid < purse THEN paid ELSE purse
  <2>1. result.houseReturned = seed - (paid - spent)
    BY DEF settle
  <2>2. paid \in Nat /\ paid <= purse + seed
    BY <1>7
  <2> HIDE DEF paid, seed, result
  <2> QED
    BY <1>1, <1>2, <2>1, <2>2
<1> HIDE DEF result, P
<1> QED
  BY <1>5, <1>6, <1>7, <1>8, <1>9 DEF SettleReturns, crash, purse, result

\* THEOREM: a round that was bet on can be settled, whatever the outcome, at any
\* rake tier, whatever was funded and whoever bet.
THEOREM SettlementAlwaysPossible == CrashSpec => []SettlementNeverReverts
  BY CrashInvariance, SeatsInvariance, NeverReverts, PTL

-----------------------------------------------------------------------------
(* Fees and splits                                                         *)

\* Fee and fraction account for the whole charge; no fee exceeds its amount.
LEMMA ChargeFacts ==
    ASSUME NEW amount \in Nat, NEW bps \in 0..BASIS - 1, NEW carried \in 0..BASIS - 1
    PROVE  /\ Charge(amount, bps, carried) \in 0..amount
           /\ Carry(amount, bps, carried) \in 0..BASIS - 1
           /\ Charge(amount, bps, carried) * BASIS + Carry(amount, bps, carried)
                 = amount * bps + carried
<1> DEFINE n == amount * bps + carried
           q == n \div BASIS
<1>1. BASIS \in Nat \ {0}
  BY LotteryAssumption
<1>2. amount * bps \in Nat /\ amount * bps <= amount * (BASIS - 1)
  BY <1>1
<1>3. amount * (BASIS - 1) = amount * BASIS - amount /\ amount * BASIS \in Nat
  BY <1>1
<1>4. n \in Nat /\ n < amount * BASIS + BASIS
  BY <1>1, <1>2, <1>3
<1>5. q \in Nat /\ q * BASIS <= n /\ n % BASIS \in 0..BASIS - 1 /\ (q * BASIS) + (n % BASIS) = n
  <2> HIDE DEF n
  <2> QED
    BY <1>1, <1>4
<1>6. ASSUME q >= amount + 1 PROVE FALSE
  <2> DEFINE whole == amount * BASIS
             taken == q * BASIS
  <2> HIDE DEF n, q
  <2>1. taken >= (amount + 1) * BASIS /\ (amount + 1) * BASIS = whole + BASIS
    BY <1>1, <1>5, <1>6
  <2>2. whole \in Nat /\ taken \in Int /\ n \in Nat /\ taken <= n /\ n < whole + BASIS
    BY <1>1, <1>3, <1>4, <1>5
  <2> HIDE DEF whole, taken
  <2> QED
    BY <1>1, <2>1, <2>2
<1>7. q \in 0..amount
  BY <1>5, <1>6
<1> QED
  BY <1>5, <1>7 DEF Charge, Carry

LEMMA FeeBounds ==
    /\ BASIS \in Nat \ {0}
    /\ founderFeeBps \in 0..BASIS - 1
    /\ rolloverFeeBps \in 0..BASIS - 1
  BY LotteryAssumption

\* A quarter of the prize is kept at most.
LEMMA SeedFacts ==
    ASSUME NEW prize \in Nat, NEW funding \in Nat
    PROVE  grossSeed(prize, funding) \in Nat /\ 4 * grossSeed(prize, funding) <= prize
<1> DEFINE M == cycleRetentionMaxBps
           D == cycleFundingScaleWei + funding
           r == (M * funding) \div D
           s == (prize * r) \div BASIS
<1>1. M \in Nat /\ 4 * M <= BASIS /\ BASIS \in Nat \ {0} /\ D \in Nat \ {0} /\ funding <= D
  BY LotteryAssumption
<1> HIDE DEF M, D
<1>2. M * funding \in Nat /\ M * funding <= M * D
  BY <1>1
<1>3. r \in Nat /\ r * D <= M * funding
  BY <1>1, <1>2, CrashDivision
<1> HIDE DEF r
<1>4. ASSUME r >= M + 1 PROVE FALSE
  <2>1. r * D >= (M + 1) * D /\ (M + 1) * D = M * D + D
    BY <1>1, <1>3, <1>4
  <2> QED
    BY <1>1, <1>2, <1>3, <2>1
<1>5. r <= M /\ 4 * r <= BASIS
  BY <1>1, <1>3, <1>4
<1>6. prize * r \in Nat /\ 4 * (prize * r) <= prize * BASIS
  <2>1. prize * (4 * r) <= prize * BASIS
    BY <1>1, <1>3, <1>5
  <2> QED
    BY <1>3, <2>1
<1>7. s \in Nat /\ s * BASIS <= prize * r
  BY <1>1, <1>6, CrashDivision
<1> HIDE DEF s
<1>8. ASSUME 4 * s >= prize + 1 PROVE FALSE
  <2>1. (4 * s) * BASIS >= (prize + 1) * BASIS /\ (prize + 1) * BASIS = prize * BASIS + BASIS
    BY <1>1, <1>7, <1>8
  <2>2. (4 * s) * BASIS = 4 * (s * BASIS)
    BY <1>1, <1>7
  <2> QED
    BY <1>1, <1>6, <1>7, <2>1, <2>2
<1>9. s \in Nat /\ 4 * s <= prize
  BY <1>7, <1>8
<1> QED
  BY <1>9 DEF s, r, M, D, grossSeed, retentionBps

-----------------------------------------------------------------------------
(* The lottery                                                             *)

BoardType == [prize : Nat, seeded : Nat, winnerPaid : Nat, cycleFunding : Nat,
              rolloverFees : Nat]

RemaindersType == [funding : 0..BASIS - 1, provision : 0..BASIS - 1, roll : 0..BASIS - 1]

TotalsType == [funded : Nat, fees : Nat, drawFees : Nat, winFees : Nat]

LotteryType ==
    /\ {pool, founderEscrow, pendingRolloverFees, cycleFunding, totalWinnerPaid} \subseteq Nat
    /\ {totalPrizeOwed, lotteryBalance} \subseteq Int
    /\ board \in BoardType /\ 4 * board.seeded <= board.prize
    /\ remainders \in RemaindersType
    /\ totals \in TotalsType
    /\ prizeOwed \in [Winners -> Nat]

CycleInv == LotteryType /\ BoardCovered /\ LotteryAccounted /\ FeesSplitBlind

\* The quarter that is kept at most, seen from the board that is committed.
LEMMA CommitFacts ==
    ASSUME NEW p \in Nat, NEW f \in Nat, NEW r \in Nat
    PROVE  /\ Board(p, f, r) \in BoardType
           /\ Board(p, f, r).prize = p
           /\ Board(p, f, r).cycleFunding = f
           /\ Board(p, f, r).rolloverFees = r
           /\ 4 * Board(p, f, r).seeded <= p
           /\ Board(p, f, r).seeded + Board(p, f, r).winnerPaid = p
<1> DEFINE s == grossSeed(p, f)
<1>1. s \in Nat /\ 4 * s <= p
  BY SeedFacts
<1>2. p - s \in Nat /\ s + (p - s) = p
  BY <1>1
<1> HIDE DEF s
<1>3. Board(p, f, r) = [prize |-> p, seeded |-> s, winnerPaid |-> p - s,
                        cycleFunding |-> f, rolloverFees |-> r]
  BY DEF Board, s
<1> QED
  BY <1>1, <1>2, <1>3 DEF BoardType

\* A freshly committed board is covered, whatever fraction a fee still owes.
LEMMA CommitCovers ==
    ASSUME pool' \in Nat, cycleFunding' \in Nat, pendingRolloverFees' \in Nat,
           remainders' \in RemaindersType, commitBoard
    PROVE  board' \in BoardType /\ 4 * board'.seeded <= board'.prize /\ BoardCovered'
<1>1. board' = Board(pool', cycleFunding', pendingRolloverFees')
  BY DEF commitBoard
<1>2. /\ board' \in BoardType /\ board'.prize = pool' /\ board'.cycleFunding = cycleFunding'
      /\ board'.rolloverFees = pendingRolloverFees' /\ 4 * board'.seeded <= pool'
      /\ board'.seeded + board'.winnerPaid = pool'
  BY <1>1, CommitFacts
<1>3. board'.seeded \in Nat /\ remainders'.roll \in 0..BASIS - 1
  BY <1>2 DEF BoardType, RemaindersType
<1>4. \A amount \in Nat, carried \in 0..BASIS - 1 :
         Charge(amount, rolloverFeeBps, carried) \in 0..amount
  BY FeeBounds, ChargeFacts
<1>5. Charge(board'.seeded, rolloverFeeBps, remainders'.roll) \in 0..board'.seeded
  BY <1>3, <1>4
<1>6. rollFee(board.seeded)' <= board'.seeded
  BY <1>3, <1>5 DEF rollFee
<1> QED
  BY <1>2, <1>3, <1>6 DEF BoardCovered

LEMMA Distributes ==
    ASSUME NEW a \in Int, NEW b \in Int, NEW n \in Int
    PROVE  (a + b) * n = a * n + b * n /\ a * n \in Int /\ b * n \in Int
  OBVIOUS

\* What the founders took of the funding, and what was provided for.
Founders == totals.fees - totals.drawFees - totals.winFees
Provided == pendingRolloverFees + totals.drawFees

LEMMA FundKeeps ==
    ASSUME CycleInv, NEW amount \in Nat, fund(amount)
    PROVE  CycleInv'
<1> DEFINE fee == Charge(amount, founderFeeBps, remainders.funding)
           rest == amount - fee
           provision == Charge(rest, rolloverFeeBps, remainders.provision)
           net == amount - fee - provision
           rem1 == Carry(amount, founderFeeBps, remainders.funding)
           rem2 == Carry(rest, rolloverFeeBps, remainders.provision)
<1>1. /\ {pool, founderEscrow, pendingRolloverFees, cycleFunding, totalWinnerPaid} \subseteq Nat
      /\ {totalPrizeOwed, lotteryBalance} \subseteq Int
      /\ board \in BoardType /\ 4 * board.seeded <= board.prize
      /\ remainders \in RemaindersType /\ totals \in TotalsType
      /\ prizeOwed \in [Winners -> Nat]
  BY DEF CycleInv, LotteryType
<1>2. remainders.funding \in 0..BASIS - 1 /\ remainders.provision \in 0..BASIS - 1
      /\ remainders.roll \in 0..BASIS - 1
  BY <1>1 DEF RemaindersType
<1>3. /\ fee \in 0..amount /\ rem1 \in 0..BASIS - 1
      /\ fee * BASIS + rem1 = amount * founderFeeBps + remainders.funding
  BY <1>2, FeeBounds, ChargeFacts
<1>4. rest \in Nat
  BY <1>3
<1>5. /\ provision \in 0..rest /\ rem2 \in 0..BASIS - 1
      /\ provision * BASIS + rem2 = rest * rolloverFeeBps + remainders.provision
  <2> HIDE DEF rest
  <2> QED
    BY <1>2, <1>4, FeeBounds, ChargeFacts
<1>6. net \in Nat /\ amount = fee + provision + net /\ fee \in Nat /\ provision \in Nat
  BY <1>3, <1>4, <1>5
<1>7. /\ remainders' = [remainders EXCEPT !.funding = rem1, !.provision = rem2]
      /\ pendingRolloverFees' = pendingRolloverFees + provision
      /\ cycleFunding' = cycleFunding + net
      /\ founderEscrow' = founderEscrow + fee
      /\ pool' = pool + net
      /\ totals' = [totals EXCEPT !.funded = @ + amount, !.fees = @ + fee]
      /\ lotteryBalance' = lotteryBalance + amount
      /\ UNCHANGED <<prizeOwed, totalPrizeOwed, totalWinnerPaid, board>>
  BY DEF fund, prizeVars
<1> HIDE DEF fee, rest, provision, net, rem1, rem2
<1>8. /\ totals' \in TotalsType /\ totals'.funded = totals.funded + amount
      /\ totals'.fees = totals.fees + fee /\ totals'.drawFees = totals.drawFees
      /\ totals'.winFees = totals.winFees
  <2>1. totals.funded + amount \in Nat /\ totals.fees + fee \in Nat
    BY <1>1, <1>6 DEF TotalsType
  <2> QED
    BY <1>1, <1>7, <2>1 DEF TotalsType
<1>9. /\ remainders' \in RemaindersType /\ remainders'.roll = remainders.roll
      /\ remainders'.funding = rem1 /\ remainders'.provision = rem2
  BY <1>1, <1>3, <1>5, <1>7 DEF RemaindersType
<1>10. LotteryType'
  BY <1>1, <1>6, <1>7, <1>8, <1>9 DEF LotteryType
<1>11. board.prize \in Nat /\ board.rolloverFees \in Nat /\ board.cycleFunding \in Nat
  BY <1>1 DEF BoardType
<1>12. BoardCovered'
  BY <1>1, <1>6, <1>7, <1>9, <1>11 DEF CycleInv, BoardCovered, rollFee
<1>13. {totals.funded, totals.fees, totals.drawFees, totals.winFees} \subseteq Nat
  BY <1>1 DEF TotalsType
<1>14. LotteryAccounted'
  BY <1>1, <1>6, <1>7, <1>8, <1>13 DEF CycleInv, LotteryAccounted
<1>15. FeesSplitBlind'
  <2>1. Founders \in Int /\ Provided \in Int /\ totals.funded - Founders \in Int
    BY <1>1, <1>13 DEF Founders, Provided
  <2>2. /\ Founders * BASIS + remainders.funding = totals.funded * founderFeeBps
        /\ Provided * BASIS + remainders.provision
              = (totals.funded - Founders) * rolloverFeeBps
    BY DEF CycleInv, FeesSplitBlind, Founders, Provided
  <2>7. /\ remainders.funding \in Nat /\ remainders.provision \in Nat
        /\ rem1 \in Nat /\ rem2 \in Nat /\ BASIS \in Nat
        /\ founderFeeBps \in Nat /\ rolloverFeeBps \in Nat /\ totals.funded \in Int
    BY <1>2, <1>3, <1>5, <1>13, FeeBounds
  <2>3. (Founders + fee) * BASIS + rem1 = (totals.funded + amount) * founderFeeBps
    <3> DEFINE before == Founders * BASIS
               added == fee * BASIS
               due == totals.funded * founderFeeBps
               dueNow == amount * founderFeeBps
    <3>1. (Founders + fee) * BASIS = before + added /\ before \in Int /\ added \in Int
      BY <1>6, <2>1, <2>7, Distributes
    <3>2. (totals.funded + amount) * founderFeeBps = due + dueNow /\ due \in Int /\ dueNow \in Int
      BY <1>4, <2>1, <2>7, Distributes
    <3>3. before + remainders.funding = due /\ added + rem1 = dueNow + remainders.funding
      BY <2>2, <1>3
    <3> HIDE DEF before, added, due, dueNow
    <3> QED
      BY <2>7, <3>1, <3>2, <3>3
  <2>4. (Provided + provision) * BASIS + rem2
           = ((totals.funded - Founders) + rest) * rolloverFeeBps
    <3> DEFINE before == Provided * BASIS
               added == provision * BASIS
               due == (totals.funded - Founders) * rolloverFeeBps
               dueNow == rest * rolloverFeeBps
    <3>1. (Provided + provision) * BASIS = before + added /\ before \in Int /\ added \in Int
      BY <1>6, <2>1, <2>7, Distributes
    <3>2. /\ ((totals.funded - Founders) + rest) * rolloverFeeBps = due + dueNow
          /\ due \in Int /\ dueNow \in Int
      BY <1>4, <2>1, <2>7, Distributes
    <3>3. before + remainders.provision = due /\ added + rem2 = dueNow + remainders.provision
      BY <2>2, <1>5
    <3> HIDE DEF before, added, due, dueNow
    <3> QED
      BY <2>7, <3>1, <3>2, <3>3
  <2>5. /\ Founders' = Founders + fee /\ Provided' = Provided + provision
        /\ totals'.funded - Founders' = (totals.funded - Founders) + rest
    BY <1>1, <1>6, <1>7, <1>8, <1>13 DEF Founders, Provided, rest
  <2>6. {remainders'.funding, remainders'.provision} \subseteq 0..BASIS - 1
    BY <1>3, <1>5, <1>9
  <2> QED
    BY <1>8, <1>9, <2>3, <2>4, <2>5, <2>6 DEF FeesSplitBlind, Founders, Provided
<1> QED
  BY <1>10, <1>12, <1>14, <1>15 DEF CycleInv

\* What a draw does to the ledgers, before the next board is committed.
DrawLedgers ==
    /\ {pool, founderEscrow, pendingRolloverFees, cycleFunding, totalWinnerPaid}' \subseteq Nat
    /\ totalPrizeOwed' \in Int
    /\ remainders' \in RemaindersType /\ totals' \in TotalsType
    /\ prizeOwed' \in [Winners -> Nat]
    /\ pool' + founderEscrow' + totalPrizeOwed' + pendingRolloverFees'
          = pool + founderEscrow + totalPrizeOwed + pendingRolloverFees
    /\ pool' + totals'.fees + pendingRolloverFees' + totalWinnerPaid'
          = pool + totals.fees + pendingRolloverFees + totalWinnerPaid
    /\ totals'.funded = totals.funded
    /\ Founders' = Founders /\ Provided' = Provided
    /\ remainders'.funding = remainders.funding
    /\ remainders'.provision = remainders.provision

\* The fields, as numbers.
LEMMA Fields ==
    ASSUME LotteryType
    PROVE  /\ board.prize \in Nat /\ board.seeded \in Nat /\ board.winnerPaid \in Nat
           /\ board.cycleFunding \in Nat /\ board.rolloverFees \in Nat
           /\ totals.funded \in Nat /\ totals.fees \in Nat
           /\ totals.drawFees \in Nat /\ totals.winFees \in Nat
           /\ remainders.funding \in 0..BASIS - 1 /\ remainders.provision \in 0..BASIS - 1
           /\ remainders.roll \in 0..BASIS - 1
  BY DEF LotteryType, BoardType, TotalsType, RemaindersType

\* A draw that pays nothing: only what was provided is earned.
LEMMA EmptyDrawLedgers ==
    ASSUME CycleInv, NoDraw \/ Miss
    PROVE  DrawLedgers
<1>1. LotteryType /\ board.rolloverFees <= pendingRolloverFees
  BY DEF CycleInv, BoardCovered
<1> DEFINE earned == board.rolloverFees
<1>2. CASE NoDraw
  BY <1>1, <1>2, Fields
     DEF NoDraw, DrawLedgers, LotteryType, fundingVars, prizeVars, Founders, Provided
<1>3. CASE Miss
  <2>1. /\ totals.fees + earned \in Nat /\ totals.drawFees + earned \in Nat
        /\ pendingRolloverFees - earned \in Nat /\ founderEscrow + earned \in Nat
    BY <1>1, Fields DEF LotteryType
  <2>2. /\ totals' \in TotalsType /\ totals'.funded = totals.funded
        /\ totals'.fees = totals.fees + earned
        /\ totals'.drawFees = totals.drawFees + earned /\ totals'.winFees = totals.winFees
    BY <1>1, <1>3, <2>1 DEF Miss, LotteryType, TotalsType
  <2> QED
    BY <1>1, <1>3, <2>1, <2>2, Fields
       DEF Miss, DrawLedgers, LotteryType, prizeVars, Founders, Provided
<1> QED
  BY <1>2, <1>3

\* A win: the prize is the winner's share, the fee on the seed and the new pool.
LEMMA HitLedgers ==
    ASSUME CycleInv, NEW winner \in Winners, NEW rakeWei, Hit(winner, rakeWei)
    PROVE  DrawLedgers
<1> DEFINE earned == board.rolloverFees
           fee == rollFee(board.seeded)
           rest == Carry(board.seeded, rolloverFeeBps, remainders.roll)
<1>1. LotteryType /\ BoardCovered
  BY DEF CycleInv
<1>2. fee \in 0..board.seeded /\ rest \in 0..BASIS - 1
  BY <1>1, Fields, FeeBounds, ChargeFacts DEF rollFee
<1>3. fee \in Nat /\ pool - board.prize + board.seeded - fee \in Nat
      /\ board.seeded + board.winnerPaid = board.prize
  BY <1>1, <1>2, Fields DEF LotteryType, BoardCovered
<1>4. /\ totals.fees + earned + fee \in Nat /\ totals.drawFees + earned \in Nat
      /\ totals.winFees + fee \in Nat /\ founderEscrow + earned + fee \in Nat
      /\ pendingRolloverFees - earned \in Nat
      /\ cycleFunding - board.cycleFunding \in Nat
      /\ totalWinnerPaid + board.winnerPaid \in Nat
      /\ prizeOwed[winner] + board.winnerPaid \in Nat
  BY <1>1, <1>3, Fields DEF LotteryType, BoardCovered
<1>5. /\ prizeOwed' = [prizeOwed EXCEPT ![winner] = @ + board.winnerPaid]
      /\ totalPrizeOwed' = totalPrizeOwed + board.winnerPaid
      /\ totalWinnerPaid' = totalWinnerPaid + board.winnerPaid
      /\ pool' = pool - board.prize + board.seeded - fee
      /\ pendingRolloverFees' = pendingRolloverFees - earned
      /\ founderEscrow' = founderEscrow + earned + fee
      /\ totals' = [totals EXCEPT !.fees = @ + earned + fee,
                                  !.drawFees = @ + earned, !.winFees = @ + fee]
      /\ remainders' = [remainders EXCEPT !.roll = rest]
      /\ cycleFunding' = cycleFunding - board.cycleFunding
  BY DEF Hit, Terms
<1> HIDE DEF fee, rest, earned
<1>6. /\ totals' \in TotalsType /\ totals'.funded = totals.funded
      /\ totals'.fees = totals.fees + earned + fee
      /\ totals'.drawFees = totals.drawFees + earned
      /\ totals'.winFees = totals.winFees + fee
  BY <1>1, <1>4, <1>5 DEF LotteryType, TotalsType
<1>7. /\ remainders' \in RemaindersType /\ remainders'.funding = remainders.funding
      /\ remainders'.provision = remainders.provision
  BY <1>1, <1>2, <1>5 DEF LotteryType, RemaindersType
<1>8. prizeOwed' \in [Winners -> Nat]
  BY <1>1, <1>4, <1>5 DEF LotteryType
<1>9. earned \in Nat
  BY <1>1, Fields DEF earned
<1>10. Founders' = Founders /\ Provided' = Provided
  BY <1>1, <1>3, <1>5, <1>6, <1>9, Fields DEF Founders, Provided, LotteryType
<1>11. /\ pool' + founderEscrow' + totalPrizeOwed' + pendingRolloverFees'
             = pool + founderEscrow + totalPrizeOwed + pendingRolloverFees
       /\ pool' + totals'.fees + pendingRolloverFees' + totalWinnerPaid'
             = pool + totals.fees + pendingRolloverFees + totalWinnerPaid
  BY <1>1, <1>3, <1>5, <1>6, <1>9, Fields DEF LotteryType
<1>12. {pool, founderEscrow, pendingRolloverFees, cycleFunding, totalWinnerPaid}' \subseteq Nat
       /\ totalPrizeOwed' \in Int
  BY <1>1, <1>3, <1>4, <1>5, Fields DEF LotteryType
<1> QED
  BY <1>6, <1>7, <1>8, <1>10, <1>11, <1>12 DEF DrawLedgers

LEMMA RecordKeeps ==
    ASSUME CycleInv, NEW roundId, NEW winner \in Winners, NEW rakeWei,
           recordRound(roundId, winner, rakeWei)
    PROVE  CycleInv'
<1>1. DrawLedgers
  BY EmptyDrawLedgers, HitLedgers DEF recordRound
<1>2. commitBoard /\ lotteryBalance' = lotteryBalance
  BY DEF recordRound
<1>3. LotteryType /\ LotteryAccounted /\ FeesSplitBlind
  BY DEF CycleInv
<1>4. board' \in BoardType /\ 4 * board'.seeded <= board'.prize /\ BoardCovered'
  BY <1>1, <1>2, CommitCovers DEF DrawLedgers
<1>5. LotteryType'
  BY <1>1, <1>2, <1>3, <1>4 DEF DrawLedgers, LotteryType
<1>6. LotteryAccounted'
  BY <1>1, <1>2, <1>3, Fields DEF DrawLedgers, LotteryAccounted, LotteryType
<1>7. FeesSplitBlind'
  BY <1>1, <1>3 DEF DrawLedgers, FeesSplitBlind, Founders, Provided
<1> QED
  BY <1>4, <1>5, <1>6, <1>7 DEF CycleInv

\* What the exits and the other contracts leave alone.
LEMMA ExitKeeps ==
    ASSUME CycleInv,
           \/ \E player \in Winners : withdrawPrize(player)
           \/ withdrawFounderFees
           \/ UNCHANGED cycleVars
    PROVE  CycleInv'
<1>1. LotteryType /\ BoardCovered /\ LotteryAccounted /\ FeesSplitBlind
  BY DEF CycleInv
<1>2. CASE UNCHANGED cycleVars
  BY <1>1, <1>2 DEF CycleInv, cycleVars, fundingVars, prizeVars, LotteryType, BoardCovered,
                   LotteryAccounted, FeesSplitBlind, rollFee
<1>3. ASSUME NEW player \in Winners, withdrawPrize(player) PROVE CycleInv'
  <2>1. prizeOwed[player] \in Nat /\ prizeOwed' \in [Winners -> Nat]
    BY <1>1, <1>3 DEF withdrawPrize, LotteryType
  <2>2. UNCHANGED <<fundingVars, totalWinnerPaid, board>>
        /\ totalPrizeOwed' = totalPrizeOwed - prizeOwed[player]
        /\ lotteryBalance' = lotteryBalance - prizeOwed[player]
    BY <1>3 DEF withdrawPrize
  <2>3. LotteryType' /\ BoardCovered' /\ FeesSplitBlind'
    BY <1>1, <2>1, <2>2 DEF fundingVars, LotteryType, BoardCovered, FeesSplitBlind, rollFee
  <2>4. LotteryAccounted'
    BY <1>1, <2>1, <2>2, Fields DEF fundingVars, LotteryAccounted, LotteryType
  <2> QED
    BY <2>3, <2>4 DEF CycleInv
<1>4. ASSUME withdrawFounderFees PROVE CycleInv'
  <2>1. UNCHANGED <<pool, pendingRolloverFees, cycleFunding, remainders, totals,
                    prizeVars, board>>
        /\ founderEscrow' = 0 /\ lotteryBalance' = lotteryBalance - founderEscrow
    BY <1>4 DEF withdrawFounderFees
  <2>2. LotteryType' /\ BoardCovered' /\ FeesSplitBlind'
    BY <1>1, <2>1 DEF prizeVars, LotteryType, BoardCovered, FeesSplitBlind, rollFee
  <2>3. LotteryAccounted'
    BY <1>1, <2>1, Fields DEF prizeVars, LotteryAccounted, LotteryType
  <2> QED
    BY <2>2, <2>3 DEF CycleInv
<1> QED
  BY <1>2, <1>3, <1>4

LEMMA LotteryInitially == LotteryInit => CycleInv
<1> SUFFICES ASSUME LotteryInit PROVE CycleInv
  OBVIOUS
<1>1. /\ pool = 0 /\ founderEscrow = 0 /\ pendingRolloverFees = 0 /\ cycleFunding = 0
      /\ totalPrizeOwed = 0 /\ totalWinnerPaid = 0 /\ lotteryBalance = 0
      /\ board.prize = 0 /\ board.seeded = 0 /\ board.winnerPaid = 0
      /\ board.cycleFunding = 0 /\ board.rolloverFees = 0
      /\ remainders.funding = 0 /\ remainders.provision = 0 /\ remainders.roll = 0
      /\ totals.funded = 0 /\ totals.fees = 0 /\ totals.drawFees = 0 /\ totals.winFees = 0
  BY DEF LotteryInit
<1>2. 0 \in 0..BASIS - 1
  BY FeeBounds
<1>3. LotteryType
  BY <1>1, <1>2 DEF LotteryInit, LotteryType, BoardType, RemaindersType, TotalsType
<1>4. rollFee(board.seeded) \in 0..board.seeded
  BY <1>1, <1>2, FeeBounds, ChargeFacts DEF rollFee
<1>5. BoardCovered
  BY <1>1, <1>4 DEF BoardCovered
<1>6. LotteryAccounted
  BY <1>1 DEF LotteryAccounted
<1>7. FeesSplitBlind
  <2>1. 0 * BASIS + 0 = 0 * founderFeeBps /\ 0 * BASIS + 0 = 0 * rolloverFeeBps
    BY FeeBounds
  <2> QED
    BY <1>1, <1>2, <2>1 DEF FeesSplitBlind
<1> QED
  BY <1>3, <1>5, <1>6, <1>7 DEF CycleInv

LEMMA LotteryStep == CycleInv /\ [LotteryNext]_cycleVars => CycleInv'
  BY FundKeeps, RecordKeeps, ExitKeeps DEF LotteryNext

LEMMA LotteryInvariance == LotterySpec => []CycleInv
  BY LotteryInitially, LotteryStep, PTL DEF LotterySpec

\* No draw reverts: what it takes was there when the board was committed, and
\* only the draw takes it (recordRound, _onMiss, _onWin, _commitBoard).
THEOREM DrawsAreCovered == LotterySpec => []BoardCovered
<1>1. CycleInv => BoardCovered
  BY DEF CycleInv
<1> QED
  BY <1>1, LotteryInvariance, PTL

\* Every wei that came in is in one ledger, whatever is funded and won.
THEOREM LotteryAddsUp == LotterySpec => []LotteryAccounted
<1>1. CycleInv => LotteryAccounted
  BY DEF CycleInv
<1> QED
  BY <1>1, LotteryInvariance, PTL

\* Splitting a deposit avoids no fee, for any rates and any deposits.
THEOREM SplittingIsBlind == LotterySpec => []FeesSplitBlind
<1>1. CycleInv => FeesSplitBlind
  BY DEF CycleInv
<1> QED
  BY <1>1, LotteryInvariance, PTL

-----------------------------------------------------------------------------
(* The lottery implements the board                                        *)

\* A board that was just committed is split fairly, and nothing came in yet.
LEMMA FreshBoard ==
    ASSUME CycleInv', commitBoard
    PROVE  /\ board'.prize = pool' /\ (pool - board.prize)' = 0
           /\ Announced!FairSplit'
<1>1. LotteryType' /\ BoardCovered'
  BY DEF CycleInv
<1>2. board'.prize = pool' /\ board'.winnerPaid + board'.seeded = board'.prize
  BY <1>1 DEF commitBoard, Board, BoardCovered, LotteryType, BoardType
<1>3. /\ board'.prize \in Nat /\ board'.seeded \in Nat /\ board'.winnerPaid \in Nat
      /\ 4 * board'.seeded <= board'.prize /\ remainders'.roll \in 0..BASIS - 1
  BY <1>1 DEF LotteryType, BoardType, RemaindersType
<1>4. \A amount \in Nat, carried \in 0..BASIS - 1 :
         Charge(amount, rolloverFeeBps, carried) \in 0..amount
  BY FeeBounds, ChargeFacts
<1>5. rollFee(board.seeded)' \in 0..board'.seeded
  BY <1>3, <1>4 DEF rollFee
<1>6. /\ board'.prize = pool' /\ (pool - board.prize)' = 0
      /\ (board.seeded - rollFee(board.seeded))' \in 0..board'.seeded
      /\ 4 * board'.winnerPaid >= 3 * board'.prize
  BY <1>2, <1>3, <1>5
<1> QED
  BY <1>2, <1>3, <1>6 DEF Announced!FairSplit

LEMMA DrawIsBoardStep ==
    ASSUME CycleInv, CycleInv', NEW roundId, NEW winner, NEW rakeWei,
           recordRound(roundId, winner, rakeWei)
    PROVE  Announced!BoardNext
<1>1. LotteryType /\ commitBoard
  BY DEF CycleInv, recordRound
<1>2. /\ board'.prize = pool' /\ (pool - board.prize)' = 0 /\ Announced!FairSplit'
  BY <1>1, FreshBoard
<1>3. pool \in Nat /\ board.prize \in Nat
  BY <1>1, Fields DEF LotteryType
<1>4. CASE NoDraw \/ Miss
  <2>1. pool' = pool /\ totalWinnerPaid' = totalWinnerPaid
    BY <1>4 DEF NoDraw, Miss, fundingVars, prizeVars
  <2>2. board'.prize = board.prize + (pool - board.prize)
    BY <1>2, <1>3, <2>1
  <2> QED
    BY <1>2, <2>1, <2>2 DEF Announced!BoardNext, Announced!Miss, Announced!OpenNext
<1>5. CASE Hit(winner, rakeWei)
  <2>1. /\ board.prize > 0 /\ totalWinnerPaid' = totalWinnerPaid + board.winnerPaid
        /\ pool' = pool - board.prize + board.seeded - rollFee(board.seeded)
    BY <1>5 DEF Hit, Terms
  <2>2. rollFee(board.seeded) \in 0..board.seeded /\ board.seeded \in Nat
    BY <1>1, Fields, FeeBounds, ChargeFacts DEF rollFee
  <2>3. board'.prize = (board.seeded - rollFee(board.seeded)) + (pool - board.prize)
    BY <1>2, <1>3, <2>1, <2>2
  <2> QED
    BY <1>2, <2>1, <2>3 DEF Announced!BoardNext, Announced!Hit, Announced!OpenNext
<1> QED
  BY <1>4, <1>5 DEF recordRound

LEMMA LotteryStepIsBoardStep ==
    ASSUME CycleInv, CycleInv', [LotteryNext]_cycleVars
    PROVE  [Announced!BoardNext]_(Announced!boardVars)
<1>1. CASE \E amount \in Nat : fund(amount)
  <2>1. PICK amount \in Nat : fund(amount)
    BY <1>1
  <2> DEFINE fee == Charge(amount, founderFeeBps, remainders.funding)
             provision == Charge(amount - fee, rolloverFeeBps, remainders.provision)
  <2>2. LotteryType
    BY DEF CycleInv
  <2>3. fee \in 0..amount
    BY <2>2, Fields, FeeBounds, ChargeFacts
  <2>4. amount - fee \in Nat
    BY <2>3
  <2>5. provision \in 0..amount - fee
    <3> HIDE DEF fee
    <3> QED
      BY <2>2, <2>4, Fields, FeeBounds, ChargeFacts
  <2>6. /\ pool' = pool + (amount - fee - provision) /\ UNCHANGED <<board, totalWinnerPaid>>
        /\ remainders'.roll = remainders.roll
    BY <2>1, <2>2 DEF fund, prizeVars, LotteryType, RemaindersType
  <2> HIDE DEF fee, provision
  <2>7. pool' >= pool /\ pool \in Nat /\ pool' \in Nat
    BY <2>2, <2>3, <2>4, <2>5, <2>6 DEF LotteryType
  <2>8. (pool - board.prize)' >= pool - board.prize
    BY <2>2, <2>6, <2>7, Fields
  <2> QED
    BY <2>6, <2>8 DEF Announced!BoardNext, Announced!ComeIn, rollFee
<1>2. CASE \E roundId \in Nat, winner \in Winners, rakeWei \in Nat :
              recordRound(roundId, winner, rakeWei)
  BY <1>2, DrawIsBoardStep
<1>3. CASE \/ \E player \in Winners : withdrawPrize(player)
           \/ withdrawFounderFees
           \/ UNCHANGED cycleVars
  <2>1. UNCHANGED <<pool, board, remainders, totalWinnerPaid>>
    BY <1>3 DEF withdrawPrize, withdrawFounderFees, cycleVars, fundingVars, prizeVars
  <2> QED
    BY <2>1 DEF Announced!boardVars, rollFee
<1> QED
  BY <1>1, <1>2, <1>3 DEF LotteryNext

\* What is announced is what a draw pays, and late funding waits: the lottery
\* implements the board (quote, recordRound, _commitBoard).
THEOREM LotteryKeepsItsBoard == LotterySpec => BoardSpec
<1>1. LotteryInit => Announced!BoardInit
  <2> SUFFICES ASSUME LotteryInit PROVE Announced!BoardInit
    OBVIOUS
  <2>1. pool = 0 /\ board.prize = 0 /\ board.winnerPaid = 0 /\ board.seeded = 0
        /\ totalWinnerPaid = 0 /\ remainders.roll = 0
    BY DEF LotteryInit
  <2>2. rollFee(board.seeded) \in 0..0
    BY <2>1, FeeBounds, ChargeFacts DEF rollFee
  <2> QED
    BY <2>1, <2>2 DEF Announced!BoardInit
<1>2. CycleInv /\ CycleInv' /\ [LotteryNext]_cycleVars
         => [Announced!BoardNext]_(Announced!boardVars)
  BY LotteryStepIsBoardStep
<1> QED
  BY <1>1, <1>2, LotteryInvariance, PTL DEF LotterySpec, BoardSpec, Announced!Spec

-----------------------------------------------------------------------------
(* The casino                                                              *)

\* Two shares of a whole, rounded down, do not exceed it.
LEMMA TwoShares ==
    ASSUME NEW a \in Nat, NEW j \in Nat, NEW k \in Nat, NEW n \in Nat \ {0}, j + k <= n
    PROVE  /\ (a * j) \div n \in Nat /\ (a * k) \div n \in Nat
           /\ (a * j) \div n + (a * k) \div n <= a
<1> DEFINE x == a * j
           y == a * k
           p == x \div n
           q == y \div n
           whole == a * n
<1>1. x \in Nat /\ y \in Nat /\ x + y = a * (j + k) /\ a * (j + k) <= whole
  OBVIOUS
<1>2. whole \in Nat
  OBVIOUS
<1> HIDE DEF x, y
<1>3. p \in Nat /\ q \in Nat /\ p * n <= x /\ q * n <= y
  BY <1>1, CrashDivision
<1> HIDE DEF p, q
<1>4. (p + q) * n = p * n + q * n /\ p * n \in Int /\ q * n \in Int
  BY <1>3, Distributes
<1> DEFINE taken == (p + q) * n
<1>5. taken \in Int /\ taken <= whole
  <2> DEFINE pn == p * n
             qn == q * n
  <2>1. pn \in Int /\ qn \in Int /\ pn <= x /\ qn <= y /\ taken = pn + qn
    BY <1>3, <1>4
  <2> HIDE DEF pn, qn, taken, whole
  <2> QED
    BY <1>1, <1>2, <2>1
<1>6. ASSUME p + q >= a + 1 PROVE FALSE
  <2>1. taken >= (a + 1) * n /\ (a + 1) * n = whole + n
    BY <1>3, <1>6
  <2> HIDE DEF taken, whole
  <2> QED
    BY <1>2, <1>5, <2>1
<1>7. p + q <= a
  BY <1>3, <1>6
<1> QED
  BY <1>3, <1>7 DEF x, y, p, q

EscrowType == [burn : Nat, lottery : Nat, vault : Nat, founders : Nat]

\* The router's four legs are amounts: none is below zero.
LEMMA RoutedFacts ==
    ASSUME escrow \in EscrowType, NEW net \in Nat
    PROVE  Routed(net) \in EscrowType
<1> DEFINE burn == (net * BURN_BPS) \div ROUTER_BPS
           community == (net * COMMUNITY_BPS) \div ROUTER_BPS
           lottery == (community * communityLotteryBps) \div ROUTER_BPS
<1>1. /\ BURN_BPS \in Nat /\ COMMUNITY_BPS \in Nat /\ ROUTER_BPS \in Nat \ {0}
      /\ BURN_BPS + COMMUNITY_BPS <= ROUTER_BPS
      /\ communityLotteryBps \in Nat /\ 0 + communityLotteryBps <= ROUTER_BPS
  BY RouterAssumption
<1>2. burn \in Nat /\ community \in Nat /\ burn + community <= net
  BY <1>1, TwoShares
<1> HIDE DEF community, burn
<1>3. lottery \in Nat /\ lottery <= community
  <2>1. (community * 0) \div ROUTER_BPS = 0
    BY <1>1, <1>2
  <2> QED
    BY <1>1, <1>2, <2>1, TwoShares
<1> HIDE DEF lottery
<1>4. /\ escrow.burn \in Nat /\ escrow.lottery \in Nat /\ escrow.vault \in Nat
      /\ escrow.founders \in Nat
  BY DEF EscrowType
<1>5. /\ escrow.burn + burn \in Nat /\ escrow.lottery + lottery \in Nat
      /\ escrow.vault + community - lottery \in Nat
      /\ escrow.founders + net - burn - community \in Nat
  BY <1>2, <1>3, <1>4
<1> QED
  BY <1>5 DEF Routed, EscrowType, burn, community, lottery

\* What the game tells the lottery: rounds that the lottery has not seen.
ReportInv ==
    /\ lastRecordedRound \in Nat /\ lastRecordedRound <= currentRoundId
    /\ pendingLotteryRound <= currentRoundId
    /\ pendingLotteryRound # 0 => pendingLotteryRound > lastRecordedRound
    /\ round.phase \in Running => currentRoundId > lastRecordedRound

CasinoInv ==
    /\ CrashInv
    /\ CycleInv
    /\ escrow \in EscrowType
    /\ pendingLotteryRake \in Nat
    /\ ReportInv

LEMMA ElementOf ==
    ASSUME NEW T, NEW s \in Seq(T), NEW i \in DOMAIN s
    PROVE  s[i] \in T
  OBVIOUS

\* A report names a player of the game, a round and a rake.
LEMMA ReportIsLotteryStep ==
    ASSUME CasinoInv, NEW roundId \in Nat, NEW rakeWei \in Nat,
           ReportRound(roundId, rakeWei)
    PROVE  LotteryNext
<1>1. PICK i \in DOMAIN round.seats : recordRound(roundId, round.seats[i].player, rakeWei)
  BY DEF ReportRound
<1>2. round.seats[i].player \in Winners
  <2>1. round.seats \in Seq([player : Players, stake : Nat, targetBps : Nat])
    BY DEF CasinoInv, CrashInv, RoundOK
  <2>2. round.seats[i] \in [player : Players, stake : Nat, targetBps : Nat]
    BY <1>1, <2>1, ElementOf
  <2> QED
    BY <2>2, RouterAssumption
<1> QED
  BY <1>1, <1>2 DEF LotteryNext

\* Every step of the casino is one of the game and one of the lottery, or one
\* of them stands still.
LEMMA CasinoStepIsBoth ==
    ASSUME CasinoInv, CasinoNext
    PROVE  /\ [CrashNext]_crashVars /\ [LotteryNext]_cycleVars
           /\ escrow' \in EscrowType /\ pendingLotteryRake' \in Nat
<1>1. CrashInv /\ escrow \in EscrowType /\ pendingLotteryRake \in Nat
  BY DEF CasinoInv
<1>2. /\ escrow.burn \in Nat /\ escrow.lottery \in Nat /\ escrow.vault \in Nat
      /\ escrow.founders \in Nat
  BY <1>1 DEF EscrowType
<1>3. CASE (CrashNext \/ UNCHANGED crashVars) /\ Alone
  BY <1>1, <1>3 DEF Alone, routerVars
<1>4. ASSUME NEW keeper \in Players, NEW word \in Words, SettleAndReport(keeper, word)
      PROVE  /\ [CrashNext]_crashVars /\ [LotteryNext]_cycleVars
             /\ escrow' \in EscrowType /\ pendingLotteryRake' \in Nat
  <2>1. netRake \in Nat /\ currentRoundId \in Nat
    BY <1>1, SplitFacts DEF CrashInv, LedgerInv, LotteryInv
  <2>2. CrashNext /\ escrow' = escrow
    BY <1>4 DEF SettleAndReport, CrashNext, Keep
  <2>3. CASE ReportRound(currentRoundId, netRake) /\ UNCHANGED pendingLotteryRake
    BY <1>1, <2>1, <2>2, <2>3, ReportIsLotteryStep
  <2>4. CASE pendingLotteryRake' = netRake /\ UNCHANGED cycleVars
    BY <1>1, <2>1, <2>2, <2>4
  <2> QED
    BY <1>4, <2>3, <2>4 DEF SettleAndReport
<1>5. CASE RetryReport
  <2>1. pendingLotteryRound \in Nat
    BY <1>1 DEF CrashInv, LotteryInv
  <2>2. CrashNext /\ escrow' = escrow /\ pendingLotteryRake' = 0
    BY <1>5 DEF RetryReport, CrashNext, Keep
  <2>3. ReportRound(pendingLotteryRound, pendingLotteryRake)
    BY <1>5 DEF RetryReport
  <2> QED
    BY <1>1, <2>1, <2>2, <2>3, ReportIsLotteryStep
<1>6. CASE (LotteryNext \/ UNCHANGED cycleVars) /\ UNCHANGED <<crashVars, routerVars>>
  BY <1>1, <1>6 DEF routerVars
<1>7. CASE routeRake
  <2>1. pendingRake \in Nat
    BY <1>1 DEF CrashInv, LedgerInv
  <2> QED
    BY <1>1, <1>7, <2>1, RoutedFacts DEF routeRake, CrashNext, Move
<1>8. CASE claimLottery
  <2>1. [escrow EXCEPT !.lottery = 0] \in EscrowType
    BY <1>1 DEF EscrowType
  <2> QED
    BY <1>1, <1>2, <1>8, <2>1 DEF claimLottery, LotteryNext
<1>9. CASE claimVault
  <2>1. [escrow EXCEPT !.vault = 0] \in EscrowType
    BY <1>1 DEF EscrowType
  <2>2. escrow.vault \in Nat \ {0}
    BY <1>2, <1>9 DEF claimVault
  <2> QED
    BY <1>1, <1>9, <2>1, <2>2 DEF claimVault, CrashNext, Move
<1>10. CASE \E leg \in {"burn", "founders"} : claimOut(leg)
  <2>1. UNCHANGED <<crashVars, cycleVars, pendingLotteryRake>>
    BY <1>10 DEF claimOut
  <2>2. escrow' \in EscrowType
    BY <1>1, <1>10 DEF claimOut, EscrowType
  <2> QED
    BY <1>1, <2>1, <2>2
<1>11. CASE Overflow
  <2>1. vault.pendingOverflow \in Nat
    BY <1>1 DEF CrashInv, LedgerInv, VaultOK, VaultType
  <2> QED
    BY <1>1, <1>11, <2>1 DEF Overflow, CrashNext, Move, LotteryNext, routerVars
<1>12. CASE (Bet /\ Alone) \/ (freezeStalledRound /\ Alone) \/ (Environment /\ Alone)
  BY <1>3, <1>12 DEF CrashNext
<1>13. CASE CasinoKeep
  BY <1>3, <1>4, <1>5, <1>13 DEF CasinoKeep, CrashNext, Keep
<1>14. CASE CasinoMove
  <2> DEFINE Exits == (\/ \E player \in Players : withdraw(player)
                       \/ \E amount \in Funding : fundVault(amount)) /\ Alone
             Gifts == /\ \/ \E amount \in Donations :
                               totals.funded + amount <= MaxDonated /\ fund(amount)
                         \/ \E player \in Winners : withdrawPrize(player)
                         \/ withdrawFounderFees
                      /\ UNCHANGED <<crashVars, routerVars>>
             LegOut == \E leg \in {"burn", "founders"} : claimOut(leg)
  <2>1. CASE Exits
    BY <1>3, <2>1 DEF CrashNext, Move
  <2>2. CASE Gifts
    <3>1. Donations \subseteq Nat
      BY LotteryAssumption
    <3>2. LotteryNext
      BY <2>2, <3>1 DEF LotteryNext
    <3> QED
      BY <1>6, <2>2, <3>2
  <2>3. CASE LegOut
    BY <1>10, <2>3
  <2>4. Exits \/ Gifts \/ routeRake \/ claimLottery \/ claimVault \/ LegOut \/ Overflow
    BY <1>14, Zenon DEF CasinoMove
  <2> HIDE DEF Exits, Gifts, LegOut
  <2> QED
    BY <1>7, <1>8, <1>9, <1>11, <2>1, <2>2, <2>3, <2>4
<1> QED
  BY <1>12, <1>13, <1>14 DEF CasinoNext

\* A round that is started has the next number, and no report is pending.
LEMMA NextNumber ==
    ASSUME NEW phase \in Ended, NEW v, NEW pending, NEW mayStarve,
           TryStartRound(phase, v, pending, mayStarve) \/ StartRound(v, pending),
           RoundOK(round), currentRoundId \in Nat
    PROVE  \/ currentRoundId' = currentRoundId + 1 /\ pending = 0
           \/ currentRoundId' = currentRoundId /\ round'.phase \notin Running
<1>1. CASE StartRound(v, pending)
  BY <1>1 DEF StartRound, CanStart
<1>2. CASE round' = [round EXCEPT !.phase = phase] /\ UNCHANGED currentRoundId
  BY <1>2 DEF RoundOK, Running, Ended
<1> QED
  BY <1>1, <1>2 DEF TryStartRound

\* The lottery has not seen what it is told.
LEMMA ReportStep ==
    ASSUME CasinoInv, CasinoNext
    PROVE  ReportInv'
<1>1. /\ RoundOK(round) /\ currentRoundId \in Nat \ {0} /\ pendingLotteryRound \in Nat
      /\ round.phase \in Running => pendingLotteryRound = 0
      /\ lastRecordedRound \in Nat /\ lastRecordedRound <= currentRoundId
      /\ pendingLotteryRound <= currentRoundId
      /\ pendingLotteryRound # 0 => pendingLotteryRound > lastRecordedRound
      /\ round.phase \in Running => currentRoundId > lastRecordedRound
  BY DEF CasinoInv, CrashInv, LotteryInv, ReportInv
<1>2. ASSUME UNCHANGED <<currentRoundId, pendingLotteryRound, lastRecordedRound>>,
             round'.phase \in Running => round.phase \in Running
      PROVE  ReportInv'
  BY <1>1, <1>2 DEF ReportInv
<1>3. CASE (VoidRound \/ restartRounds) /\ Alone
  <2>1. UNCHANGED <<pendingLotteryRound, lastRecordedRound>>
    BY <1>3 DEF VoidRound, restartRounds, Alone, lotteryVars, cycleVars
  <2>2. \/ currentRoundId' = currentRoundId + 1
        \/ currentRoundId' = currentRoundId /\ round'.phase \notin Running
    BY <1>1, <1>3, NextNumber DEF VoidRound, restartRounds, Ended
  <2> QED
    BY <1>1, <2>1, <2>2 DEF ReportInv
<1>4. ASSUME NEW keeper \in Players, NEW word \in Words, SettleAndReport(keeper, word)
      PROVE  ReportInv'
  <2>1. /\ round.phase \in Running
        /\ \/ UNCHANGED pendingLotteryRound \/ pendingLotteryRound' = currentRoundId
        /\ \E v : TryStartRound("SETTLED", v, pendingLotteryRound', FALSE)
    BY <1>4 DEF SettleAndReport, settleRound, Lockable, RecordRound, Running
  <2>2. \/ currentRoundId' = currentRoundId + 1 /\ pendingLotteryRound' = 0
        \/ currentRoundId' = currentRoundId /\ round'.phase \notin Running
    BY <1>1, <2>1, NextNumber DEF Ended
  <2>3. CASE pendingLotteryRound' = 0
    <3>1. lastRecordedRound' = currentRoundId
      BY <1>4, <2>3 DEF SettleAndReport, ReportRound, recordRound
    <3> QED
      BY <1>1, <2>2, <2>3, <3>1 DEF ReportInv
  <2>4. CASE pendingLotteryRound' # 0
    <3>1. lastRecordedRound' = lastRecordedRound
      BY <1>4, <2>4 DEF SettleAndReport, cycleVars
    <3>2. pendingLotteryRound' = currentRoundId
      BY <1>1, <2>1, <2>4
    <3> QED
      BY <1>1, <2>1, <2>2, <2>4, <3>1, <3>2 DEF ReportInv
  <2> QED
    BY <2>3, <2>4
<1>5. CASE RetryReport
  <2>1. pendingLotteryRound' = 0 /\ lastRecordedRound' = pendingLotteryRound
        /\ TryStartRound(round.phase, vault, 0, FALSE)
        /\ pendingLotteryRound # 0
    BY <1>5 DEF RetryReport, retryLottery, NoPending, ReportRound, recordRound
  <2>2. round.phase \in Ended
    BY <1>1, <2>1 DEF RoundOK
  <2>3. \/ currentRoundId' = currentRoundId + 1
        \/ currentRoundId' = currentRoundId /\ round'.phase \notin Running
    BY <1>1, <2>1, <2>2, NextNumber
  <2> QED
    BY <1>1, <2>1, <2>3 DEF ReportInv
<1>6. CASE Bet /\ Alone
  BY <1>1, <1>2, <1>6
     DEF Bet, placeBet, Alone, lotteryVars, cycleVars, Running, RoundOK
<1>7. CASE lockRound /\ Alone
  BY <1>1, <1>2, <1>7
     DEF lockRound, Lockable, Alone, lotteryVars, cycleVars, Running
<1>8. CASE (freezeStalledRound \/ Environment) /\ Alone
  BY <1>2, <1>8
     DEF freezeStalledRound, Environment, Alone, roundVars, lotteryVars, cycleVars
<1>9. CASE CasinoMove
  <2>1. UNCHANGED <<roundVars, lotteryVars>>
    BY <1>9 DEF CasinoMove, withdraw, fundVault, Fund, fundCommunityReturn, routeRake,
                flushRake, claimLottery, claimVault, claimOut, Overflow, deliverOverflow,
                crashVars
  <2>2. UNCHANGED lastRecordedRound
    BY <1>9 DEF CasinoMove, fund, withdrawPrize, withdrawFounderFees, routeRake,
                claimLottery, claimVault, claimOut, Overflow, Alone, cycleVars
  <2> QED
    BY <1>2, <2>1, <2>2 DEF roundVars, lotteryVars
<1>10. CASE CasinoKeep
  BY <1>3, <1>4, <1>5, <1>7, <1>10 DEF CasinoKeep
<1> QED
  BY <1>6, <1>8, <1>9, <1>10 DEF CasinoNext

LEMMA CasinoInitially == CasinoInit => CasinoInv
<1> SUFFICES ASSUME CasinoInit PROVE CasinoInv
  OBVIOUS
<1>1. CrashInv /\ CycleInv
  BY CrashInitially, LotteryInitially DEF CasinoInit
<1>2. currentRoundId = 1 /\ pendingLotteryRound = 0 /\ lastRecordedRound = 0
  BY DEF CasinoInit, CrashInit, LotteryInit
<1>3. ReportInv
  BY <1>2 DEF ReportInv
<1> QED
  BY <1>1, <1>3 DEF CasinoInv, CasinoInit, EscrowType

LEMMA CasinoStep == CasinoInv /\ [CasinoNext]_casinoVars => CasinoInv'
<1> SUFFICES ASSUME CasinoInv, [CasinoNext]_casinoVars PROVE CasinoInv'
  OBVIOUS
<1>1. CASE CasinoNext
  BY <1>1, CasinoStepIsBoth, ReportStep, CrashStep, LotteryStep DEF CasinoInv
<1>2. CASE UNCHANGED casinoVars
  <2>1. UNCHANGED crashVars /\ UNCHANGED cycleVars /\ UNCHANGED routerVars
    BY <1>2 DEF casinoVars
  <2>2. CrashInv' /\ CycleInv'
    BY <2>1, CrashStep, LotteryStep DEF CasinoInv
  <2>3. ReportInv'
    BY <2>1 DEF CasinoInv, ReportInv, crashVars, roundVars, lotteryVars, cycleVars
  <2> QED
    BY <2>1, <2>2, <2>3 DEF CasinoInv, routerVars
<1> QED
  BY <1>1, <1>2

LEMMA CasinoInvariance == CasinoSpec => []CasinoInv
  BY CasinoInitially, CasinoStep, PTL DEF CasinoSpec

LEMMA CasinoStepOrStutter ==
    CasinoInv /\ [CasinoNext]_casinoVars => [CrashNext]_crashVars /\ [LotteryNext]_cycleVars
<1> SUFFICES ASSUME CasinoInv, [CasinoNext]_casinoVars
             PROVE  [CrashNext]_crashVars /\ [LotteryNext]_cycleVars
  OBVIOUS
<1>1. CASE UNCHANGED casinoVars
  BY <1>1 DEF casinoVars
<1> QED
  BY <1>1, CasinoStepIsBoth

\* With its router and its lottery attached, the game is a game as it is modelled
\* alone (flushRake, deliverOverflow, fundCommunityReturn, recordRound).
THEOREM CasinoIsCrash == CasinoSpec => CrashSpec
<1>1. CasinoInit => CrashInit
  BY DEF CasinoInit
<1> QED
  BY <1>1, CasinoInvariance, CasinoStepOrStutter, PTL DEF CasinoSpec, CrashSpec

\* And the lottery, fed by the router and told by the game, is a lottery.
THEOREM CasinoIsLottery == CasinoSpec => LotterySpec
<1>1. CasinoInit => LotteryInit
  BY DEF CasinoInit
<1> QED
  BY <1>1, CasinoInvariance, CasinoStepOrStutter, PTL DEF CasinoSpec, LotterySpec

\* The lottery refuses no report, now or at a retry: the rounds are new to it
\* and the draw is covered (settleRound, retryLottery, recordRound).
THEOREM ReportsAreTaken == CasinoSpec => []ReportsGetThrough
<1>1. CasinoInv => ReportsGetThrough
  BY DEF CasinoInv, CycleInv, ReportInv, ReportsGetThrough, Running
<1> QED
  BY <1>1, CasinoInvariance, PTL

-----------------------------------------------------------------------------
(* The guarded game                                                        *)

LEMMA GuardedStepIsCasinoStep == [GuardedNext]_guardedVars => [CasinoNext]_casinoVars
  BY DEF GuardedNext, GuardedBet, GuardedStall, CasinoNext, freeze, requestReopen,
         executeReopen, guardedVars

\* The guards only take steps away: the deployed game implements the casino
\* (PlankGuardedCrash is PlankCrash with two hooks).
THEOREM GuardedIsCasino == GuardedSpec => CasinoSpec
<1>1. GuardedInit => CasinoInit
  BY DEF GuardedInit
<1> QED
  BY <1>1, GuardedStepIsCasinoStep, PTL DEF GuardedSpec, CasinoSpec

\* What a reopening rests on: bets are stopped during an incident, and what was
\* requested was requested after the last stop.
GuardInv ==
    /\ HeldDuringIncident
    /\ frozenAt \in Nat /\ frozenAt <= now
    /\ reopenAt \in Nat
    /\ reopenAt # 0 => reopenAt >= frozenAt + reopenDelay

\* A recorded settlement is never taken back.
LEMMA SettledGrows ==
    ASSUME CrashInv, CrashNext
    PROVE  Range(settled) \subseteq Range(settled')
<1>1. settled \in Seq(Nat) /\ currentRoundId \in Nat
  BY DEF CrashInv, LotteryInv
<1>2. settled' = settled \/ settled' = Append(settled, currentRoundId)
  BY DEF CrashNext, Bet, placeBet, Keep, VoidRound, lockRound, settleRound, restartRounds,
         retryLottery, freezeStalledRound, Move, withdraw, fundVault,
         fundCommunityReturn, Fund, flushRake, deliverOverflow, Environment, lotteryVars
<1>3. \A i \in 1..Len(settled) :
         i \in 1..Len(Append(settled, currentRoundId))
           /\ Append(settled, currentRoundId)[i] = settled[i]
  BY <1>1
<1>4. DOMAIN settled = 1..Len(settled)
         /\ DOMAIN Append(settled, currentRoundId) = 1..Len(Append(settled, currentRoundId))
  BY <1>1
<1> QED
  BY <1>2, <1>3, <1>4 DEF Range

LEMMA NowGrows == CrashInv /\ [CrashNext]_crashVars => now' \in Nat /\ now' >= now
<1> SUFFICES ASSUME CrashInv, [CrashNext]_crashVars PROVE now' \in Nat /\ now' >= now
  OBVIOUS
<1>1. now \in Nat
  BY DEF CrashInv, ClockInv
<1>2. now' = now \/ now' = now + 1
  BY DEF CrashNext, Bet, placeBet, Keep, VoidRound, lockRound, settleRound, restartRounds,
         retryLottery, freezeStalledRound, Move, withdraw, fundVault,
         fundCommunityReturn, Fund, flushRake, deliverOverflow, Environment, crashVars,
         Tick, PublishRound, SubmitRound, beaconVars
<1> QED
  BY <1>1, <1>2

LEMMA GuardInitially == GuardedInit => GuardInv
<1> SUFFICES ASSUME GuardedInit PROVE GuardInv
  OBVIOUS
<1>1. stalledRound = 0 /\ now = deployedAt /\ reopenAt = 0 /\ frozenAt = 0
  BY DEF GuardedInit, CasinoInit, CrashInit
<1>2. deployedAt \in Nat
  BY CrashAssumption
<1> QED
  BY <1>1, <1>2 DEF GuardInv, HeldDuringIncident, recoveryPending

LEMMA GuardStep == GuardInv /\ CasinoInv /\ [GuardedNext]_guardedVars => GuardInv'
<1> SUFFICES ASSUME GuardInv, CasinoInv, [GuardedNext]_guardedVars PROVE GuardInv'
  OBVIOUS
<1> USE GuardAssumption
<1>0. CrashInv /\ [CrashNext]_crashVars
  BY GuardedStepIsCasinoStep, CasinoStepOrStutter DEF CasinoInv
<1>1. now' \in Nat /\ now' >= now /\ now \in Nat
  BY <1>0, NowGrows DEF CrashInv, ClockInv
<1>2. CASE UNCHANGED guardVars /\ UNCHANGED stalledRound
           /\ (recoveryPending' => recoveryPending)
  BY <1>1, <1>2 DEF GuardInv, HeldDuringIncident, guardVars
<1>3. ASSUME Pause PROVE GuardInv'
  BY <1>1, <1>3 DEF GuardInv, HeldDuringIncident, Pause
<1>4. ASSUME UNCHANGED stalledRound
      PROVE  recoveryPending' => recoveryPending
  BY <1>0, <1>4, SettledGrows DEF recoveryPending, crashVars, lotteryVars
<1>5. CASE GuardedBet
  BY <1>2, <1>4, <1>5 DEF GuardedBet, Bet, placeBet
<1>6. CASE GuardedStall \/ freeze
  BY <1>3, <1>6 DEF GuardedStall, AfterRoundStalled, freeze
<1>7. CASE (CasinoKeep \/ CasinoMove \/ (Environment /\ Alone)) /\ UNCHANGED guardVars
  <2>1. ASSUME CasinoKeep PROVE UNCHANGED stalledRound
    BY <2>1 DEF CasinoKeep, VoidRound, lockRound, restartRounds, SettleAndReport,
                settleRound, RetryReport, retryLottery
  <2>2. ASSUME CasinoMove PROVE UNCHANGED stalledRound
    BY <2>2 DEF CasinoMove, withdraw, fundVault, Fund, fundCommunityReturn, routeRake,
                flushRake, claimLottery, claimVault, claimOut, Overflow, deliverOverflow,
                crashVars
  <2>3. ASSUME Environment PROVE UNCHANGED stalledRound
    BY <2>3 DEF Environment
  <2>4. UNCHANGED stalledRound
    BY <1>7, <2>1, <2>2, <2>3
  <2> QED
    BY <1>2, <1>4, <1>7, <2>4
<1>8. CASE requestReopen
  <2>1. recoveryPending' = recoveryPending
    BY <1>8 DEF requestReopen, casinoVars, crashVars, lotteryVars, recoveryPending
  <2>2. admissionsPaused' = admissionsPaused /\ frozenAt' = frozenAt
           /\ reopenAt' = now + reopenDelay
    BY <1>8 DEF requestReopen
  <2> QED
    BY <1>1, <2>1, <2>2 DEF GuardInv, HeldDuringIncident
<1>9. CASE executeReopen
  <2>1. ~recoveryPending /\ recoveryPending' = recoveryPending
    BY <1>9 DEF executeReopen, casinoVars, crashVars, lotteryVars, recoveryPending
  <2>2. frozenAt' = frozenAt /\ reopenAt' = 0
    BY <1>9 DEF executeReopen
  <2> QED
    BY <1>1, <2>1, <2>2 DEF GuardInv, HeldDuringIncident
<1>10. CASE UNCHANGED guardedVars
  BY <1>2, <1>10 DEF guardedVars, guardVars, casinoVars, crashVars, lotteryVars,
                     recoveryPending
<1> QED
  BY <1>5, <1>6, <1>7, <1>8, <1>9, <1>10 DEF GuardedNext

LEMMA GuardInvariance == GuardedSpec => []GuardInv /\ []CasinoInv
<1>1. GuardedSpec => []CasinoInv
  BY GuardedIsCasino, CasinoInvariance, PTL
<1> QED
  BY <1>1, GuardInitially, GuardStep, PTL DEF GuardedSpec

\* While a reported round is unresolved, no bet is admitted: no reopening, no
\* new round and no retry lifts the stop (_afterRoundStalled, executeReopen).
THEOREM StopHolds == GuardedSpec => []HeldDuringIncident
<1>1. GuardInv => HeldDuringIncident
  BY DEF GuardInv
<1> QED
  BY <1>1, GuardInvariance, PTL

\* Bets are resumed reopenDelay after the last stop at the earliest, and not
\* during an incident (requestReopen, executeReopen, freeze).
THEOREM ReopeningWaits == GuardedSpec => ReopenWaits
<1>1. ASSUME GuardInv, CasinoInv, [GuardedNext]_guardedVars
      PROVE  [(admissionsPaused /\ ~admissionsPaused')
                 => (now >= frozenAt + reopenDelay /\ ~recoveryPending)]_guardedVars
  <2> SUFFICES ASSUME GuardedNext, admissionsPaused, ~admissionsPaused'
               PROVE  now >= frozenAt + reopenDelay /\ ~recoveryPending
    BY <1>1
  <2>1. executeReopen
    BY DEF GuardedNext, GuardedBet, GuardedStall, AfterRoundStalled, freeze, Pause,
           requestReopen, guardVars
  <2>2. now >= reopenAt /\ reopenAt # 0 /\ ~recoveryPending
    BY <2>1 DEF executeReopen
  <2>3. now \in Nat /\ reopenAt \in Nat /\ frozenAt \in Nat
           /\ reopenAt >= frozenAt + reopenDelay
    BY <1>1, <2>2 DEF GuardInv, CasinoInv, CrashInv, ClockInv
  <2> QED
    BY <2>2, <2>3, GuardAssumption
<1> QED
  BY <1>1, GuardInvariance, PTL DEF GuardedSpec, ReopenWaits

=============================================================================
