---------------------------- MODULE CasinoMoney ----------------------------
(***************************************************************************)
(* The casino's contracts together: the crash game, the router of its rake *)
(* (contracts/PlankRakeRouter.sol) and the lottery.  The game reports each *)
(* settled round to the lottery, the report fails and is retried; its rake *)
(* is flushed to the router, which escrows it in four legs; anybody pushes *)
(* the legs on, into the lottery, back into the game's reserve and out;    *)
(* what overflows the reserve goes to the lottery.  A call that fails is   *)
(* undone as a whole, so it is a guard of the caller.                      *)
(***************************************************************************)
EXTENDS PlankCrash, PlankCycleLottery

CONSTANTS
    ROUTER_BPS,            \* BPS of the router, 10_000
    BURN_BPS,
    COMMUNITY_BPS,
    communityLotteryBps,
    MaxDonated             \* BOUND: the lottery's funding by donors

\* The checks of the router's constructor.
ASSUME RouterAssumption ==
    /\ {BURN_BPS, COMMUNITY_BPS, MaxDonated} \subseteq Nat /\ ROUTER_BPS \in Nat \ {0}
    /\ BURN_BPS + COMMUNITY_BPS <= ROUTER_BPS
    /\ communityLotteryBps \in 0..ROUTER_BPS
    /\ Players \subseteq Winners

VARIABLES
    escrow,                \* of the router: burn, lottery, vault and founders
    pendingLotteryRake     \* the rake of the round whose report failed

routerVars == <<escrow, pendingLotteryRake>>
casinoVars == <<crashVars, cycleVars, routerVars>>

-----------------------------------------------------------------------------
(* The router                                                              *)

Routed(net) ==
    LET burn == (net * BURN_BPS) \div ROUTER_BPS
        community == (net * COMMUNITY_BPS) \div ROUTER_BPS
        lottery == (community * communityLotteryBps) \div ROUTER_BPS
    IN [burn |-> escrow.burn + burn,
        lottery |-> escrow.lottery + lottery,
        vault |-> escrow.vault + community - lottery,
        founders |-> escrow.founders + net - burn - community]

routeRake ==
    /\ flushRake
    /\ escrow' = Routed(pendingRake)
    /\ UNCHANGED <<cycleVars, pendingLotteryRake>>

claimLottery ==
    /\ escrow.lottery > 0
    /\ fund(escrow.lottery)
    /\ escrow' = [escrow EXCEPT !.lottery = 0]
    /\ UNCHANGED <<crashVars, pendingLotteryRake>>

claimVault ==
    /\ escrow.vault > 0
    /\ fundCommunityReturn(escrow.vault)
    /\ escrow' = [escrow EXCEPT !.vault = 0]
    /\ UNCHANGED <<cycleVars, pendingLotteryRake>>

\* claimBurn and claimFounders.
claimOut(leg) ==
    /\ escrow[leg] > 0
    /\ escrow' = [escrow EXCEPT ![leg] = 0]
    /\ UNCHANGED <<crashVars, cycleVars, pendingLotteryRake>>

-----------------------------------------------------------------------------
(* The game and the lottery                                                *)

\* The ticket may be anybody's who has a seat in the round.
ReportRound(roundId, rakeWei) ==
    \E i \in DOMAIN round.seats : recordRound(roundId, round.seats[i].player, rakeWei)

\* recordRound works or its failure is isolated.
SettleAndReport(keeper, word) ==
    /\ settleRound(keeper, word)
    /\ IF pendingLotteryRound' = 0
       THEN ReportRound(currentRoundId, netRake) /\ UNCHANGED pendingLotteryRake
       ELSE pendingLotteryRake' = netRake /\ UNCHANGED cycleVars
    /\ UNCHANGED escrow

RetryReport ==
    /\ retryLottery
    /\ ReportRound(pendingLotteryRound, pendingLotteryRake)
    /\ pendingLotteryRake' = 0
    /\ UNCHANGED escrow

Overflow ==
    /\ deliverOverflow
    /\ fund(vault.pendingOverflow)
    /\ UNCHANGED routerVars

\* The other contracts are not called.
Alone == UNCHANGED <<cycleVars, routerVars>>

\* What keepers do; anybody may.
CasinoKeep ==
    \/ (VoidRound \/ lockRound \/ restartRounds) /\ Alone
    \/ \E keeper \in Players, word \in Words : SettleAndReport(keeper, word)
    \/ RetryReport

\* Money moves between the contracts, in and out.
CasinoMove ==
    \/ /\ \/ \E player \in Players : withdraw(player)
          \/ \E amount \in Funding : fundVault(amount)
       /\ Alone
    \/ /\ \/ \E amount \in Donations :
                totals.funded + amount <= MaxDonated /\ fund(amount)
          \/ \E player \in Winners : withdrawPrize(player)
          \/ withdrawFounderFees
       /\ UNCHANGED <<crashVars, routerVars>>
    \/ routeRake
    \/ claimLottery
    \/ claimVault
    \/ \E leg \in {"burn", "founders"} : claimOut(leg)
    \/ Overflow

-----------------------------------------------------------------------------
CasinoInit ==
    /\ CrashInit
    /\ LotteryInit
    /\ escrow = [burn |-> 0, lottery |-> 0, vault |-> 0, founders |-> 0]
    /\ pendingLotteryRake = 0

CasinoNext ==
    \/ Bet /\ Alone
    \/ CasinoKeep
    \/ freezeStalledRound /\ Alone
    \/ CasinoMove
    \/ Environment /\ Alone

CasinoSpec == CasinoInit /\ [][CasinoNext]_casinoVars

-----------------------------------------------------------------------------
(* Correctness                                                             *)

\* The game waits for the lottery: nothing starts while a report is pending.  So
\* a report must never be one the lottery refuses, now or at any retry: neither
\* as a repeated round nor because the draw cannot be covered.
ReportsGetThrough ==
    /\ BoardCovered
    /\ pendingLotteryRound # 0 => pendingLotteryRound > lastRecordedRound
    /\ round.phase \in {"BETTING", "LIVE"} => currentRoundId > lastRecordedRound

=============================================================================
