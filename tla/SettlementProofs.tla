-------------------------- MODULE SettlementProofs --------------------------
(***************************************************************************)
(* Theorems about the settlement bots and about the budget of the          *)
(* settlement route.  Whatever the bots believe and however their runs     *)
(* interleave, they do to the vault only what any caller may do, so that   *)
(* every theorem of MarketplankVaultV3Proofs holds of a vault they serve;  *)
(* and a run that reports a draw settled is never one whose draw is still  *)
(* pending.  BotsInv is the inductive invariant: the round a run has read  *)
(* is the pending one's or long due, while a new draw commits to a round   *)
(* that is not.                                                            *)
(***************************************************************************)
EXTENDS SettleBots, SettleBudget, MarketplankVaultV3Proofs

-----------------------------------------------------------------------------
(* The bots                                                                *)

Success == {"settled", "forfeited"}

Outcomes == Success \cup {"none", "idle", "waiting", "error"}

\* Where a run may be once it has read a requester.
Underway == {"round", "latest", "relay", "submit", "available", "expiry", "forfeit", "pin",
             "claim", "confirm", "confirmForfeit", "raced", "fetch"}

BotStates == [pc : {"start"} \cup Underway, requester : Users \cup {NoAccount},
              round : Nat, state : Outcomes]

\* The round's time has come, on the wall clock at the latest.
Due(round) == TimeOfRound(round) <= now + MaxLag

\* What a bot believes its round to be: of the request now pending, or of one that
\* was over some time ago, and then the round is due.
RoundKnown(p) ==
    \/ bot[p].round = 0
    \/ (pendingRequester # NoAccount /\ bot[p].round = PendingRoundNow)
    \/ Due(bot[p].round)

Reported(p) == At(p, "start") /\ bot[p].state \in Success

\* A draw is pinned only when its round is stored.
PinnedIsDue == PendingRequest.pinned => Due(PendingRoundNow)

\* Inductive: a bot on its way, or one that reported a success, has a requester, and
\* its round is known.
BotsInv ==
    /\ PinnedIsDue
    /\ bot \in [Bots -> BotStates]
    /\ \A p \in Bots :
        /\ ~At(p, "start") \/ Reported(p) => bot[p].requester \in Users
        /\ RoundKnown(p)

\* Inductive together with it: a reported success is not about the pending request.
HonestInv ==
    \A p \in Bots :
        Reported(p) /\ pendingRequester = bot[p].requester
            => bot[p].round # PendingRoundNow

\* Later rounds come later.
LEMMA RoundOrder ==
    ASSUME NEW m \in Nat, NEW n \in Nat, m <= n
    PROVE  TimeOfRound(m) <= TimeOfRound(n)
<1>1. (m - 1) * period <= (n - 1) * period
  BY BeaconAssumption
<1>2. (m - 1) * period \in Int /\ (n - 1) * period \in Int
  BY BeaconAssumption
<1> QED
  BY <1>1, <1>2, BeaconAssumption DEF TimeOfRound

LEMMA RoundTimes ==
    ASSUME NEW n \in Nat
    PROVE  TimeOfRound(n) \in Int /\ TimeOfRound(n + 1) = TimeOfRound(n) + period
<1>1. (n - 1) * period \in Int /\ (n + 1 - 1) * period = (n - 1) * period + period
  BY BeaconAssumption
<1> QED
  BY <1>1, BeaconAssumption DEF TimeOfRound

LEMMA CurrentIsNat == BeaconTypeOK => currentRoundAt(now) \in Nat
<1> SUFFICES ASSUME BeaconTypeOK PROVE currentRoundAt(now) \in Nat
  OBVIOUS
<1>1. now \in Nat
  BY BeaconAssumption DEF BeaconTypeOK
<1>2. CASE now < genesisTimestamp
  BY <1>2 DEF currentRoundAt
<1>3. CASE ~(now < genesisTimestamp)
  <2>1. (now - genesisTimestamp) \div period \in Nat
    BY <1>1, <1>3, BeaconAssumption, DivNat
  <2> QED
    BY <1>3, <2>1 DEF currentRoundAt
<1> QED
  BY <1>2, <1>3

\* A stored round and an expired one are due.
LEMMA StoredIsDue ==
    ASSUME BeaconInv, NEW n \in Nat, isRoundAvailable(n)
    PROVE  Due(n)
<1>1. n \in 1..published /\ published \in Nat
  BY AvailableMeansStored DEF BeaconInv, BeaconTypeOK, OnlyEmittedStored
<1>2. TimeOfRound(n) <= TimeOfRound(published)
  BY <1>1, RoundOrder
<1>3. TimeOfRound(published) <= now + MaxLag
  BY <1>1 DEF BeaconInv
<1> QED
  BY <1>1, <1>2, <1>3, RoundTimes, BeaconAssumption DEF Due, BeaconInv, BeaconTypeOK

LEMMA ExpiredIsDue ==
    ASSUME BeaconInv, NEW n \in Nat, RoundExpired(n)
    PROVE  Due(n)
<1> DEFINE current == currentRoundAt(now)
<1>1. current \in Nat /\ now \in Nat
  BY CurrentIsNat, BeaconAssumption DEF BeaconInv, BeaconTypeOK
<1>2. n <= current /\ current > 0
  BY <1>1, VaultAssumption DEF RoundExpired
<1>3. TimeOfRound(current) <= now
  BY <1>2, ConventionHolds DEF BeaconInv, DrandConvention
<1>4. TimeOfRound(n) <= TimeOfRound(current)
  BY <1>1, <1>2, RoundOrder
<1> HIDE DEF current
<1> QED
  BY <1>1, <1>3, <1>4, RoundTimes, BeaconAssumption DEF Due

\* The round that a new request commits to is not.
LEMMA TargetNotDue ==
    ASSUME BeaconInv, AfterGenesis(now), MaxLag <= period
    PROVE  TargetRound \in Nat \ {0} /\ ~Due(TargetRound)
<1> DEFINE current == currentRoundAt(now)
<1>1. current \in Nat /\ now \in Nat
  BY CurrentIsNat, BeaconAssumption DEF BeaconInv, BeaconTypeOK
<1>2. TargetRound \in Nat /\ current + 2 <= TargetRound
  BY <1>1, VaultAssumption DEF TargetRound, nextRoundAfter
<1>3. now < TimeOfRound(current + 1)
  BY <1>1, ConventionHolds DEF BeaconInv, DrandConvention
<1> HIDE DEF current
<1>4. current + 1 + 1 = current + 2 /\ current + 1 \in Nat /\ current + 2 \in Nat
  BY <1>1
<1>5. /\ TimeOfRound(current + 2) = TimeOfRound(current + 1) + period
      /\ TimeOfRound(current + 1) \in Int
      /\ TimeOfRound(TargetRound) \in Int
  BY <1>2, <1>4, RoundTimes
<1>6. TimeOfRound(current + 2) <= TimeOfRound(TargetRound)
  BY <1>2, <1>4, RoundOrder
<1> QED
  BY <1>1, <1>2, <1>3, <1>5, <1>6, BeaconAssumption DEF Due

-----------------------------------------------------------------------------
(* The slot, as the bots see it                                            *)

\* What one step does to it: it stays, pinned perhaps once its round is due; it is
\* taken; or it is freed, its round being due.
SlotMoves ==
    \/ /\ pendingRequester' = pendingRequester
       /\ PendingRoundNow' = PendingRoundNow
       /\ PendingRequest'.pinned => PendingRequest.pinned \/ Due(PendingRoundNow)
    \/ /\ pendingRequester = NoAccount
       /\ AfterGenesis(now)
       /\ PendingRoundNow' = TargetRound
       /\ ~PendingRequest'.pinned
    \/ pendingRequester' = NoAccount /\ Due(PendingRoundNow)

LEMMA SlotTypes ==
    ASSUME IInv
    PROVE  /\ PendingRequest \in Requests /\ PendingRoundNow \in Nat
           /\ pendingRequester \in Users \cup {NoAccount} /\ NoAccount \notin Users
           /\ pendingRequester = NoAccount => PendingRoundNow = 0 /\ ~PendingRequest.pinned
           /\ \A u \in Users : redeemRequests[u].active =>
                 pendingRequester = u /\ PendingRequest = redeemRequests[u]
<1>1. NoRequest \in Requests /\ NoRequest.targetRound = 0 /\ ~NoRequest.pinned
  BY DEF NoRequest, Requests
<1>2. /\ redeemRequests \in [Users -> Requests]
      /\ pendingRequester \in Users \cup {NoAccount} /\ NoAccount \notin Users
      /\ SlotCoherent
  BY VaultAssumption DEF IInv, CustodyInv, TypeOK, Accounts
<1>3. PendingRequest \in Requests
  BY <1>1, <1>2 DEF PendingRequest
<1> QED
  BY <1>1, <1>2, <1>3 DEF PendingRequest, PendingRoundNow, Requests, SlotCoherent

SlotReadable ==
    /\ PendingRoundNow \in Nat
    /\ pendingRequester = NoAccount => PendingRoundNow = 0 /\ ~PendingRequest.pinned

LEMMA SlotTypesNext == IInv' => SlotReadable'
<1>1. IInv => SlotReadable
  BY SlotTypes DEF SlotReadable
<1> QED
  BY <1>1, PTL

LEMMA PinKeepsRounds ==
    ASSUME IInv, NEW u \in Users
    PROVE  /\ AfterPin[u].targetRound = redeemRequests[u].targetRound
           /\ AfterPin[u].pinned
                => \/ redeemRequests[u].pinned
                   \/ isRoundAvailable(redeemRequests[u].targetRound)
<1>1. redeemRequests \in [Users -> Requests] /\ pendingRequester \in Users \cup {NoAccount}
  BY DEF IInv, CustodyInv, TypeOK
<1>2. CASE ~Pinnable
  BY <1>2 DEF AfterPin
<1>3. CASE Pinnable
  <2>1. CASE u = pendingRequester
    BY <1>1, <1>3, <2>1 DEF AfterPin, Pinnable, Requests
  <2>2. CASE u # pendingRequester
    BY <1>1, <1>3, <2>2 DEF AfterPin
  <2> QED
    BY <2>1, <2>2
<1> QED
  BY <1>2, <1>3

\* The pending request, once the requests are those of AfterPin.
LEMMA SlotPinned ==
    ASSUME IInv, BeaconInv, redeemRequests' = AfterPin, UNCHANGED pendingRequester
    PROVE  SlotMoves
<1>1. CASE pendingRequester = NoAccount
  BY <1>1 DEF SlotMoves, PendingRoundNow, PendingRequest, NoRequest
<1>2. CASE pendingRequester # NoAccount
  <2>1. pendingRequester \in Users
    BY <1>2, SlotTypes
  <2>2. /\ PendingRequest = redeemRequests[pendingRequester]
        /\ PendingRequest' = AfterPin[pendingRequester]
    BY <1>2 DEF PendingRequest
  <2>3. PendingRoundNow \in Nat
    BY SlotTypes
  <2> QED
    BY <2>1, <2>2, <2>3, PinKeepsRounds, StoredIsDue DEF SlotMoves, PendingRoundNow
<1> QED
  BY <1>1, <1>2

LEMMA SlotStays ==
    ASSUME UNCHANGED slotVars
    PROVE  SlotMoves
  BY DEF slotVars, SlotMoves, PendingRoundNow, PendingRequest

LEMMA SlotStep ==
    ASSUME IInv, BeaconInv, PinnedIsDue, [Next]_vars
    PROVE  SlotMoves
<1>1. ASSUME NEW u \in Users, requestRandomRedeem(u) PROVE SlotMoves
  <2>1. /\ pendingRequester = NoAccount /\ pendingRequester' = u /\ AfterGenesis(now)
        /\ redeemRequests \in [Users -> Requests] /\ u # NoAccount
    BY <1>1, SlotTypes DEF requestRandomRedeem, IInv, CustodyInv, TypeOK
  <2>2. redeemRequests'[u].targetRound = TargetRound /\ ~redeemRequests'[u].pinned
    BY <1>1, <2>1 DEF requestRandomRedeem
  <2> QED
    BY <2>1, <2>2 DEF SlotMoves, PendingRoundNow, PendingRequest
<1>2. ASSUME NEW u \in Users, claimRandomRedeemFor(u) PROVE SlotMoves
  <2>1. /\ redeemRequests[u].active /\ AfterPin[u].pinned /\ pendingRequester' = NoAccount
    BY <1>2 DEF claimRandomRedeemFor, ReleaseSlot
  <2>2. PendingRequest = redeemRequests[u] /\ PendingRoundNow \in Nat
    BY <2>1, SlotTypes
  <2> QED
    BY <2>1, <2>2, PinKeepsRounds, StoredIsDue DEF SlotMoves, PendingRoundNow, PinnedIsDue
<1>3. ASSUME NEW u \in Users, forfeitExpiredRedeem(u) PROVE SlotMoves
  <2>1. /\ redeemRequests[u].active /\ RoundExpired(redeemRequests[u].targetRound)
        /\ pendingRequester' = NoAccount
    BY <1>3 DEF forfeitExpiredRedeem, ReleaseSlot
  <2>2. PendingRequest = redeemRequests[u] /\ PendingRoundNow \in Nat
    BY <2>1, SlotTypes
  <2> QED
    BY <2>1, <2>2, ExpiredIsDue DEF SlotMoves, PendingRoundNow
<1>4. CASE CustodyNext
  BY <1>1, <1>2, <1>3, <1>4, SlotPinned, SlotStays
     DEF CustodyNext, deposit, depositMany, TakeIn, pinPendingDraw, redeemTarget,
         redeemTargetMany, RedeemNext
<1>5. CASE PoolNext
  BY <1>5, SlotStays
     DEF PoolNext, buyShares, sellShares, addLiquidity, removeLiquidity, seedLiquidity,
         seedShares, openPool, withdrawFees
<1>6. CASE ExternalNext
  BY <1>6, SlotStays
     DEF ExternalNext, vaultVars, TransferShares, TransferNft, ForceEth, TimePasses,
         RoundPublished, RoundRelayed
<1>7. CASE UNCHANGED vars
  BY <1>7, SlotStays DEF vars, vaultVars
<1> QED
  BY <1>4, <1>5, <1>6, <1>7 DEF Next

\* A round once due stays due.
LEMMA DueStays ==
    ASSUME BeaconInv, BeaconInv', [Next]_vars, NEW n \in Nat, Due(n)
    PROVE  TimeOfRound(n) <= now' + MaxLag
<1>1. now \in Nat /\ now' \in Nat
  BY BeaconAssumption DEF BeaconInv, BeaconTypeOK
<1>2. now <= now'
  BY <1>1, BeaconView
     DEF BeaconNext, Tick, PublishRound, SubmitRound, beaconVars
<1> QED
  BY <1>1, <1>2, RoundTimes, BeaconAssumption DEF Due

-----------------------------------------------------------------------------
(* One step of a bot                                                       *)

\* What a step may do to what a bot knows: it keeps its round, forgets it, or reads
\* the pending one; it reports a success only when its requester is out of the slot.
BotMoves(p) ==
    /\ \/ bot'[p].round \in {0, bot[p].round}
       \/ bot'[p].round = PendingRoundNow /\ UNCHANGED vars
    /\ bot'[p].pc # "start" => bot'[p].requester \in Users
    /\ (bot'[p].pc = "start" /\ bot'[p].state \in Success)
          => bot'[p].requester \in Users /\ pendingRequester' # bot'[p].requester

BotsMove ==
    /\ bot' \in [Bots -> BotStates]
    /\ \A p \in Bots : bot'[p] = bot[p] \/ BotMoves(p)

BotFacts == IInv /\ BeaconInv /\ BotsInv

LEMMA BotsInvStep ==
    ASSUME BotFacts, IInv', BeaconInv', [Next]_vars, BotsMove
    PROVE  BotsInv'
<1>1. SlotMoves
  BY SlotStep DEF BotFacts, BotsInv
<1>2. /\ IInv /\ BeaconInv /\ BotsInv
      /\ bot \in [Bots -> BotStates] /\ bot' \in [Bots -> BotStates]
  BY DEF BotFacts, BotsInv, BotsMove
<1>3. PendingRoundNow \in Nat
  BY <1>2, SlotTypes
<1>4. /\ PendingRoundNow' \in Nat
      /\ pendingRequester' = NoAccount => PendingRoundNow' = 0 /\ ~PendingRequest'.pinned
  BY SlotTypesNext DEF SlotReadable
<1>5. PinnedIsDue'
  <2>1. Due(PendingRoundNow) => TimeOfRound(PendingRoundNow) <= now' + MaxLag
    BY <1>2, <1>3, DueStays
  <2> QED
    BY <1>1, <1>2, <1>4, <2>1 DEF SlotMoves, PinnedIsDue, BotsInv, Due
<1>6. ASSUME NEW p \in Bots
      PROVE  /\ ~At(p, "start")' \/ Reported(p)' => bot'[p].requester \in Users
             /\ RoundKnown(p)'
  <2>1. bot[p].round \in Nat
    BY <1>2 DEF BotStates
  <2>2. bot'[p] = bot[p] \/ BotMoves(p)
    BY DEF BotsMove
  <2>3. \/ bot[p].round = 0
        \/ (pendingRequester # NoAccount /\ bot[p].round = PendingRoundNow)
        \/ Due(bot[p].round)
    BY <1>2 DEF BotsInv, RoundKnown
  <2>4. Due(bot[p].round) => TimeOfRound(bot[p].round) <= now' + MaxLag
    BY <1>2, <2>1, DueStays
  <2>5. ASSUME bot'[p].round = bot[p].round PROVE RoundKnown(p)'
    BY <1>1, <2>3, <2>4, <2>5 DEF SlotMoves, RoundKnown, Due
  <2>6. ASSUME bot'[p].round = PendingRoundNow /\ UNCHANGED vars PROVE RoundKnown(p)'
    <3>1. pendingRequester' = pendingRequester /\ PendingRoundNow' = PendingRoundNow
      BY <2>6 DEF vars, vaultVars, slotVars, PendingRoundNow, PendingRequest
    <3> QED
      BY <1>4, <2>6, <3>1 DEF RoundKnown
  <2>7. ASSUME bot'[p].round = 0 PROVE RoundKnown(p)'
    BY <2>7 DEF RoundKnown
  <2>8. RoundKnown(p)'
    BY <2>2, <2>5, <2>6, <2>7 DEF BotMoves
  <2>9. (bot'[p].pc # "start" \/ bot'[p].state \in Success) => bot'[p].requester \in Users
    BY <1>2, <2>2 DEF BotsInv, BotMoves, Reported, At
  <2> QED
    BY <2>8, <2>9 DEF Reported, At
<1> QED
  BY <1>2, <1>5, <1>6 DEF BotsInv

\* With the chain's clock at most one period behind, a new request commits to a round
\* that no bot has ever read.
LEMMA HonestStep ==
    ASSUME BotFacts, HonestInv, [Next]_vars, BotsMove, MaxLag <= period
    PROVE  HonestInv'
<1>1. SlotMoves /\ IInv /\ BeaconInv /\ BotsInv
  BY SlotStep DEF BotFacts, BotsInv
<1> SUFFICES ASSUME NEW p \in Bots, Reported(p)', pendingRequester' = bot'[p].requester
             PROVE  bot'[p].round # PendingRoundNow'
  BY DEF HonestInv
<1>2. bot'[p] = bot[p]
  BY DEF BotsMove, BotMoves, Reported, At
<1>3. Reported(p) /\ pendingRequester' = bot[p].requester /\ bot[p].requester \in Users
  BY <1>1, <1>2 DEF Reported, At, BotsInv
<1>4. bot[p].requester # NoAccount
  BY <1>1, <1>3, SlotTypes
<1>5. CASE pendingRequester' = pendingRequester /\ PendingRoundNow' = PendingRoundNow
  BY <1>2, <1>3, <1>5 DEF HonestInv
<1>6. CASE /\ pendingRequester = NoAccount /\ AfterGenesis(now)
           /\ PendingRoundNow' = TargetRound
  BY <1>1, <1>2, <1>6, TargetNotDue DEF BotsInv, RoundKnown
<1> QED
  BY <1>1, <1>3, <1>4, <1>5, <1>6 DEF SlotMoves

LEMMA BotTypes ==
    ASSUME BotsInv, NEW p \in Bots
    PROVE  /\ bot[p] \in BotStates
           /\ bot[p].pc # "start" => bot[p].requester \in Users
  BY DEF BotsInv, At

LEMMA GotoMoves ==
    ASSUME BotsInv, NEW p \in Bots, bot[p].pc # "start", NEW pc \in Underway, Goto(p, pc)
    PROVE  BotsMove
<1>1. bot \in [Bots -> BotStates] /\ bot[p] \in BotStates /\ bot[p].requester \in Users
  BY BotTypes DEF BotsInv
<1>2. bot' = [bot EXCEPT ![p].pc = pc]
  BY DEF Goto
<1>3. bot' \in [Bots -> BotStates] /\ \A q \in Bots : q # p => bot'[q] = bot[q]
  BY <1>1, <1>2 DEF BotStates
<1>4. /\ bot'[p].round = bot[p].round /\ bot'[p].requester = bot[p].requester
      /\ bot'[p].pc # "start"
  BY <1>1, <1>2 DEF BotStates, Underway
<1> QED
  BY <1>1, <1>3, <1>4 DEF BotsMove, BotMoves

\* A report of a run on its way: a success only with the requester out of the slot.
LEMMA ReportMoves ==
    ASSUME BotsInv, NEW p \in Bots, NEW state \in Outcomes, Report(p, state),
           state \in Success => /\ bot[p].pc # "start"
                                /\ pendingRequester' # bot[p].requester
    PROVE  BotsMove
<1>1. /\ bot \in [Bots -> BotStates] /\ bot[p] \in BotStates
      /\ bot[p].pc # "start" => bot[p].requester \in Users
  BY BotTypes DEF BotsInv
<1>2. bot' = [bot EXCEPT ![p].pc = "start", ![p].state = state]
  BY DEF Report
<1>3. bot' \in [Bots -> BotStates] /\ \A q \in Bots : q # p => bot'[q] = bot[q]
  BY <1>1, <1>2 DEF BotStates
<1>4. /\ bot'[p].round = bot[p].round /\ bot'[p].requester = bot[p].requester
      /\ bot'[p].pc = "start" /\ bot'[p].state = state
  BY <1>1, <1>2 DEF BotStates
<1> QED
  BY <1>1, <1>3, <1>4 DEF BotsMove, BotMoves

\* The first call, of both programs.
LEMMA ReadRequesterMoves ==
    ASSUME IInv, BotsInv, NEW p \in Bots, ReadRequester(p)
    PROVE  BotsMove
<1>1. /\ bot \in [Bots -> BotStates]
      /\ pendingRequester \in Users \cup {NoAccount} /\ UNCHANGED vars
  BY SlotTypes DEF BotsInv, ReadRequester, Reads
<1> DEFINE idle == [pc |-> "start", requester |-> NoAccount, round |-> 0, state |-> "idle"]
           read == [pc |-> "round", requester |-> pendingRequester, round |-> 0,
                    state |-> "none"]
<1>2. \/ bot' = [bot EXCEPT ![p] = idle]
      \/ pendingRequester \in Users /\ bot' = [bot EXCEPT ![p] = read]
  BY <1>1 DEF ReadRequester, ReportFor
<1>3. idle \in BotStates /\ read \in BotStates
  BY <1>1 DEF BotStates, Underway, Outcomes, Success
<1>4. bot' \in [Bots -> BotStates] /\ \A q \in Bots : q # p => bot'[q] = bot[q]
  BY <1>1, <1>2, <1>3
<1>5. bot'[p] = idle \/ (pendingRequester \in Users /\ bot'[p] = read)
  BY <1>1, <1>2
<1>6. BotMoves(p)
  BY <1>5 DEF BotMoves, Success
<1> QED
  BY <1>4, <1>6 DEF BotsMove

\* The second call, as each program uses what it returns.
LEMMA ReadRoundMoves ==
    ASSUME IInv, BotsInv, NEW p \in Bots, UNCHANGED vars, At(p, "round"),
           NEW pc \in {"start"} \cup Underway, NEW state \in Outcomes,
           bot' = [bot EXCEPT ![p].round = PendingRoundNow, ![p].pc = pc,
                              ![p].state = state],
           pc # "start" \/ state \notin Success
    PROVE  BotsMove
<1>1. /\ bot \in [Bots -> BotStates] /\ bot[p] \in BotStates
      /\ bot[p].requester \in Users /\ PendingRoundNow \in Nat
  BY BotTypes, SlotTypes DEF BotsInv, At
<1>2. bot' \in [Bots -> BotStates] /\ \A q \in Bots : q # p => bot'[q] = bot[q]
  BY <1>1 DEF BotStates
<1>3. /\ bot'[p].round = PendingRoundNow /\ bot'[p].requester = bot[p].requester
      /\ bot'[p].pc = pc /\ bot'[p].state = state
  BY <1>1 DEF BotStates
<1> QED
  BY <1>1, <1>2, <1>3 DEF BotsMove, BotMoves

-----------------------------------------------------------------------------
(* What the bots do is what any user may do                                *)

\* The rounds that have been emitted are signed by a point anybody may submit.
LEMMA EmittedIsSigned ==
    ASSUME BeaconInv, NEW round \in Nat \ {0}, round <= published
    PROVE  SignatureOf(round) \in Signatures
<1>1. /\ published \in Nat /\ now \in 0..MaxTime
      /\ TimeOfRound(published) <= now + MaxLag
  BY DEF BeaconInv, BeaconTypeOK
<1>2. published - 1 <= (published - 1) * period /\ (published - 1) * period \in Nat
  <2>1. published - 1 \in Nat
    BY <1>1
  <2> QED
    BY <2>1, BeaconAssumption
<1>3. published <= MaxTime + MaxLag + 1
  BY <1>1, <1>2, BeaconAssumption DEF TimeOfRound
<1> QED
  BY <1>1, <1>3, BeaconAssumption, BotsAssumption

LEMMA RelayIsStep ==
    ASSUME BeaconInv, NEW round \in Nat, RoundRelayed(round, SignatureOf(round))
    PROVE  [Next]_vars
<1>1. CASE UNCHANGED randomness
  BY <1>1 DEF RoundRelayed, SubmitRound, vars, beaconVars
<1>2. CASE VerifySingle(round, SignatureOf(round))
  <2>1. round \in Nat \ {0} /\ round <= published /\ published \in Nat
    BY <1>2 DEF RoundRelayed, SubmitRound, ValidRound, VerifySingle, BeaconInv, BeaconTypeOK
  <2>2. SignatureOf(round) \in Signatures /\ round \in 0..published + 1
    BY <2>1, EmittedIsSigned
  <2> QED
    BY <2>2 DEF Next, ExternalNext
<1> QED
  BY <1>1, <1>2 DEF RoundRelayed, SubmitRound

LEMMA StillIsStep == UNCHANGED vars => [Next]_vars
  OBVIOUS

LEMMA PinIsStep == PinTx => [Next]_vars
  BY DEF PinTx, Next, CustodyNext

LEMMA ClaimIsStep ==
    ASSUME NEW u \in Users, claimRandomRedeemFor(u)
    PROVE  [Next]_vars /\ pendingRequester' = NoAccount
  BY DEF Next, CustodyNext, claimRandomRedeemFor, ReleaseSlot

LEMMA ForfeitIsStep ==
    ASSUME NEW u \in Users, forfeitExpiredRedeem(u)
    PROVE  [Next]_vars /\ pendingRequester' = NoAccount
  BY DEF Next, CustodyNext, forfeitExpiredRedeem, ReleaseSlot

Progress == [Next]_vars /\ BotsMove

LEMMA RelayerProgress ==
    ASSUME BotFacts, NEW p \in Relayers, RelayerStep(p)
    PROVE  Progress
<1>1. p \in Bots /\ IInv /\ BeaconInv /\ BotsInv /\ NoAccount \notin Users
  BY SlotTypes DEF Bots, BotFacts
<1>2. bot[p] \in BotStates /\ (bot[p].pc # "start" => bot[p].requester \in Users)
  BY <1>1, BotTypes
<1>3. bot[p].round \in Nat
  BY <1>2 DEF BotStates
<1>4. ASSUME ReadRequester(p) PROVE Progress
  BY <1>1, <1>4, ReadRequesterMoves DEF Progress, ReadRequester, Reads
<1>5. ASSUME RelayerReadRound(p) PROVE Progress
  <2> DEFINE pc == IF PendingRoundNow = 0 THEN "start"
                   ELSE IF PendingRoundAvailable THEN "pin" ELSE "latest"
             state == IF PendingRoundNow = 0 THEN "error" ELSE "none"
  <2>1. pc \in {"start"} \cup Underway /\ state \in Outcomes /\ state \notin Success
    BY DEF Underway, Outcomes, Success
  <2>2. bot' = [bot EXCEPT ![p].round = PendingRoundNow, ![p].pc = pc, ![p].state = state]
    BY <1>5 DEF RelayerReadRound
  <2>3. UNCHANGED vars /\ At(p, "round")
    BY <1>5 DEF RelayerReadRound, Reads
  <2> HIDE DEF pc, state
  <2> QED
    BY <1>1, <2>1, <2>2, <2>3, ReadRoundMoves DEF Progress
<1>6. ASSUME ReadLatest(p) PROVE Progress
  BY <1>1, <1>6, GotoMoves, ReportMoves
     DEF Progress, ReadLatest, Reads, At, Underway, Outcomes, Success
<1>7. ASSUME FetchExactRound(p) PROVE Progress
  BY <1>1, <1>7, GotoMoves DEF Progress, FetchExactRound, Reads, At, Underway
<1>8. ASSUME SubmitExactRound(p) PROVE Progress
  BY <1>1, <1>3, <1>8, GotoMoves, RelayIsStep
     DEF Progress, SubmitExactRound, SendTx, RelayTx, At, Underway
<1>9. ASSUME CheckAvailable(p) PROVE Progress
  BY <1>1, <1>9, GotoMoves, ReportMoves
     DEF Progress, CheckAvailable, Reads, At, Underway, Outcomes, Success
<1>10. ASSUME CheckExpiry(p) PROVE Progress
  BY <1>1, <1>10, GotoMoves DEF Progress, CheckExpiry, Reads, At, Underway
<1>11. ASSUME Forfeit(p) PROVE Progress
  BY <1>1, <1>2, <1>11, GotoMoves, ForfeitIsStep DEF Progress, Forfeit, SendTx, At, Underway
<1>12. ASSUME Pin(p) PROVE Progress
  BY <1>1, <1>12, GotoMoves, PinIsStep DEF Progress, Pin, SendTx, At, Underway
<1>13. ASSUME Claim(p) PROVE Progress
  BY <1>1, <1>2, <1>13, GotoMoves, ClaimIsStep DEF Progress, Claim, SendTx, At, Underway
<1>14. ASSUME ConfirmCleared(p) PROVE Progress
  <2>1. bot[p].pc # "start" /\ UNCHANGED vars /\ pendingRequester' = pendingRequester
    BY <1>14 DEF ConfirmCleared, vars, vaultVars, slotVars
  <2>2. \/ Report(p, "error")
        \/ pendingRequester = NoAccount /\ (Report(p, "settled") \/ Report(p, "forfeited"))
    BY <1>14 DEF ConfirmCleared
  <2> QED
    BY <1>1, <1>2, <2>1, <2>2, ReportMoves DEF Progress, Outcomes, Success
<1>15. ASSUME RacedOrError(p) PROVE Progress
  <2>1. bot[p].pc # "start" /\ UNCHANGED vars /\ pendingRequester' = pendingRequester
    BY <1>15 DEF RacedOrError, Reads, At, vars, vaultVars, slotVars
  <2>2. Report(p, "error") \/ (pendingRequester = NoAccount /\ Report(p, "settled"))
    BY <1>15 DEF RacedOrError
  <2> QED
    BY <1>1, <1>2, <2>1, <2>2, ReportMoves DEF Progress, Outcomes, Success
<1> QED
  BY <1>4, <1>5, <1>6, <1>7, <1>8, <1>9, <1>10, <1>11, <1>12, <1>13, <1>14, <1>15
     DEF RelayerStep

LEMMA ServerProgress ==
    ASSUME BotFacts, NEW p \in Servers, ServerStep(p)
    PROVE  Progress
<1>1. p \in Bots /\ IInv /\ BeaconInv /\ BotsInv /\ NoAccount \notin Users
  BY SlotTypes DEF Bots, BotFacts
<1>2. bot[p] \in BotStates /\ (bot[p].pc # "start" => bot[p].requester \in Users)
  BY <1>1, BotTypes
<1>3. bot[p].round \in Nat
  BY <1>2 DEF BotStates
<1>4. ASSUME ReadRequester(p) PROVE Progress
  BY <1>1, <1>4, ReadRequesterMoves DEF Progress, ReadRequester, Reads
<1>5. ASSUME ServerReadRound(p) PROVE Progress
  <2> DEFINE pc == IF PendingRoundNow # 0 /\ ~PendingRoundAvailable THEN "fetch" ELSE "pin"
  <2>1. pc \in Underway
    BY DEF Underway
  <2>2. UNCHANGED vars /\ At(p, "round") /\ bot \in [Bots -> BotStates]
    BY <1>1, <1>5 DEF ServerReadRound, Reads, BotsInv
  <2>3. bot' = [bot EXCEPT ![p].round = PendingRoundNow, ![p].pc = pc,
                           ![p].state = bot[p].state]
    <3>1. bot' = [bot EXCEPT ![p].round = PendingRoundNow, ![p].pc = pc]
      BY <1>5 DEF ServerReadRound
    <3> HIDE DEF pc
    <3> QED
      BY <1>1, <2>2, <3>1 DEF BotStates
  <2>4. bot[p].state \in Outcomes /\ pc # "start"
    BY <1>2, <2>1 DEF BotStates, Underway
  <2> HIDE DEF pc
  <2> QED
    BY <1>1, <2>1, <2>2, <2>3, <2>4, ReadRoundMoves DEF Progress
<1>6. ASSUME ServerFetch(p) PROVE Progress
  BY <1>1, <1>6, GotoMoves, ReportMoves
     DEF Progress, ServerFetch, Reads, At, Underway, Outcomes, Success
<1>7. ASSUME ServerSubmit(p) PROVE Progress
  BY <1>1, <1>3, <1>7, GotoMoves, ReportMoves, RelayIsStep
     DEF Progress, ServerSubmit, RelayTx, At, Underway, Outcomes, Success
<1>8. ASSUME ServerPin(p) PROVE Progress
  BY <1>1, <1>8, GotoMoves, PinIsStep DEF Progress, ServerPin, SendTx, At, Underway
<1>9. ASSUME ServerClaim(p) PROVE Progress
  BY <1>1, <1>2, <1>9, GotoMoves, ReportMoves, ClaimIsStep
     DEF Progress, ServerClaim, At, Underway, Outcomes, Success
<1>10. ASSUME ServerForfeit(p) PROVE Progress
  BY <1>1, <1>2, <1>10, ReportMoves, ForfeitIsStep
     DEF Progress, ServerForfeit, At, Outcomes, Success
<1> QED
  BY <1>4, <1>5, <1>6, <1>7, <1>8, <1>9, <1>10 DEF ServerStep

LEMMA AroundProgress ==
    ASSUME BotFacts, Surroundings \/ UserSettles
    PROVE  Progress
<1>1. BotsMove
  BY DEF Surroundings, UserSettles, BotsMove, BotFacts, BotsInv
<1>2. [Next]_vars
  BY DEF Surroundings, UserSettles, Next, CustodyNext, ExternalNext
<1> QED
  BY <1>1, <1>2 DEF Progress

LEMMA FailureProgress ==
    ASSUME BotFacts, NEW p \in Bots, ReadFails(p) \/ Dies(p)
    PROVE  Progress
<1>1. IInv /\ BeaconInv /\ BotsInv /\ bot \in [Bots -> BotStates] /\ UNCHANGED vars
  BY DEF BotFacts, BotsInv, ReadFails, Dies
<1>2. CASE ReadFails(p)
  <2>1. CASE Report(p, "error")
    BY <1>1, <2>1, ReportMoves DEF Progress, Outcomes, Success
  <2>2. CASE At(p, "confirmForfeit") /\ Goto(p, "raced")
    BY <1>1, <2>2, GotoMoves DEF Progress, At, Underway
  <2> QED
    BY <1>2, <2>1, <2>2 DEF ReadFails
<1>3. CASE Dies(p)
  <2>1. Asleep \in BotStates
    BY DEF Asleep, BotStates, Outcomes
  <2>2. bot' = [bot EXCEPT ![p] = Asleep]
    BY <1>3 DEF Dies
  <2>3. /\ bot' \in [Bots -> BotStates] /\ bot'[p] = Asleep
        /\ \A q \in Bots : q # p => bot'[q] = bot[q]
    BY <1>1, <2>1, <2>2
  <2>4. BotMoves(p)
    BY <2>3 DEF BotMoves, Asleep, Success
  <2> QED
    BY <1>1, <2>3, <2>4 DEF Progress, BotsMove
<1> QED
  BY <1>2, <1>3

LEMMA BotsProgress ==
    ASSUME BotFacts, [BotsNext]_botsVars
    PROVE  Progress
<1>1. CASE TimesCalm \/ UNCHANGED botsVars
  BY <1>1 DEF TimesCalm, botsVars, Progress, BotsMove, BotFacts, BotsInv
<1> QED
  BY <1>1, AroundProgress, RelayerProgress, ServerProgress, FailureProgress DEF BotsNext

LEMMA BotsStep == BotFacts /\ [BotsNext]_botsVars => BotFacts' /\ Progress
<1> SUFFICES ASSUME BotFacts, [BotsNext]_botsVars PROVE BotFacts' /\ Progress
  OBVIOUS
<1>1. [Next]_vars /\ BotsMove
  BY BotsProgress DEF Progress
<1>2. IInv' /\ BeaconInv'
  BY <1>1, Preserved DEF BotFacts
<1> QED
  BY <1>1, <1>2, BotsInvStep DEF BotFacts, Progress

LEMMA BotsInitially == BotsInit => BotFacts /\ HonestInv
<1> SUFFICES ASSUME BotsInit PROVE BotFacts /\ HonestInv
  OBVIOUS
<1>1. Init /\ bot = [p \in Bots |-> Asleep]
  BY DEF BotsInit
<1>2. IInv /\ BeaconInv
  BY <1>1, Initially
<1>3. Asleep \in BotStates
  BY DEF Asleep, BotStates, Outcomes
<1>4. PinnedIsDue
  BY <1>1 DEF Init, PinnedIsDue, PendingRequest, NoRequest
<1>5. BotsInv
  BY <1>1, <1>3, <1>4 DEF BotsInv, RoundKnown, Reported, At, Asleep, Success
<1>6. HonestInv
  BY <1>1 DEF HonestInv, Reported, At, Asleep, Success
<1> QED
  BY <1>2, <1>5, <1>6 DEF BotFacts

\* However the runs of relayers and servers overlap, fail and die, what reaches the
\* contracts is what users could have sent: every theorem about the vault holds of a
\* vault that the bots settle.
THEOREM BotsOnlyUseTheVault == BotsSpec => Spec
<1>1. BotsInit => BotFacts /\ Init
  BY BotsInitially DEF BotsInit
<1>2. BotFacts /\ [BotsNext]_botsVars => BotFacts' /\ [Next]_vars
  BY BotsStep DEF Progress
<1> QED
  BY <1>1, <1>2, PTL DEF BotsSpec, Spec

\* A reported success is about a request that is over and never comes back, for any
\* number of bots, rounds that get lost and whatever fails (the reports of settleVault
\* and of settleRandomRedeems), while the chain lags by at most one period: a later
\* request of the same user commits to a later round.
THEOREM ReportsAreHonest == MaxLag <= period => (BotsSpec => []ReportHonest)
<1> SUFFICES ASSUME MaxLag <= period PROVE BotsSpec => []ReportHonest
  OBVIOUS
<1>1. BotFacts /\ HonestInv => ReportHonest
  <2> SUFFICES ASSUME BotFacts, HonestInv, NEW p \in Bots, Reported(p),
                      redeemRequests[bot[p].requester].active
               PROVE  redeemRequests[bot[p].requester].targetRound # bot[p].round
    BY DEF ReportHonest, Reported, Success
  <2>1. bot[p].requester \in Users /\ IInv
    BY DEF BotFacts, BotsInv
  <2>2. /\ pendingRequester = bot[p].requester
        /\ PendingRequest = redeemRequests[bot[p].requester]
    BY <2>1, SlotTypes
  <2> QED
    BY <2>2 DEF HonestInv, PendingRoundNow
<1>2. BotFacts /\ HonestInv /\ [BotsNext]_botsVars => BotFacts' /\ HonestInv'
  BY BotsStep, HonestStep DEF Progress
<1> QED
  BY <1>1, <1>2, BotsInitially, PTL DEF BotsSpec

-----------------------------------------------------------------------------
(* The daily budget of the route: no request is refused too early, for any *)
(* cap, any number of callers, days and failing queries.                   *)

CallerStates == [pc : {"gone", "get", "set", "refused", "authorized"},
                 day : Days, used : Nat]

\* The type of the counters and of the callers' notes.
BudgetTypeOK ==
    /\ day \in Days
    /\ counter \in [Days -> Nat]
    /\ taken \in [Days -> Nat]
    /\ caller \in [Callers -> CallerStates]

\* The counter, and what a caller has read of it, never run ahead of the units.
CounterBehind ==
    /\ \A d \in Days : counter[d] <= taken[d]
    /\ \A c \in Callers : caller[c].pc = "set" => caller[c].used <= taken[caller[c].day]
    /\ NeverRefusedEarly

BudgetInv == BudgetTypeOK /\ CounterBehind

\* A caller that takes a unit raises that day's units by one and no others.
LEMMA GrantedStep ==
    ASSUME BudgetInv, NEW c \in Callers, Granted(c)
    PROVE  /\ taken' \in [Days -> Nat]
           /\ \A d \in Days : taken[d] <= taken'[d]
           /\ taken'[caller[c].day] = taken[caller[c].day] + 1
           /\ caller' \in [Callers -> CallerStates]
           /\ caller'[c].pc = "authorized"
           /\ \A e \in Callers : e # c => caller'[e] = caller[e]
<1>1. caller[c] \in CallerStates /\ caller[c].day \in Days
  BY DEF BudgetInv, BudgetTypeOK, CallerStates
<1>2. taken' = [taken EXCEPT ![caller[c].day] = @ + 1]
  BY DEF Granted
<1>3. caller' = [caller EXCEPT ![c].pc = "authorized"]
  BY DEF Granted
<1>4. /\ taken' \in [Days -> Nat]
      /\ \A d \in Days : taken[d] <= taken'[d]
      /\ taken'[caller[c].day] = taken[caller[c].day] + 1
  BY <1>1, <1>2 DEF BudgetInv, BudgetTypeOK
<1>5. /\ caller' \in [Callers -> CallerStates]
      /\ caller'[c].pc = "authorized"
      /\ \A e \in Callers : e # c => caller'[e] = caller[e]
  BY <1>1, <1>3 DEF BudgetInv, BudgetTypeOK, CallerStates
<1> QED BY <1>4, <1>5

\* What others have read stays behind when the units of a day only grow.
LEMMA OthersStayBehind ==
    ASSUME BudgetInv, NEW c \in Callers, BudgetTypeOK',
           \A d \in Days : taken[d] <= taken'[d],
           \A e \in Callers : e # c => caller'[e] = caller[e]
    PROVE  \A e \in Callers : e # c =>
              /\ caller'[e].pc = "set" => caller'[e].used <= taken'[caller'[e].day]
              /\ caller'[e].pc = "refused"
                    => taken'[caller'[e].day] >= PUBLIC_SETTLE_DAILY_CAP
<1> SUFFICES ASSUME NEW e \in Callers, e # c
             PROVE  /\ caller'[e].pc = "set" => caller'[e].used <= taken'[caller'[e].day]
                    /\ caller'[e].pc = "refused"
                          => taken'[caller'[e].day] >= PUBLIC_SETTLE_DAILY_CAP
  OBVIOUS
<1>1. caller'[e] = caller[e]
  OBVIOUS
<1>2. caller[e].day \in Days /\ caller[e].used \in Nat
  BY DEF BudgetInv, BudgetTypeOK, CallerStates
<1>3. /\ taken[caller[e].day] \in Nat /\ taken'[caller[e].day] \in Nat
      /\ taken[caller[e].day] <= taken'[caller[e].day]
  BY <1>2 DEF BudgetInv, BudgetTypeOK
<1> QED
  BY <1>1, <1>2, <1>3, BudgetAssumption DEF BudgetInv, CounterBehind, NeverRefusedEarly

\* The invariant holds at the start.
LEMMA BudgetInitially == BudgetInit => BudgetInv
<1> SUFFICES ASSUME BudgetInit PROVE BudgetInv
  OBVIOUS
<1>1. 0 \in Days /\ Gone \in CallerStates
  BY BudgetAssumption DEF Days, Gone, CallerStates
<1>2. BudgetTypeOK
  BY <1>1 DEF BudgetInit, BudgetTypeOK
<1>3. CounterBehind
  BY <1>1 DEF BudgetInit, CounterBehind, NeverRefusedEarly, Gone
<1> QED BY <1>2, <1>3 DEF BudgetInv

\* Every step keeps it.
LEMMA BudgetStep == BudgetInv /\ [BudgetNext]_budgetVars => BudgetInv'
<1> SUFFICES ASSUME BudgetInv, [BudgetNext]_budgetVars PROVE BudgetInv'
  OBVIOUS
<1>1. ASSUME NEW c \in Callers, Arrive(c) PROVE BudgetInv'
  <2>1. /\ caller' = [caller EXCEPT ![c] = [pc |-> "get", day |-> day, used |-> 0]]
        /\ UNCHANGED <<day, counter, taken>>
    BY <1>1 DEF Arrive
  <2>2. BudgetTypeOK'
    BY <2>1 DEF BudgetInv, BudgetTypeOK, CallerStates
  <2>3. \A e \in Callers : e # c => caller'[e] = caller[e]
    BY <2>1 DEF BudgetInv, BudgetTypeOK
  <2>4. caller'[c].pc = "get"
    BY <2>1 DEF BudgetInv, BudgetTypeOK
  <2>5. \A d \in Days : taken[d] <= taken'[d]
    BY <2>1 DEF BudgetInv, BudgetTypeOK
  <2> QED
    BY <2>1, <2>2, <2>3, <2>4, <2>5, OthersStayBehind
    DEF BudgetInv, CounterBehind, NeverRefusedEarly
<1>2. ASSUME NEW c \in Callers, Get(c) PROVE BudgetInv'
  <2> DEFINE used == counter[caller[c].day]
  <2>1. caller[c] \in CallerStates /\ caller[c].day \in Days
    BY DEF BudgetInv, BudgetTypeOK, CallerStates
  <2>2. used \in Nat /\ used <= taken[caller[c].day]
    BY <2>1 DEF BudgetInv, BudgetTypeOK, CounterBehind
  <2>3. /\ caller' = [caller EXCEPT ![c].used = used,
                                    ![c].pc = IF Spent(used) THEN "refused" ELSE "set"]
        /\ UNCHANGED <<day, counter, taken>>
    BY <1>2 DEF Get, postgresGet
  <2> HIDE DEF used
  <2>4. BudgetTypeOK'
    BY <2>1, <2>2, <2>3 DEF BudgetInv, BudgetTypeOK, CallerStates
  <2>5. \A e \in Callers : e # c => caller'[e] = caller[e]
    BY <2>3 DEF BudgetInv, BudgetTypeOK
  <2>6. /\ caller'[c].pc = IF Spent(used) THEN "refused" ELSE "set"
        /\ caller'[c].used = used
        /\ caller'[c].day = caller[c].day
    BY <2>1, <2>3 DEF BudgetInv, BudgetTypeOK, CallerStates
  <2>7. \A d \in Days : taken[d] <= taken'[d]
    BY <2>3 DEF BudgetInv, BudgetTypeOK
  <2>8. caller'[c].pc = "set" => caller'[c].used <= taken'[caller'[c].day]
    BY <2>2, <2>3, <2>6
  <2>9. caller'[c].pc = "refused" => taken'[caller'[c].day] >= PUBLIC_SETTLE_DAILY_CAP
    <3>1. taken[caller[c].day] \in Nat
      BY <2>1 DEF BudgetInv, BudgetTypeOK
    <3> QED BY <2>2, <2>3, <2>6, <3>1, BudgetAssumption DEF Spent
  <2> QED
    BY <2>3, <2>4, <2>5, <2>7, <2>8, <2>9, OthersStayBehind
    DEF BudgetInv, CounterBehind, NeverRefusedEarly
<1>3. ASSUME NEW c \in Callers, Set(c) \/ KvError(c) PROVE BudgetInv'
  <2>1. Granted(c) /\ UNCHANGED day
    BY <1>3 DEF Set, KvError, postgresSet
  <2>2. /\ taken' \in [Days -> Nat]
        /\ \A d \in Days : taken[d] <= taken'[d]
        /\ taken'[caller[c].day] = taken[caller[c].day] + 1
        /\ caller' \in [Callers -> CallerStates]
        /\ caller'[c].pc = "authorized"
        /\ \A e \in Callers : e # c => caller'[e] = caller[e]
    BY <2>1, GrantedStep
  <2>3. \/ counter' = counter
        \/ /\ caller[c].pc = "set"
           /\ counter' = [counter EXCEPT ![caller[c].day] = caller[c].used + 1]
    BY <1>3 DEF Set, KvError, postgresSet
  <2>4. caller[c].day \in Days /\ caller[c].used \in Nat
    BY DEF BudgetInv, BudgetTypeOK, CallerStates
  <2>5. BudgetTypeOK'
    BY <2>1, <2>2, <2>3, <2>4 DEF BudgetInv, BudgetTypeOK
  <2>6. ASSUME NEW d \in Days PROVE counter'[d] <= taken'[d]
    <3>1. /\ counter[d] \in Nat /\ taken[d] \in Nat /\ taken'[d] \in Nat
          /\ counter[d] <= taken[d] /\ taken[d] <= taken'[d]
      BY <2>2 DEF BudgetInv, BudgetTypeOK, CounterBehind
    <3>2. CASE counter' = counter
      BY <3>1, <3>2
    <3>3. CASE /\ caller[c].pc = "set"
               /\ counter' = [counter EXCEPT ![caller[c].day] = caller[c].used + 1]
      <4>1. caller[c].used <= taken[caller[c].day]
        BY <3>3 DEF BudgetInv, CounterBehind
      <4>2. CASE d = caller[c].day
        <5>1. counter'[d] = caller[c].used + 1
          BY <3>3, <4>2 DEF BudgetInv, BudgetTypeOK
        <5> QED BY <5>1, <4>1, <4>2, <2>2, <2>4, <3>1
      <4>3. CASE d # caller[c].day
        <5>1. counter'[d] = counter[d]
          BY <3>3, <4>3 DEF BudgetInv, BudgetTypeOK
        <5> QED BY <5>1, <3>1
      <4> QED BY <4>2, <4>3
    <3> QED BY <2>3, <3>2, <3>3
  <2> QED
    BY <2>2, <2>5, <2>6, OthersStayBehind DEF BudgetInv, CounterBehind, NeverRefusedEarly
<1>4. ASSUME NEW c \in Callers, NEW sameOrigin \in BOOLEAN, Authorize(c, sameOrigin)
      PROVE  BudgetInv'
  <2>1. /\ caller' = [caller EXCEPT ![c] = Gone]
        /\ UNCHANGED <<day, counter, taken>>
    BY <1>4 DEF Authorize
  <2>2. Gone \in CallerStates
    BY BudgetAssumption DEF Gone, CallerStates, Days
  <2>3. BudgetTypeOK'
    BY <2>1, <2>2 DEF BudgetInv, BudgetTypeOK
  <2>4. /\ \A e \in Callers : e # c => caller'[e] = caller[e]
        /\ caller'[c].pc = "gone"
    BY <2>1 DEF BudgetInv, BudgetTypeOK, Gone
  <2>5. \A d \in Days : taken[d] <= taken'[d]
    BY <2>1 DEF BudgetInv, BudgetTypeOK
  <2> QED
    BY <2>1, <2>3, <2>4, <2>5, OthersStayBehind
    DEF BudgetInv, CounterBehind, NeverRefusedEarly
<1>5. ASSUME NextDay PROVE BudgetInv'
  <2>1. day' \in Days /\ UNCHANGED <<counter, caller, taken>>
    BY <1>5, BudgetAssumption DEF NextDay, BudgetInv, BudgetTypeOK, Days
  <2> QED
    BY <2>1 DEF BudgetInv, BudgetTypeOK, CounterBehind, NeverRefusedEarly
<1>6. ASSUME UNCHANGED budgetVars PROVE BudgetInv'
  BY <1>6 DEF budgetVars, BudgetInv, BudgetTypeOK, CounterBehind, NeverRefusedEarly
<1> QED
  BY <1>1, <1>2, <1>3, <1>4, <1>5, <1>6 DEF BudgetNext

\* Whatever the interleaving, no request is refused while the day still has
\* budget (takePublicSettleBudget): the counter may only fall behind.
THEOREM NoEarlyRefusal == BudgetSpec => []NeverRefusedEarly
<1>1. BudgetInv => NeverRefusedEarly
  BY DEF BudgetInv, CounterBehind
<1> QED
  BY <1>1, BudgetInitially, BudgetStep, PTL DEF BudgetSpec

=============================================================================
