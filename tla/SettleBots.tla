----------------------------- MODULE SettleBots -----------------------------
(***************************************************************************)
(* The programs that finish random redemptions without the user:           *)
(*   - Relayers run settleVault of scripts/relay-drand.ts (a cron job and, *)
(*     meanwhile, a scheduled workflow: runs overlap);                     *)
(*   - Servers run settleRandomRedeems of lib/market/server-settle-random  *)
(*     (one per request of the settle-random route).                       *)
(* Each reads the vault and the beacon over RPC, waits for a drand API, and *)
(* sends transactions; one step is what happens between two awaits.  The   *)
(* contracts are those of MarketplankVaultV3, acted on by its own actions; *)
(* users meanwhile deposit, request, redeem, claim and forfeit.            *)
(***************************************************************************)
EXTENDS MarketplankVaultV3

CONSTANTS
    Relayers, Servers,
    LostRounds,            \* rounds that every drand API answers with 404
    SurfacesUnavailable,   \* relayExactRound throws DrandRoundUnavailableError
    Turbulent              \* the run starts in turbulent times, see Faulty

Bots == Relayers \cup Servers

ASSUME BotsAssumption ==
    /\ Relayers \cap Servers = {}
    /\ LostRounds \subseteq Nat
    /\ \A round \in 1..MaxTime + MaxLag + 1 : SignatureOf(round) \in Signatures
    /\ SurfacesUnavailable \in BOOLEAN
    /\ Turbulent \in BOOLEAN

VARIABLES
    bot,      \* each process: where it is, what it has read, what it reported
    Faulty    \* RPCs fail, receipts get lost, processes die, until times are calm

botsVars == <<vars, bot, Faulty>>

Asleep == [pc |-> "start", requester |-> NoAccount, round |-> 0, state |-> "none"]

\* Steps of a process's own: continue at pc, or end the run with a report.
Goto(p, pc) == bot' = [bot EXCEPT ![p].pc = pc]

Report(p, state) ==
    bot' = [bot EXCEPT ![p].pc = "start", ![p].state = state]

ReportFor(p, requester, round, state) ==
    bot' = [bot EXCEPT ![p] = [pc |-> "start", requester |-> requester,
                               round |-> round, state |-> state]]

At(p, pc) == bot[p].pc = pc

\* An await of p's that only reads the chain or an API.
Reads(p, pc) == At(p, pc) /\ UNCHANGED vars

\* A transaction of p's is sent and awaited: it is included, or it reverts, or
\* the call fails; when the receipt is lost it may have been included as well.
SendTx(p, Tx, Reverts, onSuccess, onError) ==
    \/ Tx /\ Goto(p, onSuccess)
    \/ Faulty /\ Tx /\ Goto(p, onError)
    \/ (Faulty \/ Reverts) /\ UNCHANGED vars /\ Goto(p, onError)

RelayTx(p) == RoundRelayed(bot[p].round, SignatureOf(bot[p].round))

\* pinPendingDraw as a transaction: with nothing to pin it succeeds all the same.
PinTx ==
    \/ pinPendingDraw
    \/ DrawSettled /\ ~Pinnable /\ UNCHANGED vars

PinReverts == ~DrawSettled

ClaimReverts(requester) ==
    ~(redeemRequests[requester].active /\ AfterPin[requester].pinned)

ForfeitReverts(requester) ==
    ~(/\ redeemRequests[requester].active
      /\ ~AfterPin[requester].pinned
      /\ RoundExpired(redeemRequests[requester].targetRound))

\* What the APIs serve.
Served(round) == round <= published /\ round \notin LostRounds

-----------------------------------------------------------------------------
(* Both programs begin alike                                               *)

\* pendingRequester(): with nobody waiting the run is over.
ReadRequester(p) ==
    /\ Reads(p, "start")
    /\ IF pendingRequester = NoAccount
       THEN ReportFor(p, NoAccount, 0, "idle")
       ELSE bot' = [bot EXCEPT ![p] = [pc |-> "round", requester |-> pendingRequester,
                                       round |-> 0, state |-> "none"]]

\* pendingRound(): of whoever is pending by now, round 0 when nobody is.
PendingRoundNow == PendingRequest.targetRound

PendingRoundAvailable ==
    pendingRequester # NoAccount /\ isRoundAvailable(PendingRoundNow)

\* A failed read is an error; the one after a forfeit counts as a failed forfeit.
ReadFails(p) ==
    /\ Faulty
    /\ UNCHANGED vars
    /\ \/ /\ bot[p].pc \in {"start", "round", "latest", "available", "confirm"}
          /\ Report(p, "error")
       \/ At(p, "confirmForfeit") /\ Goto(p, "raced")

\* The process is killed, or runs into its time limit, and starts afresh.
Dies(p) ==
    /\ Faulty
    /\ ~At(p, "start")
    /\ UNCHANGED vars
    /\ bot' = [bot EXCEPT ![p] = Asleep]

-----------------------------------------------------------------------------
(* settleVault                                                             *)

\* pendingRound(), in a second call: round 0 when the slot was freed meanwhile.
RelayerReadRound(p) ==
    /\ Reads(p, "round")
    /\ bot' = [bot EXCEPT ![p].round = PendingRoundNow,
                          ![p].pc = IF PendingRoundNow = 0 THEN "start"
                                    ELSE IF PendingRoundAvailable THEN "pin" ELSE "latest",
                          ![p].state = IF PendingRoundNow = 0 THEN "error" ELSE "none"]

\* The latest round the relays report; a lagging relay reports an earlier one.
ReadLatest(p) ==
    /\ Reads(p, "latest")
    /\ \E latest \in IF Faulty THEN 0..published ELSE {published} :
          IF bot[p].round > latest THEN Report(p, "waiting") ELSE Goto(p, "relay")

\* relayExactRound, up to its transaction: nothing to do, a round two relays
\* agree on, a round that none of them has, or any other failure.
FetchExactRound(p) ==
    LET round == bot[p].round IN
    /\ Reads(p, "relay")
    /\ \/ isRoundAvailable(round) /\ Goto(p, "available")
       \/ ~isRoundAvailable(round) /\ Served(round) /\ Goto(p, "submit")
       \/ ~isRoundAvailable(round) /\ ~Served(round) /\ SurfacesUnavailable
            /\ Goto(p, "expiry")
       \/ ~isRoundAvailable(round) /\ (Faulty \/ ~(Served(round) \/ SurfacesUnavailable))
            /\ Goto(p, "raced")

SubmitExactRound(p) ==
    /\ At(p, "submit")
    /\ SendTx(p, RelayTx(p), FALSE, "available", "raced")

CheckAvailable(p) ==
    /\ Reads(p, "available")
    /\ IF isRoundAvailable(bot[p].round) THEN Goto(p, "pin") ELSE Report(p, "error")

\* Bug: the two rounds compared the wrong way round.
PastExpirySwapped(round) == round > currentRoundAt(now) + ROUND_EXPIRY

PastExpiry(round) == currentRoundAt(now) > round + ROUND_EXPIRY

CheckExpiry(p) ==
    /\ Reads(p, "expiry")
    /\ Goto(p, IF PastExpiry(bot[p].round) THEN "forfeit" ELSE "raced")

Forfeit(p) ==
    /\ At(p, "forfeit")
    /\ SendTx(p, forfeitExpiredRedeem(bot[p].requester), ForfeitReverts(bot[p].requester),
              "confirmForfeit", "raced")

Pin(p) == At(p, "pin") /\ SendTx(p, PinTx, PinReverts, "claim", "raced")

Claim(p) ==
    /\ At(p, "claim")
    /\ SendTx(p, claimRandomRedeemFor(bot[p].requester), ClaimReverts(bot[p].requester),
              "confirm", "raced")

\* confirmCleared: an occupied slot is an error, whoever occupies it by now.
ConfirmCleared(p) ==
    /\ bot[p].pc \in {"confirm", "confirmForfeit"}
    /\ UNCHANGED vars
    /\ Report(p, IF pendingRequester # NoAccount THEN "error"
                 ELSE IF At(p, "confirm") THEN "settled" ELSE "forfeited")

\* Bug: any failure is taken for a lost race.
RacedOrErrorOptimistic(p) ==
    /\ Reads(p, "raced")
    /\ Report(p, "settled")

\* racedOrError: an empty slot means that somebody else was faster.
RacedOrError(p) ==
    /\ Reads(p, "raced")
    /\ \/ Report(p, IF pendingRequester = NoAccount THEN "settled" ELSE "error")
       \/ Faulty /\ Report(p, "error")

RelayerStep(p) ==
    \/ ReadRequester(p) \/ RelayerReadRound(p) \/ ReadLatest(p)
    \/ FetchExactRound(p) \/ SubmitExactRound(p) \/ CheckAvailable(p)
    \/ CheckExpiry(p) \/ Forfeit(p) \/ Pin(p) \/ Claim(p)
    \/ ConfirmCleared(p) \/ RacedOrError(p)

-----------------------------------------------------------------------------
(* settleRandomRedeems                                                     *)

ServerReadRound(p) ==
    /\ Reads(p, "round")
    /\ bot' = [bot EXCEPT ![p].round = PendingRoundNow,
                          ![p].pc = IF PendingRoundNow # 0 /\ ~PendingRoundAvailable
                                    THEN "fetch" ELSE "pin"]

\* One API.  Whatever it answers but 200 counts as "not published yet".
ServerFetch(p) ==
    /\ Reads(p, "fetch")
    /\ \/ Served(bot[p].round) /\ Goto(p, IF isRoundAvailable(bot[p].round)
                                          THEN "pin" ELSE "submit")
       \/ (Faulty \/ ~Served(bot[p].round)) /\ Report(p, "waiting")
       \/ Faulty /\ Report(p, "error")

ServerSubmit(p) ==
    /\ At(p, "submit")
    /\ \/ RelayTx(p) /\ Goto(p, "pin")
       \/ Faulty /\ (RelayTx(p) \/ UNCHANGED vars) /\ Report(p, "error")

\* A pin that fails is ignored.
ServerPin(p) == At(p, "pin") /\ SendTx(p, PinTx, PinReverts, "claim", "claim")

ServerClaim(p) ==
    LET requester == bot[p].requester IN
    /\ At(p, "claim")
    /\ \/ claimRandomRedeemFor(requester) /\ Report(p, "settled")
       \/ Faulty /\ claimRandomRedeemFor(requester) /\ Goto(p, "forfeit")
       \/ (Faulty \/ ClaimReverts(requester)) /\ UNCHANGED vars /\ Goto(p, "forfeit")

\* When this fails too, or its receipt gets lost, the report says "waiting" if the
\* round was not seen on chain, "error" otherwise.
ServerForfeit(p) ==
    LET requester == bot[p].requester IN
    /\ At(p, "forfeit")
    /\ \/ forfeitExpiredRedeem(requester) /\ Report(p, "forfeited")
       \/ /\ Faulty \/ ForfeitReverts(requester)
          /\ UNCHANGED vars
          /\ \E state \in {"waiting", "error"} : Report(p, state)
       \/ /\ Faulty
          /\ forfeitExpiredRedeem(requester)
          /\ \E state \in {"waiting", "error"} : Report(p, state)

ServerStep(p) ==
    \/ ReadRequester(p) \/ ServerReadRound(p) \/ ServerFetch(p) \/ ServerSubmit(p)
    \/ ServerPin(p) \/ ServerClaim(p) \/ ServerForfeit(p)

-----------------------------------------------------------------------------
BotsInit ==
    /\ Init
    /\ bot = [p \in Bots |-> Asleep]
    /\ Faulty = Turbulent

\* What goes on around the bots: the users' part of the vault that moves the
\* slot, the network, time.
Surroundings ==
    /\ \/ \E u \in Users, t \in TokenIds : deposit(u, t) \/ redeemTarget(u, t)
       \/ \E u \in Users : requestRandomRedeem(u)
       \/ TimePasses
       \/ RoundPublished
    /\ UNCHANGED bot

\* A user's own wallet may settle too, when it does not count on the bots.
UserSettles ==
    /\ Faulty
    /\ \E u \in Users : claimRandomRedeemFor(u) \/ forfeitExpiredRedeem(u)
    /\ UNCHANGED bot

\* Every failure before this may happen at any time, none happens after it.
TimesCalm ==
    /\ Faulty
    /\ Faulty' = FALSE
    /\ UNCHANGED <<vars, bot>>

BotsNext ==
    \/ /\ \/ Surroundings
          \/ UserSettles
          \/ \E p \in Relayers : RelayerStep(p)
          \/ \E p \in Servers : ServerStep(p)
          \/ \E p \in Bots : ReadFails(p) \/ Dies(p)
       /\ UNCHANGED Faulty
    \/ TimesCalm

BotsSpec == BotsInit /\ [][BotsNext]_botsVars

\* The scheduler keeps starting the bots and a started bot goes on; time passes
\* and the network emits rounds; failures stop some day, whatever they have
\* left behind by then.  No user is obliged to do anything.
BotsFairSpec ==
    /\ BotsSpec
    /\ WF_botsVars(TimePasses /\ UNCHANGED <<bot, Faulty>>)
    /\ WF_botsVars(RoundPublished /\ UNCHANGED <<bot, Faulty>>)
    /\ WF_botsVars(TimesCalm)
    /\ \A p \in Relayers : WF_botsVars(RelayerStep(p) /\ UNCHANGED Faulty)
    /\ \A p \in Servers : WF_botsVars(ServerStep(p) /\ UNCHANGED Faulty)

-----------------------------------------------------------------------------
(* Correctness                                                             *)

\* A success report is true, now and for good: the request it names is over.
\* What a bot read before its awaits may be stale, the slot may have been taken
\* again, receipts get lost; none of that makes a bot report a success for a
\* request that is still waiting.
ReportHonest ==
    \A p \in Bots : (At(p, "start") /\ bot[p].state \in {"settled", "forfeited"}) =>
        LET req == redeemRequests[bot[p].requester] IN
        ~(req.active /\ req.targetRound = bot[p].round)

\* The bots alone keep the slot moving: whoever holds it, a contract that takes
\* no safe transfer included (_settle uses transferFrom), and even if no drand
\* API ever serves the round of the request, and whatever failed and died before
\* times got calm, the slot is free again some day.
SlotFreedByBots == \A u \in Users : pendingRequester = u ~> pendingRequester # u

=============================================================================
