# RobinWood / Plank: TLA+ models and proofs

This directory is a verification project for the repository beside it: TLA+
modules translated from its source, TLC configurations that check them on small
instances, and theorems that TLAPS checks for every value of the constants.
`PROJECT.json` relates every definition to source lines, every property to a
run and to a mutation that breaks it, and every known hazard to the properties
that would notice it.

## 1. Inventory

The repository is an NFT marketplace on an EVM rollup with a web front end
(Next.js), a PostgreSQL database, cron jobs and a set of Solidity contracts. Two
families of contracts hold money: the *vault* (NFT custody, shares, a pool) and
the *casino* (a crash game, a lottery and what feeds them). Both draw their
randomness from the drand network through one contract, the *beacon*.

| Part | State it keeps | Operations | Talks to | What is hard | What makes it correct |
|---|---|---|---|---|---|
| `contracts/DrandBeacon.sol` | randomness per round | `submitRound`, reads, round arithmetic | vault, crash game, relayers | order of submissions; boundary seconds; lag of the chain's clock behind the network | only verified rounds, never changed; round numbers are drand's |
| `contracts/MarketplankVaultV3.sol` | held tokens and their index, one request slot, fees, pool reserves, LP ledger; an ERC20 and an ERC721 beside it | deposits, random redemption in four steps, targeted redemptions, pool trades and liquidity, seeding, fee withdrawal | beacon (reads), NFT receivers (callbacks), ETH recipients | interleavings of users around the one slot; frozen draw against moving slots; callbacks inside a batch; rounding; expiry against late relay | custody backs every share; draws are honoured and cannot be chosen; the slot is never stuck; the pool never loses to rounding |
| `scripts/relay-drand.ts` | none between ticks; requester and round within one | `settleVault` for every vault | beacon, vault, drand APIs | stale reads over many awaits, lost receipts, overlapping runs, crashes | honest reports; the slot keeps moving |
| `lib/market/server-settle-random.ts` | as above | `settleRandomRedeems` | as above | as above, beside the relayer and the user | as above |
| `app/api/market/vault/settle-random/route.ts`, `lib/market/durable-kv.ts` | a counter row per UTC day | one request | server-side settlement, PostgreSQL | two queries, several instances, failing store, midnight | the cap holds; nobody is refused early |
| `contracts/PlankCrash.sol` (and Guarded, Scalable) | rounds, stakes, reserve, seed budget, owed balances, pending lottery record | bet, lock, settle, stall, retry, withdraw, fund, flush | beacon, lottery, router, bank | isolated calls that fail and are retried; deferred starts; money in many ledgers | accounts add up; settlement cannot revert; each round is recorded once and in order; no bet after the randomness is out |
| `contracts/lib/PlankCappedPoolMath.sol` | none | `settle` | crash game | rounding, order of the water-filling | floor <= payout <= cap, conservation |
| `contracts/PlankRakeRouter.sol` | four escrow legs | route, four claims | crash game, lottery, burn engine | a claim that fails is undone and repeated | what came in is in a leg or went out |
| `contracts/PlankCycleLottery.sol` on `PlankNumberedLottery.sol` and `PlankLottery.sol` | pool, committed board, fees earned and provided for, fractions of both, credits of winners | fund, record a round (a draw), withdraw | crash game, router, donors | terms committed one round ahead while the pool moves; draws that the game waits for; fractions of a wei over many deposits | a draw pays what was announced and is always covered; ledgers add up; fees cannot be split away |
| `contracts/PlankBank.sol` | balances and sessions | deposit, bet through a session, collect | crash game | lifetime caps of sessions | balances are backed, caps hold |
| `contracts/PlankBurnEngine.sol`, `PlankCommunityFuel.sol`, `PlankV2TwapOracle.sol` | escrow, fuel, price observations | fund, burn, update | keeper, DEX | stale price windows | a burn needs a fresh price |
| `scripts/casino-keeper.ts` | none | a tick of best-effort steps | all of the casino | one step failing must not stop the others | everything that can move, moves |
| `contracts/MarketplankForeignFeeRouter.sol`, `MarketplankAcrossReceiver.sol`, `MarketplankDeBridgeExecutor.sol` | credits, escrow | route a bridged purchase | bridges, marketplaces | failure after the money arrived | money is delivered or credited |
| `packages/akasha/src/hose`, `scripts/akasha-hose.ts` | per chain: headers, events, coverage, the tail of the serial lane, a shard queue; in each process a copy of it and a queue of unwritten statements | plan, enqueue, claim, walk, retire, release; backfill an epoch; flush, load | RPC providers, PostgreSQL | leases that expire under a living worker, crashes, a write-behind store that is cut off anywhere and drops what it takes for malformed, blocks that are missing or cut short | coverage is never a lie, the tail leaves no hole |
| `lib/market/multichain/discovery/provider-pace.ts` | next slot per key | claim a slot | every crawler | several processes and clocks | the pace is kept, nobody is locked out |
| `lib/market/chain-indexer.ts`, `chain-events.ts`, `scripts/refresh-market-data.ts`, the admin routes | append-only ledger, cursor per source | scan, append, offer, move the cursor; re-index a range and repair rows | RPC, King of the Hill | crash between append and cursor, overlapping passes, reorganizations, receipts that cannot be read | no event is missed, what a pass adds is confirmed, prices survive and are found in the end |
| `lib/market/king-of-the-hill.ts`, `king-of-the-hill-rules.ts` | one row: deadline, leader, winner | offer a sale, read (and close) the round | the ledger, the indexer | the ledger already holds what is offered; old timestamps behind a row lock | the winner was offered in time and holds the record; a finished round is final |
| order stores, Bitcoin listings, boards, rooms, Charmville services | rows | single-statement upserts, life cycles | routes | races on a row | - |
| web client, simulations, migrations, `.github`, `public` | - | - | - | - | - |

How the modelled parts interact:

    users ----------> MarketplankVaultV3 <--------- relay-drand (cron)
                        |      ^   ^ settle, forfeit     |   |
          reads rounds  |      |   +--- server-settle <--|---|--- settle-random route
                        v      | callbacks               |   |      (daily budget)
                   DrandBeacon |                         |   v
                        ^    NFT receivers               | drand APIs <-- drand network
                        +---------- submitRound ---------+

    players, keepers --> PlankCrash (deployed as PlankGuardedCrash) <-- guardian
                         |  |  ^   | reports each round         ^  governance
        reads the target |  |  |   | overflow of the reserve    |
        round            v  |  |   +--> PlankCycleLottery <-----|--- donors
               DrandBeacon  |  | rake           ^ lottery leg   |
                            |  +----> PlankRakeRouter ----------+ reserve leg
                            v                |
             PlankCappedPoolMath             +--> burn engine, founders (external)

    the chain --> chain-indexer (cron, admins) --> plank_chain_events, cursor
                     | offers every priced sale        | highest sale
                     v                                 v
                  King of the Hill (one row) <-- readers of the API

    Bitcoin RPC --> akasha hose, several processes --> headers, events, coverage
                     | serial lane, shard lane             tail, akasha_gap_queue

## 2. Modules

| Module | Models | Built on |
|---|---|---|
| `DrandBeacon` | the beacon, the chain's clock, the drand network | - |
| `MarketplankVaultV3` | the vault with its ERC20, ERC721 and ETH balance | `DrandBeacon` |
| `CommitRevealDraw` | what a random redemption promises (abstract) | - |
| `SettleBots` | relayer and server processes acting on the vault | `MarketplankVaultV3` |
| `SettleBudget` | the daily budget in front of the server | - |
| `PlankCappedPoolMath` | the settlement of a round, a function | - |
| `CappedPoolBooks` | every book up to a bound, what its settlement promises | `PlankCappedPoolMath` |
| `PlankCrash` | the crash game | `DrandBeacon`, `PlankCappedPoolMath` |
| `ProgressiveBoard` | what the lottery promises (abstract) | - |
| `PlankCycleLottery` | the lottery | - |
| `CasinoMoney` | the router, and game, router and lottery together | `PlankCrash`, `PlankCycleLottery` |
| `PlankGuardedCrash` | the casino as deployed: stops and reopenings | `CasinoMoney` |
| `ChainIndexer` | the indexer's passes and repairs, ledger and cursor, a chain that reorganizes | - |
| `KingOfTheHill` | the round and its two transactions, fed by the indexer | `ChainIndexer` |
| `AkashaTape` | the hose's two lanes over Bitcoin's past | - |
| `MC*` | instances for TLC; `MCSmallParts` puts four parts that share no state side by side | the modules they name |
| `FiniteSums` | lemmas on folds and sums over finite sets | - |
| `MarketplankVaultV3Proofs` | theorems on the beacon and the vault | `MarketplankVaultV3`, `FiniteSums` |
| `SettlementProofs` | theorems on the bots and the budget | `SettleBots`, `SettleBudget`, `MarketplankVaultV3Proofs` |
| `PoolMathProofs` | lemmas on the settlement function | `PlankCappedPoolMath`, `FiniteSums` |
| `CappedPoolProofs` | theorems on the settlement of any book | `CappedPoolBooks`, `PoolMathProofs` |
| `CasinoMoneyProofs` | theorems on game, lottery, casino and guarded game | `PlankGuardedCrash`, `PoolMathProofs` |
| `KingOfTheHillProofs` | theorems on the indexer and the contest | `KingOfTheHill` |
| `AkashaTapeProofs` | theorems on the tape | `AkashaTape`, `FiniteSums` |

### DrandBeacon

`randomness` is the mapping of the contract as a function whose domain is the
set of stored rounds. `SubmitRound` is the whole of `submitRound`: zero and
already-stored rounds, the pairing (a signature verifies exactly when it is the
group's signature of that round), the store. The environment is in the module
too: `now` is the block timestamp, `published` the last round drand has
emitted. drand emits round 1 at genesis and one round per period
(`TimeOfRound`); the chain's clock may lag behind real time by `MaxLag` seconds
at most, which is what `PublishRound` and `Tick` leave room for. `MaxLag` is a
parameter so that a property can say under which lag it holds.

### MarketplankVaultV3

The variables are the contract's storage under its own names, with the ledgers
of the two tokens and the contract's ETH balance. One action is one transaction:
every external function is `nonReentrant` and either commits whole or reverts,
so each `revert` is a guard. The exception is `redeemTargetMany`, which hands
its tokens out one by one through `safeTransferFrom`: the receiver runs in
between. There the transaction is split: the action `redeemTargetMany` does
what comes before the first call-out, `RedeemNext` delivers one token, and
`call` holds the rest. While it runs, only what a callback may reach interleaves
(share transfers, NFT transfers, forced ETH, `submitRound`); other vault
functions are `NotEntered`-guarded, as by `nonReentrant`, and so is the clock,
since a transaction is within one block. The model does not undo the delivered
part of a batch that reverts at a later item: `redeemTargetMany` checks all
items at its start instead, which is the same because nothing that interleaves
can make a later item fail. The other functions that send ETH or tokens do so
as their last step, after all of their writes, so nothing observable lies
between the call-out and the end.

The run-time checks `_assertSolvent` and `_assertEthBacked` are not guards of
the model. That they never fire is what `Solvent` and `EthBacked` say.

Abstracted: wei and share amounts are small naturals, `keccak256(seed,
requester)` is the parameter `DrawWord`, events and view functions that nothing
reads are left out. `NonReceivers` are accounts that take neither ETH nor a
safe transfer.

### CommitRevealDraw

The abstract promise: a requester commits to a round the network has not
emitted; the menu is frozen then; the seed of that round fixes the token; that
token goes to that requester; only a request whose seed was never relayed can
end with nothing. `DrawSpec` in `MarketplankVaultV3` is the refinement: the menu
is the frozen prefix of `heldTokenIds`, the seeds are the beacon's.

### SettleBots

Each relayer and server is a record with a program counter; a step is what
happens between two awaits. What it has read (`requester`, `round`) stays as it
was while the chain moves on. A transaction is included, reverts, or fails in
transport; a lost receipt is a transaction that was included and yet sends the
process down its error path (`SendTx`), in the server's forfeit as anywhere else. A
failed step goes to `racedOrError` where the source does so, the confirmation of
a forfeit included. While `Faulty`, reads fail, a drand relay
lags, receipts get lost and processes die anywhere, and a user's own wallet may
settle; `TimesCalm` ends this at any moment, for good. `Dies` is also the time
limit of a cron job. `LostRounds` are rounds that every API answers with 404.
`SurfacesUnavailable` says whether `relayExactRound` reports such a round as
`DrandRoundUnavailableError`, which `settleVault` expects; the port that `main()`
passes does not (finding 1). One vault is modelled; a tick over several vaults
is the same loop again, and it starts afresh at each vault.

### SettleBudget

`takePublicSettleBudget` is two queries (`Get`, `Set`), each of which may fail
and then grants the unit. A failing write may have been made. The key is that of
the day on which the request arrived, and midnight may pass in between.
`Authorize` comes after the budget was taken, as in `handle`.

### PlankCappedPoolMath and CappedPoolBooks

`settle` is pure, so it is a function of the two purses, the crash and the
seats, and its reverts are the predicates `ValidInput` and `FloorFunded`. The
loop of the source walks the seats again and again until a walk caps nobody;
`Filled` makes one walk per seat, which is as many as the loop can need, and a
walk that caps nobody changes nothing. `Visit` is one seat's turn: the sequence
of a walk matters inside it, and that it does not matter for the result is a
property (`OrderIrrelevant`). Integers are unbounded; that the products stay
below 2^256 is the source's own comment and follows from `MAX_POT` and
`MAX_STAKE`. `CappedPoolBooks` is not a component but the harness of the
function: its behaviours are the books, built seat by seat.

### PlankCrash

One action is one transaction. The rounds of the contract are a mapping; the
model keeps the current one (`round`), because no later transaction changes an
earlier one, and of the earlier ones what is read again: the target rounds in
use (`drandRounds`), which rounds are settled (`settled`) and which is pending
(`pendingLotteryRound`). `vault` gathers the four figures of the reserve.

`VoidRound` and `lockRound` are the two ends of `_lock`, whoever calls it;
`settleRound` locks first when that is due. `TryStartRound` is the isolated
start: it happens, or it is deferred because it would revert; a void may also
defer it because the caller left too little gas, which settlement and retry
exclude by their gas check. `RecordRound` is the isolated call of the lottery.
The calls of `flushRake` and `deliverOverflow` restore everything when they
fail, so only their success is an action, and a failing `retryLottery` reverts.
What the called contracts do is not said here but in `CasinoMoney`. The seed hash of a round is any member
of `Words`, chosen when the round is settled, and `deriveCrash` is computed
from it.

Left out: `roundsContributed` and the spillover calls (the capped rule ignores
them), the bank as a caller of bets and exits, statistics, and
`claimRefund` with `unclaimedRefunds`: a round is voided when it is empty only,
so there is never a stake to refund.

### PlankCycleLottery and ProgressiveBoard

The deployed lottery is three contracts deep; the module is the result of the
inheritance, one action per external function. `board` gathers what
`commitBoard` stores: the prize, how it is split should it be won, and the
funding and the provision of fees that it was made from. `recordRound` is a draw
for that board (`NoDraw`, `Miss`, `Hit`) followed by the commitment of the next
one. `remainders` are the fractions of a wei that the three fees still owe;
`totals` the counters of the contract that its accounting view reads.

The ball is the hash of the seed, so whether a draw hits is a choice, and the
whole of the odds (`hitThreshold`) remains as the guard of `Hit`: a draw whose
odds round to zero cannot be won. The winner is given by the caller. All amounts
are integers with the divisions of the source, and `BASIS` its `BPS`.

`ProgressiveBoard` is the promise without fees, balances and odds: a board
announces a prize and its split, what comes in while it stands belongs to the
next one, a draw pays the announced share or nothing, and of every prize the
winner gets three quarters at least. `BoardSpec` is the refinement: `incoming` is
what the pool holds beyond the prize, `seed` what is retained less its fee.

### CasinoMoney

The router has no module of its own: its state is `escrow`, the four legs, and
all it does is take from the game and give to the game and the lottery.
`SettleAndReport` is the settlement with the isolated `recordRound` inside: it
happens with the lottery's own action, or the round and its rake are kept
(`pendingLotteryRake`) for `RetryReport`. `routeRake`, `claimLottery`, `claimVault`
and `Overflow` are each an action of two contracts at once; a call that reverts
takes its caller along, so the guards are conjoined. The lottery's winner holds
the ticket that the seed hash picks, weighted by stake: it may be anybody with a
seat in the round, and nobody else.

### PlankGuardedCrash

The casino as deployed: `_beforeBet` and `_afterRoundStalled` are conjoined with
the bets and the incident report of the game; everything else is that of
`CasinoMoney`. `frozenAt` is a history variable, the time of the last stop.

### ChainIndexer

Every process is a record with a program counter again (`Idle`): what it read of
the head, the cursor and the logs stays as it was while the chain and the other
processes move on. `ReadHead`, `PlanScan`, `FetchWindow`, `Append`, `Offer`,
`WriteCursor` are `indexSource`, await by await; all windows are read before
anything is written, and a window that fails ends the plan there. `ReadRanges`
and `RepairRange` start `reindexNftRange`, which appends and repairs window by
window. The cron job heals after each pass; an admin's request is either a pass
(`backfill-events`) or a range (`repair-activity`, `reindex-chain-events`).

A row is its kind, its price (0 for NULL) and its block. What enrichment makes
of a log is `Readings`: the truth, and while `faulty` what `classifyTransfer`
says without the receipt or without the transaction. The chain adds blocks and
replaces those that are less than `CONFIRMATION_DEPTH_BLOCKS` deep. Deeper
reorganizations are left out: the code names the depth as what it relies on.
`RepairRange` ends at the head itself or at a `toBlock` that nobody checks
(`RepairTos`), as the routes allow; what that does to the ledger is finding 3. A
sale whose price nobody can tell (several tokens for one value, a foreign ERC-20)
has the `Price` 0 and stays an unpriced row. Rows are written in batches, so a query
that fails (`QueryFails`) may leave some of them behind, in the order of their
blocks (`Batches`); it ends a re-index, while the cron job goes on from a source
that failed to its repairs. The depth is 1 where the code's is 600: it is a distance, and the
properties tell "deep enough" from "not" only.

### KingOfTheHill

Extends the indexer: its action `Answer` is the indexer's `Offer` with the
transaction that it makes. A call takes `Date.now()` first (`Ask`) and then waits
for a connection and the row, so the time it brings along may be old;
`getKingOfTheHill` takes any time up to `now` for the same reason. Behind the row
lock both are one transaction. Both write only if the last rule applied changed
the object that the seeding returned, which is why `koth` may stay as it is
although the function returned something else. `offered` is a history variable.

### AkashaTape

A height stands for its block, as blocks below the lock do not reorganize. Each
process has its memory (`hdr`, `cov`, `tail`) and `pending`, the statements
appended by every write and drained by `Flush` in order. A statement that fails
with a transient code (classes 08 and 57, `53300`, `40001`, `40P01`, or none) puts
itself and the rest back. Any other code makes `flush` drop it and run what is
behind it, be it an event, a header, a coverage row or a move of the tail; Node's
own connection codes and a full disk are among these. `Drained` therefore takes
the statements that are refused as a parameter, and the history `poisoned`
keeps them.

The shard lane is `Plan`, `claimShards` (the claimed shards come back in any order)
and one `WalkShard` per claimed shard, the serial lane `BackfillStep`, until the tail
cannot move, the tape is as large as it may get or the tick's time is up: an epoch
may end at any height without a fault. What a walk gets is any subset of the
heights, and of those any subset in full (`Readings`). A crash (a restart by the
hour, the watchdog, the deadline of a phase, a kill) may run any part of the queue
and loses memory and rest; `load` restores what is durable, of the headers the newest
only, and as few as other chains leave of the 10000 rows of the query. `retireShard`
and `releaseShard` act on every row of the range, as their SQL does.

`MaxFaults` and `MaxPoisoned` bound failures and refused statements; the code has
no such bounds. The properties are safety properties and are proved for every value of both.
Nothing is claimed about the past being filled *in the end*, because the schedule
does not give it: a tick walks a shard of 2,000 full blocks (`shard.ts:65`, 10.6 s
for one by `backfill.ts:33`) before its only flush, the watchdog of 180 s exits
without flushing (`akasha-hose.ts:369-380`), phases have deadlines (241-257), and both
recur every tick; the shard lane is off by default (43).

The planner's ranges are those of a fixed `finalizedHeight`: the tip lane, the
unwinding of reorganizations and the gap worker are not modelled.

## 3. Runs

| Run | Configuration | Shows |
|---|---|---|
| `vault_custody` | 2 users, 3 tokens, batches of 2, expiry 1 round | type, solvency, the index of the held tokens, every pending draw honourable, the abstract draw (`DrawSpec`); the beacon's cache holds only emitted signatures and is never overwritten |
| `vault_pool` | share unit 4, fees 1, swap fee 10%, ETH <= 10 | ETH and shares back the books, an open pool stays open, ledgers add up, no liquidity unit is diluted |
| `settle_bots` | one relayer, one server, users, all faults until times are calm, a round that is never served, a requester that takes no safe transfer | a success report is true; the bots alone free the slot, whatever happened before, when unserved rounds are reported as such |
| `settle_bots_production` | the port of `main()` | *violation*: they do not (finding 1) |
| `small_parts` | four parts that share no state, one taking all steps of a behaviour: the beacon (genesis 2, period 3, lag 3), the budget (cap 2, 3 callers, 2 days, failing store), the capped books (3 seats, 3 stakes, 3 targets, purses up to 9), the tape (2 workers, 3 heights in shards of 2, batch 1, 1 fault, 1 refused statement) | round numbers are drand's and an anchored round is unpublished; nobody is refused before the budget is gone; the settlement function: bounds, conservation, fairness, order; coverage is backed and the tail leaves no hole but for statements that were refused |
| `settle_budget_cap` | the store works | *violation*: the cap is exceeded (finding 2) |
| `crash_money` | 2 players, 2 rounds, one second per drand round, one donation, a lottery that may fail | the ledgers of game and lottery, principal, settlement never reverts, no report is refused, fees cannot be split away, the abstract board (`BoardSpec`) |
| `guarded_crash` | the casino with its guard, 1 player, 2 rounds, period 2, lag 2, slots of 5 s | bets are blind, the lottery's record, stops hold, reopening waits, every round ends, the game goes on |
| `chain_indexer` | one cron pass, one admin that passes or repairs block 3, a sale in WETH and one that nobody can price, 3 blocks, depth 1, one range a tick, all faults until times are calm | no gap below the cursor, what a pass adds is confirmed and stays true, prices and cursor only grow, every confirmed sale is stored and told, unless sales before it that nobody can price take every tick |
| `no_phantom` | the same, safety only | *violation*: a repair up to the head keeps a row that left the chain (finding 3) |
| `koth_winner` | one cron pass, 2 sales, no faults | *violation*: the winner does not hold the record (finding 4) |
| `tape_poison` | the tape as in `small_parts` | *violation*: a height is covered without its header or events (finding 5) |

**Bounds and why they are enough.** Custody needs two users to race, three
tokens for swap-and-pop to have a first, a middle and a last one, a batch of
two for a state between two deliveries, time for a request, its round, its
expiry and one round more. The pool needs a share unit and a swap fee for which
every division of the code has a remainder; fees are small but not zero, and
the balance bound of 10 lets a pool be seeded, opened, traded in both
directions and left. Custody and pool are separate runs because their state
spaces multiply; the two touch only in the share ledger and `accruedFees`,
which both runs carry, and the proofs cover them together. `RequestHorizon`
leaves a request enough time to expire before `MaxTime`, so that liveness is not
decided by the end of the model's time. The beacon's cache is checked inside custody:
anybody submits there any signature for any round, at every moment of the chain. Its
arithmetic is checked apart, with a period of 3 that starts at 2: the division
rounds, and two moments lie before the genesis. The four small parts share no
variable, so side by side they reach what they reach alone. Bots: one relayer and one server are
two processes of different programs and, with users that settle themselves, a
third party; two users let the slot change hands under a bot. Budget: three
callers and a cap of two give a refused caller while two updates race. Pool:
three seats are a first, a middle and a last one to cap, which takes up to three
walks; stakes and targets are coprime enough that caps, floors and shares have
remainders. `BPS` is scaled to 10 there and to 4 in the game, so that
percentages of small amounts differ after rounding. Game: the second round is
the first with a rake tier earned, recycled money as its seed and, in
`guarded_crash`, a slot whose target round the first one already uses; no property
refers to more than two successive rounds. Lottery: one donation of 57 makes, with the
founders' 1/16 and a provision of a quarter, fees that leave remainders, a prize of which
something is retained whose own fee has a fraction, and comes before the first
round, between two or while a report waits (the late funding); the rake's lottery
leg and the overflow of the reserve fund it again. Two rounds are a commitment and a draw
at its terms, hit or missed. Prizes and fees are withdrawn at any time.
`MaxDonated` bounds the donations. Indexer: two sales, of which
only one has a price that its receipt tells, are stored with and without price, read
as transfers, and repaired in one range or in two; with one range a tick the
hopeless one does keep the other waiting, so `EventuallyTold` would fail without its
exception. Three blocks are one that is confirmed while another reorganizes and one
more window than a failing plan reaches; two processes overlap, and block 3 is the
head, never confirmed, that an admin may repair. Contest: the dearer sale comes
first or last, and the deadline, a grace window and an extension fit into four
moments. Tape: a shard of two heights can be covered in half, a second shard is
outside the batch, `HeaderLimit` 1 forgets headers, one fault and one refused
statement are what it takes to break each property in its mutant; two
rows let a range be enqueued again while it is leased.
`MaxRounds` and `MaxFunded` bound rounds and funding,
`Funding`, `Stakes` and `Words` are small sets (a crash at once, an early one
and one beyond every target). `TimeLeft` keeps a round from starting whose
randomness would come after `MaxTime`, and `ClockRuns` stops the clock between
two rounds where a last one still fits: a start may be late, but liveness is
not decided by the end of the model's time.

**Deadlock.** `vault_pool` stops when the balance bound is reached, the budget
after the last day and unit, the beacon at the end of its time, the books when full and
the two crash runs after the last round; the chain of the indexer and the contest has a last
block after which an admin need not act and a finished cron pass only starts
again, and a tape whose past is closed ticks without a change;
`CHECK_DEADLOCK FALSE` there. In all other runs deadlock is checked: bots never wait on each other.

**Fairness.** *Bots*: a started process takes its next step and is started again
(the schedule in `docs/INMOTION_DEPLOYMENT.md`), time passes, the network emits
rounds, and failures end some day (WF on `TimesCalm`), leaving behind whatever
they have by then; no fairness on users, on deposits or on anybody else's relaying.
Failures that recur forever allow no promise. *Indexer*: the cron job is started
again and again and goes on, failures end some day; no admin has to act, the
chain need not go on.
*Crash game*: somebody keeps the game going (WF on `CasinoKeep`: lock, void, settle,
retry, restart are permissionless and `scripts/casino-keeper.ts` is run for
them; the lottery's call may fail each time it is made from a settlement, and a
retry that fails is made again), and time, drand and the relay of the awaited
round go on (WF on `Environment /\ Alone`; each of the three can take boundedly many
steps, so fairness of the three together is fairness of each). Nobody has to
bet, to withdraw, to flush or to reopen.

## 4. Theorems

Proved by TLAPS, for every value of the constants that satisfies the named
assumptions (`BeaconAssumption`, `VaultAssumption`, `BudgetAssumption`,
`BotsAssumption`, `PoolAssumption`, `CrashAssumption`, `LotteryAssumption`,
`RouterAssumption`, `GuardAssumption`, `ChainAssumption`, `TapeAssumption`). Users
and players are finite sets, as addresses are; without it a sum of balances has no
meaning. The signatures that submitters may send include those of the rounds that
can be emitted while the model's time lasts. Two theorems have a hypothesis beside
the assumptions, `MaxLag <= period`: the chain's clock lags drand by one period at
most, which is the margin that `requestRandomRedeem` takes (`nextRoundAfter(now) + 1`)
and all that its anchoring promises.

Every safety invariant, every action property and both refinements that a passing
run checks are theorems; what is left to TLC alone is liveness, and the five
properties that are false.

**Sums and folds (`FiniteSums`).** The models sum balances with `SumFunction` and
walk sequences with `FoldLeft`, which unfold into recursive functions chosen over
all subsets of a finite set. `NumberInduction` and `SubsetInduction` are induction
for a *set* of numbers or of subsets instead of a predicate, a first-order form that
the provers can apply; `FoldExists` gives the chosen function its recursive equation
from it. On these rest the facts every ledger needs: `SumSplit`, `SumUpdate` (one
entry changed changes the sum by as much), `SumAdd`, `SumMonotone`, `SumBounded`,
`SumImage` and the others.

**Beacon.** `BeaconSafety` (types, `OnlyEmittedStored`),
`BeaconNeverOverwritten` (a step property), `ConventionHolds` (the round
arithmetic, with `DivisionBounds` as its lemma), and `LeadHolds`: a round
anchored at `nextRoundAfter(now) + 1` is unpublished while `MaxLag <= period`
(`LeadCoversLag`). `vault_custody` checks `OnlyEmittedStored`, `small_parts`
`DrandConvention` and `LeadCoversLag`; that a stored round never changes is part of what
`DrawSpec` checks.

**Vault.** `Invariance` proves `Spec => []IInv`; `TypeCorrect`, `Solvency`,
`EtherIsThere`, `SharesAreThere`, `SlotStaysCoherent`, `CustodyStaysCoherent` and
`DrawStaysHonourable` are its parts, `CommitsToFuture` a step property
from it and `LeadFollows`; the run finds a violation of that one as one of
`DrawSpec`. `IInv` is the conjunction of `TypeOK`, `Solvent`,
`SlotCoherent`, `HeldCoherent`, `DrawHonourable`, `EthBacked` and `ShareBacked`
with `CallCoherent`, which no run needed as a property of its own: it relates
the running batch to the slots (its items are held, distinct and belong to an
account). None of these is inductive alone. Types need the rest because every
subtraction of the contract must stay a natural: the counter needs
`SlotCoherent`, the length of the list needs `HeldCoherent`, the reserves need
`EthBacked` and `ShareBacked`. Solvency needs `HeldCoherent` (a removal removes
exactly one token) and `SlotCoherent` (the counter is 1 when a request ends).
Honouring a draw needs the guard on the last free tokens, read through
`Solvent`'s length. The proof goes action by action, with lemmas for the shared
steps: `RemoveKeepsHeld` and `AddKeepsHeld` for swap-and-pop, `PinFacts` for
the pin, `MintFacts`, `BurnFacts`, `TransferFacts`, `FeeFacts` for the ledgers,
`AmountOutBounded` for the two trades.

**Pool and ledgers.** `LedgerInvariance` proves `LedgerInv` on top of `IInv`: the
balances sum to the supplies, units exist only while the pool is open, and then the
locked ones at `address(0)` are positive and no reserve is empty (`LpInv`).
`PoolSurvives` is the last part of it: a withdrawal takes a rounded-down share, by
fewer units than exist, so something stays. `ProvidersKeepTheirClaim` is a step
property: the product of the reserves per squared unit never falls. A trade keeps
it because the fee and the rounding favour the reserves (`TradeUndiluted`), a
contribution or withdrawal because each reserve keeps its proportion to the units
(`ProportionUndiluted`); all of it is non-linear arithmetic in products of four
factors, brought down to one multiplication at a time (`MulMono`).

**Refinement of the draw.** `DrawRefined`: `MaxLag <= period => (Spec => DrawSpec)`.
Every step of the vault is a step of `CommitRevealDraw` or none
(`StepDraws`, action by action): the request commits (`FutureRound`: the round it
anchors at has not been emitted), a pin reveals the token the seed falls on
(`PinReveals`, with `MenuView` and `DrawnView` relating frozen prefix and slots), a
claim delivers it, a forfeit is of a round whose seed was never relayed. Every
function that deposits or redeems pins first (`PinOrNothing`), so a pin inside
another operation is a reveal followed by nothing that moves the drawn token.

**Bots.** `BotsOnlyUseTheVault`: bots, vault and beacon together implement the
vault's specification, so all theorems about the vault hold of a vault that any
number of bots settle, however their steps interleave, fail and die.
`ReportsAreHonest` needs what a bot believes: `BotsInv` says that the round a run
carries is zero, that of the pending request, or one already due on the wall clock
(`RoundKnown`). A request that comes later commits to a round that is not due
(`TargetNotDue`, from `MaxLag <= period`), so the request a bot reported about never
reappears (`HonestInv`); that is what a user who requests again between the reads of
a bot could have broken.

**Budget.** `NoEarlyRefusal`: the counter never runs ahead of the units handed
out, because what a caller is about to write is at most what has been handed
out before it is handed its own unit.

**Settlement function.** `PayoutsAreBounded`, `PotsAlwaysCover`,
`SharesAreMaxMinFair` and `OrderNeverMatters` hold for books of any length, stakes
and targets. `GoodLevel` is what the water-filling keeps true at every seat it
visits (`VisitKeeps`), through a walk (`PassKeeps`) and from walk to walk: the level
never falls, whoever was capped stays reached, and the rest of the budget is spread
over the weight that is left. `FilledStable` shows that one walk per seat is enough:
a walk that caps somebody caps one seat more, so after as many walks as seats one
has capped nobody. The payouts then are rounded shares of a level at which exactly
the reached seats are capped (`PaidWithinBounds`, `PaidWithinBudget`, `PaidFairly`).
The order of the bets does not matter because two levels of which both hold are one
(`LevelUnique`), and exchanging two seats turns a good level of one book into a good
one of the other (`GoodExchanged`, `PayoutsExchanged`).

**Crash game.** `AccountsAddUp`, `PrincipalSafe`, `LotteryRecords` and
`BetsAreBlind` are four parts of one inductive invariant, `CrashInv`. The
accounts need the reserve's types and cover (`CreditFacts`, `DrawFacts`: a seed
is a share of the buffer, so it is not taken from the principal), that an empty
book has an empty pool (or a void would lose stakes), and that a round's pool is
split without remainder into the players' purse, the keeper's reward and the
rake (`SplitFacts`, from the rake staircase never going below zero). The record
needs that a running round implies no pending one, which `_startRound` checks.
Bets are blind because a round's target is the one its deadline was bound to and
`TargetIsLate`: its emission is more than the safety periods after the deadline.
What `settle` computes enters through one guard, that its checked arithmetic
does not fail (`SettleReturns`). That this guard never refuses a round that was bet
on is `SettlementAlwaysPossible`: `SeatsInv`, inductive on top of `CrashInv`, says
that a book has at most `maxSeats` seats of one player each within the limits and
that the pool is their sum; from it `FloorsFunded` shows that the floors of all
survivors fit into what is left of the pool at any rake tier, and
`PaidWithinBudget` of the settlement function does the rest. `OwedAlwaysAddsUp` is
its other part: payouts and rewards enter `owed` and `totalOwed` by the same sums.
`CrashTypes` is a fifth part of `CrashInv`: the storage is well typed, so none of the
subtractions of a ledger reverts.

**Lottery.** `LotteryInvariance` proves `LotterySpec => []CycleInv`, for any rates,
odds, funding and reports in any order. `DrawsAreCovered`, `LotteryAddsUp` and
`SplittingIsBlind` are its parts. That a draw is covered (`BoardCovered`) relates
the committed terms to a pool, a provision and a cycle that go on moving; it is
preserved because funding only adds, a draw takes what was committed and no more,
and the next commitment starts from what is left (`CommitCovers`). `ChargeFacts`
is the lemma on a fee: what it takes and what it carries are exactly its rate, so
fees telescope over any sequence (`FeesSplitBlind`). `SeedFacts` bounds what is
retained, from which `LotteryKeepsItsBoard`, the refinement
`LotterySpec => BoardSpec`, has the winner's three quarters.

**Casino.** `CasinoIsCrash` and `CasinoIsLottery`: composed, game and lottery each
take steps of their own module only, so what is proved of them alone holds in the
casino. `ReportsAreTaken` needs both at once (`CasinoInv`): the round that waits to
be recorded is one that the lottery has not seen, since the last it recorded is
settled and none is pending while a round runs; and its draw is covered.

**Guarded game.** `GuardedIsCasino`: the deployed game takes steps of the casino
only, so all of these theorems hold of it. `StopHolds` and `ReopeningWaits`
follow from `GuardInv`: an incident implies a stop, because a settlement is
never taken back, and a reopening in progress was requested after the last stop.

**Indexer.** `InvHolds` proves `ChainSpec => []ChainInv`; `NoGapHolds`,
`IndexedRowsConfirmedHolds` and `LedgerOnlyGrowsHolds`, the latter two step
properties, follow from it, for
any number of processes, any budgets, any reorganizations above the depth and
every failure. `NoGap` alone says nothing of a process that is about to move the
cursor: `WorkerOK` says that what each process holds in memory is true, for as
long as it waits: every log that is mined between its start and the point it
reached is in its rows (before the append) or in the ledger (after), its plan ends
at or below the confirmed head, and its start is not above the cursor. `Deeper` is
the lemma that makes this stable: what is confirmed neither moves nor comes or
goes, and what makes the rows that a pass appends true for good. Repairs append
too, of any range; they do not disturb what a pass relies on, since a row of the ledger
is never lost (`BatchFacts` for a batch that was cut off). That *every* row is true is
finding 3, and no theorem.

**King of the Hill.** `KothInvHolds`, under `Milliseconds` (deadline and extension
are naturals): the stored leader and the winner are sales that were offered while
the round ran, because what is seeded from the ledger is written only when a
better offered sale replaces it. From it `LateSaleNeverWinsHolds` and
`RoundFinalHolds`, the two things the rules do guarantee; that the winner holds
the record they do not (finding 4).

**Tape.** `CoverageStaysBacked` and `TailStaysHonest` are the durable half of
`TapeInv`, for any faults and any refused statements. A row that coverage or tail
rely on is there or was refused (`Settled`): these theorems say that refusal is the
*only* way to a lie, no crash, cut flush, missing block or second walk is; that
refusals do lie is finding 5. Alone neither survives a flush that is cut off after
any statement. The other half is about every queue that waits (`QueueOK`): a
coverage statement has the header and the events of its block before it in the
queue, or they are settled (`Covers`); a move of the tail has the coverage of all it
claims before it, or that is settled (`Moves`); and what a worker's own tail claims
is settled or in its queue (`Claims1`). A walk only appends (`WalkExtends`, by
induction over the blocks of the fold), so a queue that was fit stays fit; a flush
turns a prefix into rows or refusals (`DrainedFacts`), so what the rest relied on is
settled now (`RestOK`), for the worker that flushes and, since neither rows nor
refusals are taken back, for all others (`GrownOK`); a crash runs a prefix as a flush
does and throws the rest away, and with it only claims that were not durable. That
an epoch may move the tail to the end of its unbroken run needs that there is one
(`ReachedFacts`).

**Only model-checked.** Liveness (`SlotFreedByBots`, `RoundEnds`, `GameGoesOn`,
`EventuallyTold`) and everything about ENABLED is out of the
prover's reach and stays with TLC, as do the five violations of section 5. The
refinements are proved of `Spec`, without fairness, and so are of safety.

## 5. Findings

1. *The forfeit branch of the relayer is dead in production*
   (`settle_bots_production`). `fetchRoundFromApis` gathers its requests with
   `Promise.allSettled` and throws a plain `Error`, so the
   `DrandRoundUnavailableError` that `settleVault` looks for never arrives. The
   server skips the vault as well when the API does not answer 200. A request
   whose round no API serves stays until a user forfeits it.
   `test/market/relay-drand.test.ts:96` tests the branch with a port that throws
   the error itself.
2. *The daily cap is not a cap* (`settle_budget_cap`). Two requests that read the
   counter before either writes it both settle. The comment on
   `PUBLIC_SETTLE_DAILY_CAP` promises a bound across every caller.
3. *A repair keeps rows that left the chain* (`no_phantom`). `repair-activity`
   re-indexes up to any `toBlock` an admin names, or to `eth_blockNumber` itself
   (`route.ts:93-105`), and appends what it finds there, although the comment on the
   confirmation depth calls it "the one line of defence that matters"
   (`chain-indexer.ts:122-123`). A row of a block that is then reorganized away stays for
   good. The passes of `indexSource` themselves do keep the depth
   (`IndexedRowsConfirmed`).
4. *The record sale is not stored* (`koth_winner`). The indexer appends a sale
   before it offers it, so `offerKingOfTheHillCandidate` seeds its state with that
   very sale, which then does not top itself; nothing is written, neither leader
   nor extension. After the deadline the stored leader wins: nobody, as in
   the run, or a sale whose price a repair found (a re-index offers before it
   repairs, so the ledger does not know that price yet).

5. *A refused statement leaves coverage that is wrong* (`tape_poison`). `flush` drops a
   statement whose error code is outside its list and runs what is behind it
   (`pg-store.ts:112-128`), so a header is lost, to `ECONNRESET` or a full disk as
   well, and the coverage of its block lands. The comments promise "never
   'covered but wrong'" (18-19) and that a connection error requeues the whole
   remainder (108-109).

Remarks that are not findings of a run:

- A transaction that cannot be read makes a re-index call a stored sale a transfer
  (`repairChainEvents` overwrites the kind), although `chain-indexer.ts:417-418`
  says that "an RPC failure must never be able to turn a real sale into a
  transfer". Its price stays, and as a transfer it is no longer a suspect.
- `offerKingOfTheHillCandidate` finalizes in memory only: `next !== state` is false
  then, so the offer path does not close a round (`king-of-the-hill.ts:198-205`).
- A cron tick heals the first few suspect ranges (`refresh-market-data.ts:229`); sales
  that can never be priced keep the later ones waiting. `EventuallyTold` excepts a sale
  that a whole tick's ranges of such sales stand before; without the exception its run fails.
- *Tape*. `load` reads back the newest 10000 headers of all chains together
  (`pg-store.ts:461-463`), so after a restart deeper than that the tail's header is
  not in memory and no epoch links, while the comment above says that a restart
  "resumes instead of re-walking" (438-441); the shard lane keeps to the newest 64
  shards (`main.ts:554`), which `outstandingShards` goes on to call outstanding, as
  the coverage it is given has one run per height.
- `retireShard` is "called ONLY after the coverage run is durable"
  (`claim.ts:127`), but `shardTick` calls it before `flush`, and when one hash of
  the range was found; the shard is planned again only while it is among the newest.
- *Vault*. No run of the pool has `NonReceivers`: that a recipient who rejects ETH
  changes nothing is the EVM's revert, and not what `EthBacked` shows.
- *Bots*. `ReportHonest` is about success reports. An error although the slot was
  settled is possible (a receipt that is lost, and a read that fails after it) and
  does no harm: the next tick finds the slot empty.
- *Lottery*. `PlankLottery.sol` says of the lottery that the next board opens at
  S(P) > 0 after a win. The retention of `PlankCycleLottery` depends on what the
  cycle was funded with: it is zero for a prize that no fresh funding went into,
  so the next board may open at nothing.
- *Lottery*. `hitThreshold` estimates what a round's rake will bring the lottery by the
  rates alone; the router rounds each leg down on the way, so the estimate may exceed
  what arrives by a wei or so.
- The comment on `poolOpen` says that `removeLiquidity` reverts with `PoolNotOpen`
  while the pool is closed. It does revert, with `InsufficientLiquidity`, since
  nobody has LP units then.
- The limiter in front of the settlement route (not modelled) calls itself a sliding
  window (`lib/security.ts:4`); its windows are fixed, from a client's first request,
  so twice the limit may pass around the end of one.

## 6. Plan

In this order; each step brings its mutants and, where it says so, proofs. Runs
are few and long, so new questions go into the runs that exist where their
instances agree.

1. `PlankBank`: sessions; caps over any sequence of grants. To be proved.
2. `ProviderPace`; burn engine and oracle; cross-chain receivers; keeper; the
   watermark of the second King of the Hill; the hose's tip lane and gap worker.
3. The lottery's winner as the holder of the ticket, and its spillover to the game.
4. Proofs: what the liveness properties rest on as step properties (a measure that
   each helpful step lowers and no other raises: the steps a bot's run still has); the
   bank's caps.

## 7. Not modelled

`BLSBN254` and hashing (arithmetic; their meaning is a parameter), the legacy
vaults, the indexed crash game (`PlankScalableCrash`, a candidate that is not
deployed), the lotteries that are not deployed, the bank, the burn engine, the
cross-chain receivers, the casino keeper and the provider pacing (planned above), Seaport and
the order stores around it, the discovery crawlers except for the hose, boards,
rooms and the Charmville services, the client, simulations, migrations,
deployment and assets. `PROJECT.json` gives the reason for each component.

Most of the repository's lines are of this kind: bundled wallet libraries under
`public/`, the editor skills under `.github/`, React pages and components, read
models and page data. They keep no state that a protocol depends on, so the share
of all source lines that the models stand for is small and stays small; what the
models do cover are the contracts, bots and jobs through which state changes.
