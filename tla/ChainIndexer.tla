---------------------------- MODULE ChainIndexer ----------------------------
(***************************************************************************)
(* lib/market/chain-indexer.ts and chain-events.ts: the permanent ledger of *)
(* the collection's transfers, kept by several processes at once (the cron  *)
(* job of scripts/refresh-market-data.ts and the admin routes), which share *)
(* nothing but the database.  Each reads a chain that still reorganizes     *)
(* near its head, over RPC calls that fail, and may die between any two     *)
(* awaits; one step is what happens between two awaits.                     *)
(***************************************************************************)
EXTENDS Integers, FiniteSets

CONSTANTS
    Crons, Admins,              \* passes of the cron job, requests of the admin routes
    Logs,                       \* Transfer logs, by transaction and log index
    IsSale(_),                  \* whether the token was sold, or merely moved
    Price(_),                   \* what a sale cleared for; 0 when nobody can tell, as of
                                \* several tokens for one value, or of a foreign ERC-20
    Sent(_),                    \* the transaction's own value, for its one token
    CHAIN_INDEX_GENESIS_BLOCK,
    CONFIRMATION_DEPTH_BLOCKS,
    chunkBlocks, maxChunks,     \* logScanBudget()
    RepairFroms, RepairTos,     \* BOUND: the blocks that admins name for their repairs
    maxGap, MaxRanges,          \* unpricedSaleBlockRanges, and how many a tick heals
    Turbulent,                  \* the run starts in turbulent times, see faulty
    MaxHead                     \* BOUND: the last block that is mined

ASSUME ChainAssumption ==
    /\ Crons \cap Admins = {}
    /\ CHAIN_INDEX_GENESIS_BLOCK \in Nat \ {0}
    /\ CONFIRMATION_DEPTH_BLOCKS \in Nat
    /\ chunkBlocks \in Nat \ {0} /\ maxChunks \in Nat \ {0}
    /\ maxGap \in Nat /\ MaxRanges \in Nat /\ MaxHead \in Nat
    /\ RepairTos \subseteq Nat /\ Turbulent \in BOOLEAN
    /\ \A l \in Logs : IsSale(l) \in BOOLEAN /\ Price(l) \in Nat /\ Sent(l) \in Nat

Workers == Crons \cup Admins

VARIABLES
    head,     \* the chain's latest block
    mined,    \* each log's block, 0 while it is in none
    ledger,   \* plank_chain_events
    cursor,   \* plank_chain_index_cursor, genesis - 1 while there is no row
    worker,   \* each process: where it is and what it holds in memory
    faulty    \* RPCs and queries fail, processes die, until times are calm

chainVars == <<head, mined, ledger, cursor, worker, faulty>>

\* A row's derived columns, its block, and no price (NULL) as 0.
Row(kind, price, block) == [kind |-> kind, price |-> price, block |-> block]
NoRow == Row("none", 0, 0)

Stored == {l \in Logs : ledger[l] # NoRow}

Idle == [pc |-> "idle", mode |-> "none", head |-> 0, start |-> 0, reached |-> 0,
         target |-> 0, rows |-> [l \in {} |-> NoRow], offers |-> {}, ranges |-> {}]

At(p, pc) == worker[p].pc = pc
Becomes(p, w) == worker' = [worker EXCEPT ![p] = w]

MinOf(a, b) == IF a < b THEN a ELSE b
MaxOf(a, b) == IF a < b THEN b ELSE a

\* The cron job heals after its pass, backfill-events is done.
PassEnds(p) == Becomes(p, IF p \in Crons THEN [Idle EXCEPT !.pc = "ranges"] ELSE Idle)

-----------------------------------------------------------------------------
(* The chain                                                               *)

\* Bug: rows are written right up to the head.
confirmedHeadUnconfirmed(h) == h

confirmedHead(h) == h - CONFIRMATION_DEPTH_BLOCKS

MineBlock ==
    /\ head < MaxHead
    /\ head' = head + 1
    /\ \E included \in SUBSET {l \in Logs : mined[l] = 0} :
          mined' = [l \in Logs |-> IF l \in included THEN head + 1 ELSE mined[l]]
    /\ UNCHANGED <<ledger, cursor, worker, faulty>>

\* A reorganization replaces blocks that are not deep enough yet; a log of
\* theirs comes back in another block, or later, or never.
Reorganize ==
    \E first \in head - CONFIRMATION_DEPTH_BLOCKS + 1 .. head :
        LET dropped == {l \in Logs : mined[l] >= first /\ first > 0} IN
        /\ dropped # {}
        /\ \E again \in [dropped -> {0} \cup first..head] :
              mined' = [l \in Logs |-> IF l \in dropped THEN again[l] ELSE mined[l]]
        /\ UNCHANGED <<head, ledger, cursor, worker, faulty>>

TimesCalm ==
    /\ faulty
    /\ faulty' = FALSE
    /\ UNCHANGED <<head, mined, ledger, cursor, worker>>

\* eth_getLogs over a window.
LogsIn(from, to) == {l \in Logs : mined[l] \in from..to}

-----------------------------------------------------------------------------
(* From logs to rows                                                       *)

\* What was really sold, when all of the enrichment could be read.
TrueRow(l) ==
    IF IsSale(l) THEN Row("sale", Price(l), mined[l]) ELSE Row("transfer", 0, mined[l])

\* classifyTransfer and nativeFillPriceWei without the receipt: whatever another
\* contract executed is a sale, at the value that was sent, if any.
RowWithoutReceipt(l) == Row("sale", Sent(l), mined[l])

\* Without the transaction itself there is no executing contract: a transfer.
RowWithoutTx(l) == Row("transfer", 0, mined[l])

\* buildNftRows: what each log may be read as.
Readings(l) ==
    {TrueRow(l)} \cup
        (IF faulty THEN {RowWithoutReceipt(l), RowWithoutTx(l)} ELSE {})

\* Reading a window adds its rows to those of the windows before it.
RowsWith(rows, window) ==
    {[l \in DOMAIN rows \cup window |-> IF l \in window THEN new[l] ELSE rows[l]] :
        new \in {f \in [window -> UNION {Readings(l) : l \in window}] :
                    \A l \in window : f[l] \in Readings(l)}}

\* appendChainEvents: ON CONFLICT DO NOTHING.
Appended(rows) ==
    [l \in Logs |-> IF ledger[l] = NoRow /\ l \in DOMAIN rows THEN rows[l] ELSE ledger[l]]

\* Bug: a re-index replaces a price by what it read itself.
RepairedAnew(rows) ==
    [l \in Logs |-> IF l \in DOMAIN rows /\ ledger[l] # NoRow
                    THEN Row(rows[l].kind, rows[l].price, ledger[l].block)
                    ELSE ledger[l]]

\* Bug: the derived columns of a stored row are permanent, as they once were.
RepairedNever(rows) == ledger

\* repairChainEvents: the kind is overwritten, the price only filled in.
Repaired(rows) ==
    [l \in Logs |->
        IF l \in DOMAIN rows /\ ledger[l] # NoRow
        THEN Row(rows[l].kind, IF ledger[l].price = 0 THEN rows[l].price ELSE ledger[l].price,
                 ledger[l].block)
        ELSE ledger[l]]

\* kothCandidateFromSaleRow: priced sales are offered to King of the Hill.
Candidates(rows) == {l \in DOMAIN rows : rows[l].kind = "sale" /\ rows[l].price > 0}

\* unpricedSaleBlockRanges: blocks of unpriced sales, coalesced.
Suspects == {ledger[l].block : l \in {k \in Stored : ledger[k].kind = "sale"
                                                     /\ ledger[k].price = 0}}

Breaks(a, b) == a < b /\ b - a > maxGap /\ \A c \in Suspects : ~(a < c /\ c < b)

SuspectRanges ==
    {r \in [from : Suspects, to : Suspects] :
        /\ r.from <= r.to
        /\ \A a, b \in r.from..r.to : ~Breaks(a, b)
        /\ (\E a \in Suspects : a < r.from) => \E a \in Suspects : Breaks(a, r.from)
        /\ (\E b \in Suspects : b > r.to) => \E b \in Suspects : Breaks(r.to, b)}

\* A tick heals the earliest few of them.
RangesDue ==
    {r \in SuspectRanges :
        Cardinality({s \in SuspectRanges : s.from < r.from}) < MaxRanges}

-----------------------------------------------------------------------------
(* indexSource: one pass forward from the cursor                           *)

\* runChainIndexer reads the head before anything else.
ReadHead(p) ==
    /\ At(p, "idle")
    /\ Becomes(p, [Idle EXCEPT !.pc = "plan", !.mode = "index", !.head = head])
    /\ UNCHANGED <<head, mined, ledger, cursor, faulty>>

\* planScan: up to maxChunks windows from the cursor to the confirmed head.
PlanScan(p) ==
    LET w == worker[p]
        safeHead == confirmedHead(w.head)
    IN
    /\ At(p, "plan")
    /\ IF safeHead <= cursor
       THEN PassEnds(p)
       ELSE Becomes(p, [Idle EXCEPT !.pc = "window", !.mode = "index",
                                    !.start = cursor, !.reached = cursor,
                                    !.target = MinOf(safeHead, cursor + maxChunks * chunkBlocks)])
    /\ UNCHANGED <<head, mined, ledger, cursor, faulty>>

\* Bug: the cursor moves to the end of the plan although a window failed.
ReachedAsPlanned(w) == w.target

Reached(w) == w.reached

\* writeChainCursor, last of all and only when a window succeeded: GREATEST.
WriteCursor(p) ==
    LET w == worker[p] IN
    /\ At(p, "store")
    /\ cursor' = IF Reached(w) > w.start THEN MaxOf(cursor, Reached(w)) ELSE cursor
    /\ PassEnds(p)
    /\ UNCHANGED <<head, mined, ledger, faulty>>

-----------------------------------------------------------------------------
(* reindexNftRange: range after range, window after window                 *)

HealNext(p, w) ==
    \/ /\ w.reached < w.target
       /\ Becomes(p, [w EXCEPT !.pc = "window", !.rows = Idle.rows])
    \/ /\ w.reached >= w.target /\ w.ranges = {}
       /\ Becomes(p, Idle)
    \/ /\ w.reached >= w.target
       /\ \E r \in w.ranges :
             /\ \A s \in w.ranges : r.from <= s.from
             /\ Becomes(p, [Idle EXCEPT !.pc = "window", !.mode = "heal",
                                        !.reached = r.from - 1, !.target = r.to,
                                        !.ranges = w.ranges \ {r}])

\* The cron job heals what is suspect by now.
ReadRanges(p) ==
    /\ At(p, "ranges")
    /\ HealNext(p, [Idle EXCEPT !.ranges = RangesDue])
    /\ UNCHANGED <<head, mined, ledger, cursor, faulty>>

\* repair-activity and reindex-chain-events: a range that an admin names.  It ends
\* at the head itself, or at a toBlock that nobody checks.
RepairRange(p) ==
    /\ At(p, "idle")
    /\ \E to \in {head} \cup RepairTos :
       \E from \in RepairFroms \cap 1..to :
          HealNext(p, [Idle EXCEPT !.ranges = {[from |-> from, to |-> to]}])
    /\ UNCHANGED <<head, mined, ledger, cursor, faulty>>

\* repairChainEvents, the last call for a window.
Repair(p) ==
    LET w == worker[p] IN
    /\ At(p, "repair")
    /\ ledger' = Repaired(w.rows)
    /\ HealNext(p, w)
    /\ UNCHANGED <<head, mined, cursor, faulty>>

-----------------------------------------------------------------------------
(* Common to both                                                          *)

\* One window.  indexSource reads all of its windows before it writes.
FetchWindow(p) ==
    LET w == worker[p]
        to == MinOf(w.target, w.reached + chunkBlocks)
    IN
    /\ At(p, "window")
    /\ \E rows \in RowsWith(w.rows, LogsIn(w.reached + 1, to)) :
          Becomes(p, [w EXCEPT !.rows = rows, !.reached = to,
                               !.pc = IF w.mode = "index" /\ to < w.target
                                      THEN "window" ELSE "append"])
    /\ UNCHANGED <<head, mined, ledger, cursor, faulty>>

\* A window that throws ends the plan, or a re-index as a whole.
WindowFails(p) ==
    LET w == worker[p] IN
    /\ faulty
    /\ At(p, "window")
    /\ Becomes(p, IF w.mode = "index" THEN [w EXCEPT !.pc = "append"] ELSE Idle)
    /\ UNCHANGED <<head, mined, ledger, cursor, faulty>>

\* offerSaleRowsToKingOfTheHill, sale by sale in the order of the rows, each in
\* a transaction of its own whose failure is logged and no more.
NextOffer(w) == CHOOSE l \in w.offers : \A k \in w.offers : w.rows[l].block <= w.rows[k].block

Offering(w) ==
    IF w.offers # {} THEN [w EXCEPT !.pc = "offer"]
    ELSE IF w.mode = "index" THEN [w EXCEPT !.pc = "store", !.rows = Idle.rows]
    ELSE [w EXCEPT !.pc = "repair"]

Append(p) ==
    LET w == worker[p] IN
    /\ At(p, "append")
    /\ ledger' = Appended(w.rows)
    /\ Becomes(p, Offering([w EXCEPT !.offers = Candidates(w.rows)]))
    /\ UNCHANGED <<head, mined, cursor, faulty>>

Offer(p) ==
    LET w == worker[p] IN
    /\ At(p, "offer")
    /\ Becomes(p, Offering([w EXCEPT !.offers = @ \ {NextOffer(w)}]))
    /\ UNCHANGED <<head, mined, ledger, cursor, faulty>>

\* The batches of rows that were written before one failed.
Batches(rows) ==
    {[l \in written |-> rows[l]] : written \in
        {d \in SUBSET DOMAIN rows :
            \A l \in d, k \in DOMAIN rows : rows[k].block < rows[l].block => k \in d}}

\* A query throws: a re-index ends as a whole, while the cron job goes on from a
\* source that failed to the repairs.
QueryFails(p) ==
    LET w == worker[p] IN
    /\ faulty
    /\ \/ /\ w.pc \in {"plan", "store"}
          /\ UNCHANGED ledger
       \/ /\ At(p, "append")
          /\ \E rows \in Batches(w.rows) : ledger' = Appended(rows)
       \/ /\ At(p, "repair")
          /\ \E rows \in Batches(w.rows) : ledger' = Repaired(rows)
    /\ IF w.mode = "index" THEN PassEnds(p) ELSE Becomes(p, Idle)
    /\ UNCHANGED <<head, mined, cursor, faulty>>

\* A call that throws anywhere else, a time limit, a killed process.
Dies(p) ==
    /\ faulty
    /\ ~At(p, "idle")
    /\ Becomes(p, Idle)
    /\ UNCHANGED <<head, mined, ledger, cursor, faulty>>

-----------------------------------------------------------------------------
ChainInit ==
    /\ head = 0
    /\ mined = [l \in Logs |-> 0]
    /\ ledger = [l \in Logs |-> NoRow]
    /\ cursor = CHAIN_INDEX_GENESIS_BLOCK - 1
    /\ worker = [p \in Workers |-> Idle]
    /\ faulty = Turbulent

Chain == MineBlock \/ Reorganize \/ TimesCalm

\* A pass, its offers apart.
Pass(p) ==
    \/ ReadHead(p) \/ PlanScan(p) \/ FetchWindow(p) \/ Append(p)
    \/ WriteCursor(p) \/ ReadRanges(p) \/ Repair(p)

ChainNext ==
    \/ Chain
    \/ \E p \in Workers :
          Pass(p) \/ Offer(p) \/ WindowFails(p) \/ QueryFails(p) \/ Dies(p)
    \/ \E p \in Admins : RepairRange(p)

ChainSpec == ChainInit /\ [][ChainNext]_chainVars

\* The cron job starts again and again and a pass goes on; failures stop some
\* day.  No admin is obliged to do anything, nor the chain to go on.
FairChainSpec ==
    /\ ChainSpec
    /\ WF_chainVars(TimesCalm)
    /\ \A p \in Crons : WF_chainVars(Pass(p) \/ Offer(p))

-----------------------------------------------------------------------------
(* Correctness                                                             *)

\* No log at or below the cursor is missing from the ledger: no later pass
\* would read its block again ("a gap in an append-only ledger is invisible and
\* permanent"), whatever failed, died or ran at the same time.
NoGap == \A l \in Logs : mined[l] \in CHAIN_INDEX_GENESIS_BLOCK..cursor => l \in Stored

\* What a pass of indexSource adds to the ledger is still on the chain, in the
\* block where it was read some time before, and too deep to be dropped later.
IndexedRowsConfirmed ==
    [][\A p \in Workers :
          worker[p].mode = "index" /\ worker'[p] # worker[p] =>
              \A l \in Stored' \ Stored : /\ ledger'[l].block = mined[l]
                                         /\ mined[l] <= confirmedHead(head)]_chainVars

\* "This is the one line of defence that matters: a row written for a block that
\* later reorgs out would be wrong forever": every row is of a log that is on the
\* chain, in the block the row says.  A repair up to the head breaks it.
NoPhantom == \A l \in Stored : mined[l] = ledger[l].block

\* The ledger only grows: the cursor never moves back, no row is lost or moved to
\* another block, and a price that was stored once is never changed or nulled,
\* whichever pass read it and whichever repairs it later.
LedgerOnlyGrows ==
    [][/\ cursor' >= cursor
       /\ \A l \in Stored :
             /\ ledger'[l].block = ledger[l].block
             /\ ledger[l].price # 0 => ledger'[l].price = ledger[l].price]_chainVars

\* An unpriced sale, and whether reading it again would tell what it was.
Untold(l) == l \in Stored /\ ledger[l].kind = "sale" /\ ledger[l].price = 0

Tellable(l) ==
    /\ mined[l] = ledger[l].block /\ mined[l] <= confirmedHead(head)
    /\ IsSale(l) => Price(l) > 0

\* The ranges before it that every tick heals first, and in vain.
HopelessBefore(l) ==
    {r \in SuspectRanges :
        /\ r.to < ledger[l].block
        /\ \A k \in Logs : Untold(k) /\ ledger[k].block \in r.from..r.to => ~Tellable(k)}

\* A confirmed log is in the ledger some day, and a sale whose receipt could not
\* be read does not stay an unpriced sale: the repairs reach it, unless a whole
\* tick of ranges before it is taken by sales that stay as they are.
EventuallyTold ==
    \A l \in Logs :
        /\ mined[l] \in CHAIN_INDEX_GENESIS_BLOCK..confirmedHead(head) ~> l \in Stored
        /\ <>[](Untold(l) /\ Tellable(l) => Cardinality(HopelessBefore(l)) >= MaxRanges)

=============================================================================
