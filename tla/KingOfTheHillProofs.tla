---------------------------- MODULE KingOfTheHillProofs -----------------------
(***************************************************************************)
(* What the ledger of the indexer keeps through failures, deaths and       *)
(* concurrent passes, and what the rules of a round over it guarantee,     *)
(* whatever order the calls of the workers and of the readers reach the    *)
(* row in, and however old the time is that each of them brings along.     *)
(* The indexer's invariant follows each process between its awaits: what   *)
(* it holds in memory, and how far it has really read.                     *)
(***************************************************************************)
EXTENDS KingOfTheHill, TLAPS

Phases == {"idle", "plan", "window", "append", "offer", "store", "ranges", "repair"}

RowType == [kind : {"sale", "transfer"}, price : Nat, block : Nat \ {0}]
RowSets == UNION {[d -> RowType] : d \in SUBSET Logs}
RangeType == [from : Nat \ {0}, to : Nat]

WorkerType ==
    [pc : Phases, mode : {"none", "index", "heal"}, head : Nat, start : Nat,
     reached : Nat, target : Nat, rows : RowSets, offers : SUBSET Logs,
     ranges : SUBSET RangeType]

Indexes(w) == w.mode = "index" /\ w.pc \in {"window", "append", "offer", "store"}

\* What a process holds in memory was true, and stays true while it waits: the
\* blocks it reads are confirmed, and whatever is mined between the cursor it
\* started from and the block it has reached is among its rows, or stored.
WorkerOK(w, h, m, c, stored) ==
    /\ w \in WorkerType
    /\ w.head <= h
    /\ w.pc = "repair" => w.mode # "index"
    /\ w.pc = "store" => w.mode = "index"
    /\ Indexes(w) =>
          /\ w.target <= confirmedHead(h)
          /\ \A l \in DOMAIN w.rows : /\ w.rows[l].block = m[l]
                                   /\ m[l] <= confirmedHead(h)
    /\ Indexes(w) =>
          /\ CHAIN_INDEX_GENESIS_BLOCK - 1 <= w.start /\ w.start <= c
          /\ w.start <= w.reached /\ w.reached <= w.target
          /\ \A l \in Logs :
                m[l] \in w.start + 1..w.reached =>
                    IF w.pc \in {"window", "append"} THEN l \in DOMAIN w.rows
                                                     ELSE l \in stored

ChainInv ==
    /\ head \in Nat /\ mined \in [Logs -> Nat]
    /\ cursor \in Nat /\ cursor >= CHAIN_INDEX_GENESIS_BLOCK - 1
    /\ cursor = CHAIN_INDEX_GENESIS_BLOCK - 1 \/ cursor <= confirmedHead(head)
    /\ ledger \in [Logs -> RowType \cup {NoRow}]
    /\ worker \in [Workers -> WorkerType]
    /\ \A p \in Workers : WorkerOK(worker[p], head, mined, cursor, Stored)
    /\ NoGap

-----------------------------------------------------------------------------
(* Rows                                                                    *)

LEMMA NoRowIsNone == NoRow \notin RowType
  BY DEF NoRow, Row, RowType

LEMMA RowSetFacts ==
    ASSUME NEW rows
    PROVE  rows \in RowSets <=> /\ rows = [l \in DOMAIN rows |-> rows[l]]
                                /\ DOMAIN rows \subseteq Logs
                                /\ \A l \in DOMAIN rows : rows[l] \in RowType
  BY DEF RowSets

LEMMA IdleOK == Idle \in WorkerType /\ DOMAIN Idle.rows = {}
<1>1. [l \in {} |-> NoRow] \in RowSets
  BY RowSetFacts
<1> QED
  BY <1>1 DEF Idle, WorkerType, Phases

\* Whatever a log in a block is read as is a row of that block.
LEMMA ReadingRows ==
    ASSUME ChainInv, NEW l \in Logs, mined[l] # 0, NEW row \in Readings(l)
    PROVE  row \in RowType /\ row.block = mined[l]
<1>1. mined[l] \in Nat \ {0}
  BY DEF ChainInv
<1>2. Price(l) \in Nat /\ Sent(l) \in Nat
  BY ChainAssumption
<1>3. row \in {TrueRow(l), RowWithoutReceipt(l), RowWithoutTx(l)}
  BY DEF Readings
<1> QED
  BY <1>1, <1>2, <1>3 DEF TrueRow, RowWithoutReceipt, RowWithoutTx, Row, RowType

LEMMA WindowRows ==
    ASSUME ChainInv, NEW old \in RowSets, NEW window, window \subseteq Logs,
           \A l \in window : mined[l] # 0, NEW rows \in RowsWith(old, window)
    PROVE  /\ rows \in RowSets
           /\ DOMAIN rows = DOMAIN old \cup window
           /\ \A l \in window : rows[l].block = mined[l]
           /\ \A l \in DOMAIN old \ window : rows[l] = old[l]
<1>1. PICK new \in [window -> UNION {Readings(l) : l \in window}] :
         /\ \A l \in window : new[l] \in Readings(l)
         /\ rows = [l \in DOMAIN old \cup window |-> IF l \in window THEN new[l] ELSE old[l]]
  BY DEF RowsWith
<1>2. \A l \in window : new[l] \in RowType /\ new[l].block = mined[l]
  BY <1>1, ReadingRows
<1>3. DOMAIN old \subseteq Logs /\ \A l \in DOMAIN old : old[l] \in RowType
  BY RowSetFacts
<1>4. DOMAIN rows = DOMAIN old \cup window
  BY <1>1
<1>5. \A l \in DOMAIN rows : rows[l] = IF l \in window THEN new[l] ELSE old[l]
  BY <1>1
<1>6. \A l \in DOMAIN rows : rows[l] \in RowType
  BY <1>2, <1>3, <1>4, <1>5
<1>7. rows \in RowSets
  BY <1>1, <1>3, <1>4, <1>6, RowSetFacts
<1> QED
  BY <1>2, <1>4, <1>5, <1>7

-----------------------------------------------------------------------------
(* The chain moves on                                                      *)

\* Nothing at or below the confirmed head moves, nor comes or goes.
Deeper ==
    /\ head' \in Nat /\ head' >= head
    /\ mined' \in [Logs -> Nat]
    /\ \A l \in Logs :
          mined[l] \in 1..confirmedHead(head) \/ mined'[l] \in 1..confirmedHead(head) =>
              mined'[l] = mined[l]

LEMMA ChainGetsDeeper == ASSUME ChainInv, Chain PROVE Deeper
<1>1. /\ head \in Nat /\ mined \in [Logs -> Nat] /\ CONFIRMATION_DEPTH_BLOCKS \in Nat
  BY ChainAssumption DEF ChainInv
<1>2. CASE MineBlock
  BY <1>1, <1>2 DEF MineBlock, Deeper, confirmedHead
<1>3. CASE Reorganize
  <2>1. PICK first \in head - CONFIRMATION_DEPTH_BLOCKS + 1 .. head :
           LET dropped == {l \in Logs : mined[l] >= first /\ first > 0} IN
           \E again \in [dropped -> {0} \cup first..head] :
              mined' = [l \in Logs |-> IF l \in dropped THEN again[l] ELSE mined[l]]
    BY <1>3 DEF Reorganize
  <2> DEFINE dropped == {l \in Logs : mined[l] >= first /\ first > 0}
  <2>2. PICK again \in [dropped -> {0} \cup first..head] :
           mined' = [l \in Logs |-> IF l \in dropped THEN again[l] ELSE mined[l]]
    BY <2>1
  <2>3. head' = head
    BY <1>3 DEF Reorganize
  <2>4. \A l \in Logs : IF l \in dropped THEN /\ mined[l] >= first /\ first > 0
                                              /\ mined'[l] \in {0} \cup first..head
                                         ELSE mined'[l] = mined[l]
    BY <2>2
  <2>5. \A l \in Logs : mined'[l] \in Nat
    BY <1>1, <2>1, <2>4
  <2>6. mined' \in [Logs -> Nat]
    BY <2>2, <2>5
  <2> QED
    BY <1>1, <2>1, <2>3, <2>4, <2>6 DEF Deeper, confirmedHead
<1>4. CASE TimesCalm
  BY <1>1, <1>4 DEF TimesCalm, Deeper
<1> QED
  BY <1>2, <1>3, <1>4 DEF Chain

\* A process that waits keeps what it holds, while others store and advance.
LEMMA WaitingKeeps ==
    ASSUME ChainInv, Deeper, cursor' \in Nat, cursor' >= cursor, Stored \subseteq Stored',
           NEW w, WorkerOK(w, head, mined, cursor, Stored)
    PROVE  WorkerOK(w, head', mined', cursor', Stored')
<1>1. /\ head \in Nat /\ head' \in Nat /\ head' >= head
      /\ cursor \in Nat /\ CONFIRMATION_DEPTH_BLOCKS \in Nat
      /\ CHAIN_INDEX_GENESIS_BLOCK \in Nat \ {0}
  BY ChainAssumption DEF ChainInv, Deeper
<1>2. /\ w \in WorkerType /\ w.head \in Nat /\ w.start \in Nat /\ w.reached \in Nat
      /\ w.target \in Nat /\ w.ranges \subseteq RangeType /\ w.rows \in RowSets
  BY DEF WorkerOK, WorkerType
<1>3. /\ confirmedHead(head) <= confirmedHead(head')
      /\ confirmedHead(head) \in Int /\ confirmedHead(head') \in Int
  <2>1. \A h, k \in Nat : h <= k => /\ confirmedHead(h) <= confirmedHead(k)
                                   /\ confirmedHead(h) \in Int /\ confirmedHead(k) \in Int
    BY <1>1 DEF confirmedHead
  <2> QED
    BY <1>1, <2>1
<1>4. \A l \in Logs : /\ mined[l] \in Nat /\ mined'[l] \in Nat
                      /\ mined[l] # 0 /\ mined[l] <= confirmedHead(head) => mined'[l] = mined[l]
                      /\ mined'[l] # 0 /\ mined'[l] <= confirmedHead(head) => mined'[l] = mined[l]
  BY <1>1, <1>3 DEF Deeper, ChainInv
<1>5. w.head <= head'
  BY <1>1, <1>2 DEF WorkerOK
<1>6. Indexes(w) => w.target <= confirmedHead(head')
  BY <1>2, <1>3 DEF WorkerOK
<1>8. Indexes(w) =>
          \A l \in DOMAIN w.rows : w.rows[l].block = mined'[l] /\ mined'[l] <= confirmedHead(head')
  <2> SUFFICES ASSUME Indexes(w), NEW l \in DOMAIN w.rows
               PROVE  w.rows[l].block = mined'[l] /\ mined'[l] <= confirmedHead(head')
    OBVIOUS
  <2>1. l \in Logs /\ w.rows[l].block \in Nat \ {0}
    BY <1>2, RowSetFacts DEF RowType
  <2>2. w.rows[l].block = mined[l] /\ mined[l] <= confirmedHead(head)
    BY DEF WorkerOK
  <2> QED
    BY <1>3, <1>4, <2>1, <2>2
<1>9. Indexes(w) =>
          /\ CHAIN_INDEX_GENESIS_BLOCK - 1 <= w.start /\ w.start <= cursor'
          /\ w.start <= w.reached /\ w.reached <= w.target
          /\ \A l \in Logs :
                mined'[l] \in w.start + 1..w.reached =>
                    IF w.pc \in {"window", "append"} THEN l \in DOMAIN w.rows
                                                     ELSE l \in Stored'
  <2> HAVE Indexes(w)
  <2>1. /\ CHAIN_INDEX_GENESIS_BLOCK - 1 <= w.start /\ w.start <= cursor
        /\ w.start <= w.reached /\ w.reached <= w.target
        /\ \A l \in Logs : mined[l] \in w.start + 1..w.reached =>
              IF w.pc \in {"window", "append"} THEN l \in DOMAIN w.rows ELSE l \in Stored
    BY DEF WorkerOK
  <2>2. w.target <= confirmedHead(head)
    BY DEF WorkerOK
  <2>3. \A l \in Logs : mined'[l] \in w.start + 1..w.reached => mined'[l] = mined[l]
    BY <1>2, <1>3, <1>4, <2>1, <2>2
  <2> QED
    BY <1>1, <1>2, <2>1, <2>3
<1> QED
  BY <1>2, <1>5, <1>6, <1>8, <1>9 DEF WorkerOK

-----------------------------------------------------------------------------
(* A process takes a step                                                  *)

Types ==
    /\ head \in Nat /\ cursor \in Nat
    /\ mined \in [Logs -> Nat] /\ worker \in [Workers -> WorkerType]
    /\ CONFIRMATION_DEPTH_BLOCKS \in Nat /\ confirmedHead(head) \in Int
    /\ CHAIN_INDEX_GENESIS_BLOCK \in Nat \ {0}

LEMMA TypesHold == ASSUME ChainInv PROVE Types
  BY ChainAssumption DEF ChainInv, Types, confirmedHead

OnlyMoves(p) == worker' = [worker EXCEPT ![p] = worker'[p]]

\* What every step of a process p owes: the chain stands still, the ledger and
\* the cursor are as they should be, and p holds what is true.
ProcessStep(p) ==
    /\ head' = head /\ mined' = mined
    /\ cursor' = cursor \/ (cursor' \in Nat /\ cursor' >= cursor
                            /\ cursor' <= confirmedHead(head))
    /\ ledger' \in [Logs -> RowType \cup {NoRow}] /\ Stored \subseteq Stored'
    /\ OnlyMoves(p) /\ WorkerOK(worker'[p], head, mined, cursor', Stored')
    /\ \A l \in Logs : mined[l] \in CHAIN_INDEX_GENESIS_BLOCK..cursor' => l \in Stored'

LEMMA ProcessKeepsInv ==
    ASSUME ChainInv, NEW p \in Workers, ProcessStep(p)
    PROVE  ChainInv'
<1> USE DEF ProcessStep
<1>1. Types
  BY TypesHold
<1>2. cursor' \in Nat /\ cursor' >= cursor
  BY <1>1 DEF Types
<1>3. Deeper
  BY <1>1 DEF Deeper, Types
<1>4. \A q \in Workers : WorkerOK(worker[q], head, mined, cursor, Stored)
  BY DEF ChainInv
<1>5. \A q \in Workers : WorkerOK(worker'[q], head', mined', cursor', Stored')
  <2> TAKE q \in Workers
  <2>1. CASE q = p
    BY <2>1
  <2>2. CASE q # p
    <3>1. worker'[q] = worker[q]
      BY <1>1, <2>2 DEF Types, OnlyMoves
    <3>2. WorkerOK(worker[q], head', mined', cursor', Stored')
      BY <1>2, <1>3, <1>4, WaitingKeeps
    <3> QED
      BY <3>1, <3>2
  <2> QED
    BY <2>1, <2>2
<1>6. worker' \in [Workers -> WorkerType]
  <2>1. worker'[p] \in WorkerType
    BY DEF WorkerOK
  <2> QED
    BY <1>1, <2>1 DEF Types, OnlyMoves
<1>7. NoGap'
  BY DEF NoGap
<1>8. cursor' >= CHAIN_INDEX_GENESIS_BLOCK - 1
      /\ (cursor' = CHAIN_INDEX_GENESIS_BLOCK - 1 \/ cursor' <= confirmedHead(head'))
  BY <1>1, <1>2 DEF ChainInv, Types
<1> QED
  BY <1>1, <1>2, <1>5, <1>6, <1>7, <1>8 DEF ChainInv, Types

\* Most steps leave the ledger and the cursor alone.
LEMMA MemoryStep ==
    ASSUME ChainInv, NEW p \in Workers, UNCHANGED <<head, mined, ledger, cursor>>,
           OnlyMoves(p),
           WorkerOK(worker'[p], head, mined, cursor, Stored)
    PROVE  ChainInv'
<1>1. Stored' = Stored
  BY DEF Stored
<1>2. \A l \in Logs : mined[l] \in CHAIN_INDEX_GENESIS_BLOCK..cursor => l \in Stored
  BY DEF ChainInv, NoGap
<1>4. ledger \in [Logs -> RowType \cup {NoRow}]
  BY DEF ChainInv
<1>5. head' = head /\ mined' = mined /\ ledger' = ledger /\ cursor' = cursor
  OBVIOUS
<1>6. /\ ledger' \in [Logs -> RowType \cup {NoRow}] /\ Stored \subseteq Stored'
      /\ WorkerOK(worker'[p], head, mined, cursor', Stored')
  BY <1>1, <1>4, <1>5
<1>7. \A l \in Logs : mined[l] \in CHAIN_INDEX_GENESIS_BLOCK..cursor' => l \in Stored'
  BY <1>1, <1>2, <1>5
<1>8. ProcessStep(p)
  BY <1>5, <1>6, <1>7 DEF ProcessStep
<1> QED
  BY <1>8, ProcessKeepsInv

LEMMA Became ==
    ASSUME ChainInv, NEW p \in Workers, NEW w, Becomes(p, w)
    PROVE  OnlyMoves(p) /\ worker'[p] = w
  BY DEF ChainInv, Becomes, OnlyMoves

LEMMA Own ==
    ASSUME ChainInv, NEW p \in Workers
    PROVE  WorkerOK(worker[p], head, mined, cursor, Stored)
  BY DEF ChainInv

LEMMA IdleIsOK ==
    ASSUME ChainInv, NEW c, NEW stored
    PROVE  /\ WorkerOK(Idle, head, mined, c, stored)
           /\ WorkerOK([Idle EXCEPT !.pc = "ranges"], head, mined, c, stored)
<1> DEFINE asks == [Idle EXCEPT !.pc = "ranges"]
<1>1. Idle \in WorkerType /\ DOMAIN Idle.rows = {}
  BY IdleOK
<1>2. /\ Idle.pc = "idle" /\ Idle.mode = "none" /\ Idle.head = 0 /\ Idle.ranges = {}
  BY DEF Idle
<1>3. /\ asks.pc = "ranges" /\ asks.mode = "none" /\ asks.head = 0 /\ asks.ranges = {}
      /\ asks.rows = Idle.rows /\ asks \in WorkerType
  BY <1>1 DEF Idle, WorkerType, Phases
<1>4. Types
  BY TypesHold
<1> HIDE DEF asks
<1>5. WorkerOK(Idle, head, mined, c, stored)
  BY <1>1, <1>2, <1>4 DEF WorkerOK, Indexes, Types
<1>6. WorkerOK(asks, head, mined, c, stored)
  BY <1>1, <1>3, <1>4 DEF WorkerOK, Indexes, Types
<1> QED
  BY <1>5, <1>6 DEF asks

LEMMA PassEndsOK ==
    ASSUME ChainInv, NEW p \in Workers, PassEnds(p)
    PROVE  /\ OnlyMoves(p)
           /\ \A c, stored : WorkerOK(worker'[p], head, mined, c, stored)
<1>1. worker'[p] = Idle \/ worker'[p] = [Idle EXCEPT !.pc = "ranges"]
  BY Became DEF PassEnds
<1>2. OnlyMoves(p)
  BY Became DEF PassEnds
<1> QED
  BY <1>1, <1>2, IdleIsOK

LEMMA StaysIdle ==
    ASSUME ChainInv, NEW p \in Workers, Becomes(p, Idle),
           UNCHANGED <<head, mined, ledger, cursor>>
    PROVE  ChainInv'
  BY Became, IdleIsOK, MemoryStep

LEMMA ReadHeadKeeps == ASSUME ChainInv, NEW p \in Workers, ReadHead(p) PROVE ChainInv'
<1> DEFINE w == [Idle EXCEPT !.pc = "plan", !.mode = "index", !.head = head]
<1>1. worker'[p] = w /\ OnlyMoves(p)
  BY Became DEF ReadHead
<1>2. Types
  BY TypesHold
<1>3. /\ w.pc = "plan" /\ w.head = head /\ w.ranges = {} /\ DOMAIN w.rows = {}
      /\ w \in WorkerType
  BY <1>2, IdleOK DEF Idle, WorkerType, Phases, Types
<1> HIDE DEF w
<1>4. WorkerOK(w, head, mined, cursor, Stored)
  BY <1>2, <1>3 DEF WorkerOK, Indexes, Types
<1> QED
  BY <1>1, <1>4, MemoryStep DEF ReadHead

LEMMA PlanScanKeeps == ASSUME ChainInv, NEW p \in Workers, PlanScan(p) PROVE ChainInv'
<1> DEFINE safeHead == confirmedHead(worker[p].head)
           target == MinOf(safeHead, cursor + maxChunks * chunkBlocks)
           w == [Idle EXCEPT !.pc = "window", !.mode = "index", !.start = cursor,
                             !.reached = cursor, !.target = target]
<1>1. Types /\ WorkerOK(worker[p], head, mined, cursor, Stored)
  BY TypesHold, Own
<1>2. CASE safeHead <= cursor
  <2>1. PassEnds(p) /\ UNCHANGED <<head, mined, ledger, cursor>>
    BY <1>2 DEF PlanScan
  <2>2. /\ OnlyMoves(p)
        /\ WorkerOK(worker'[p], head, mined, cursor, Stored)
    BY <2>1, PassEndsOK
  <2> QED
    BY <2>1, <2>2, MemoryStep
<1>3. CASE ~(safeHead <= cursor)
  <2>1. worker'[p] = w /\ OnlyMoves(p)
    BY <1>3, Became DEF PlanScan
  <2>2. worker[p].head \in Nat /\ worker[p].head <= head
    BY <1>1 DEF WorkerOK, WorkerType
  <2>3. safeHead <= confirmedHead(head) /\ safeHead \in Int
    BY <1>1, <2>2 DEF Types, confirmedHead
  <2>4. maxChunks * chunkBlocks \in Nat /\ maxChunks * chunkBlocks >= 0
    BY ChainAssumption
  <2> HIDE DEF safeHead
  <2>5. target \in Nat /\ cursor <= target /\ target <= safeHead
    BY <1>1, <1>3, <2>3, <2>4 DEF MinOf, Types
  <2> HIDE DEF target
  <2>6. /\ w.pc = "window" /\ w.mode = "index" /\ w.head = 0 /\ w.ranges = {}
        /\ w.start = cursor /\ w.reached = cursor /\ w.target = target
        /\ DOMAIN w.rows = {} /\ w \in WorkerType
    BY <1>1, <2>5, IdleOK DEF Idle, WorkerType, Phases, Types
  <2> HIDE DEF w
  <2>7. cursor >= CHAIN_INDEX_GENESIS_BLOCK - 1
    BY DEF ChainInv
  <2>8. \A l \in Logs : ~(mined[l] \in w.start + 1..w.reached)
    BY <1>1, <2>6 DEF Types
  <2>9. target <= confirmedHead(head)
    BY <1>1, <2>3, <2>5 DEF Types
  <2>10. WorkerOK(w, head, mined, cursor, Stored)
    BY <1>1, <2>5, <2>6, <2>7, <2>8, <2>9 DEF WorkerOK, Indexes, Types
  <2> QED
    BY <2>1, <2>10, MemoryStep DEF PlanScan
<1> QED
  BY <1>2, <1>3

\* Repairs go on with what they were given.
LEMMA HealNextOK ==
    ASSUME ChainInv, NEW p \in Workers, NEW w \in WorkerType, w.mode # "index",
           w.head <= head, NEW stored, HealNext(p, w)
    PROVE  OnlyMoves(p) /\ WorkerOK(worker'[p], head, mined, cursor', stored)
<1>1. Types
  BY TypesHold
<1>2. CASE w.reached < w.target /\ Becomes(p, [w EXCEPT !.pc = "window", !.rows = Idle.rows])
  <2> DEFINE v == [w EXCEPT !.pc = "window", !.rows = Idle.rows]
  <2>1. worker'[p] = v /\ OnlyMoves(p)
    BY <1>2, Became
  <2>2. /\ v \in WorkerType /\ v.pc = "window" /\ v.mode # "index" /\ v.head = w.head
        /\ v.target = w.target /\ v.ranges = w.ranges /\ DOMAIN v.rows = {}
    BY IdleOK DEF WorkerType, Phases
  <2> HIDE DEF v
  <2>3. WorkerOK(v, head, mined, cursor', stored)
    BY <1>2, <2>2 DEF WorkerOK, Indexes
  <2> QED
    BY <2>1, <2>3
<1>3. CASE Becomes(p, Idle)
  BY <1>3, Became, IdleIsOK
<1>4. ASSUME NEW r \in w.ranges,
             Becomes(p, [Idle EXCEPT !.pc = "window", !.mode = "heal", !.reached = r.from - 1,
                                     !.target = r.to, !.ranges = w.ranges \ {r}])
      PROVE  OnlyMoves(p) /\ WorkerOK(worker'[p], head, mined, cursor', stored)
  <2> DEFINE rest == w.ranges \ {r}
             v == [Idle EXCEPT !.pc = "window", !.mode = "heal", !.reached = r.from - 1,
                               !.target = r.to, !.ranges = rest]
  <2>1. worker'[p] = v /\ OnlyMoves(p)
    BY <1>4, Became
  <2>2. r \in RangeType /\ w.ranges \subseteq RangeType
    BY DEF WorkerType
  <2>3. r.from - 1 \in Nat /\ r.to \in Nat /\ rest \in SUBSET RangeType
    BY <2>2 DEF RangeType
  <2>4. \A s \in rest : s \in w.ranges
    OBVIOUS
  <2> HIDE DEF rest
  <2>5. /\ v \in WorkerType /\ v.pc = "window" /\ v.mode = "heal" /\ v.head = 0
        /\ v.target = r.to /\ v.ranges = rest /\ DOMAIN v.rows = {}
    BY <2>3, IdleOK DEF Idle, WorkerType, Phases
  <2> HIDE DEF v
  <2>6. WorkerOK(v, head, mined, cursor', stored)
    BY <1>1, <2>4, <2>5 DEF WorkerOK, Indexes, Types
  <2> QED
    BY <2>1, <2>6
<1> QED
  BY <1>2, <1>3, <1>4 DEF HealNext

LEMMA SuspectsAreStored ==
    ASSUME ChainInv, NEW r \in RangesDue
    PROVE  r \in RangeType
<1>1. \A b \in Suspects : b \in Nat \ {0}
  <2> TAKE b \in Suspects
  <2>1. PICK l \in Stored : b = ledger[l].block
    BY DEF Suspects
  <2>2. l \in Logs /\ ledger[l] \in RowType
    BY DEF Stored, ChainInv
  <2> QED
    BY <2>1, <2>2 DEF RowType
<1>2. r \in [from : Suspects, to : Suspects]
  BY DEF RangesDue, SuspectRanges
<1> QED
  BY <1>1, <1>2 DEF RangeType

LEMMA AsksForRanges ==
    ASSUME NEW ranges \in SUBSET RangeType
    PROVE  LET w == [Idle EXCEPT !.ranges = ranges] IN
           /\ w \in WorkerType /\ w.mode # "index" /\ w.head = 0
           /\ w.reached = 0 /\ w.target = 0 /\ w.ranges = ranges
  BY IdleOK DEF Idle, WorkerType, Phases

LEMMA AsksOK ==
    ASSUME ChainInv, NEW p \in Workers, UNCHANGED <<head, mined, ledger, cursor>>,
           NEW ranges \in SUBSET RangeType,
           HealNext(p, [Idle EXCEPT !.ranges = ranges])
    PROVE  ChainInv'
<1> DEFINE w == [Idle EXCEPT !.ranges = ranges]
<1>1. /\ w \in WorkerType /\ w.mode # "index" /\ w.head = 0
      /\ w.reached = 0 /\ w.target = 0 /\ w.ranges = ranges
  BY AsksForRanges
<1>2. HealNext(p, w)
  OBVIOUS
<1>3. w.head <= head
  BY <1>1 DEF ChainInv
<1> HIDE DEF w
<1>4. OnlyMoves(p) /\ WorkerOK(worker'[p], head, mined, cursor', Stored)
  BY <1>1, <1>2, <1>3, HealNextOK
<1> QED
  BY <1>4, MemoryStep

LEMMA ReadRangesKeeps == ASSUME ChainInv, NEW p \in Workers, ReadRanges(p) PROVE ChainInv'
<1>1. RangesDue \in SUBSET RangeType
  BY SuspectsAreStored
<1>2. HealNext(p, [Idle EXCEPT !.ranges = RangesDue])
      /\ UNCHANGED <<head, mined, ledger, cursor>>
  BY DEF ReadRanges
<1> QED
  BY <1>1, <1>2, AsksOK

LEMMA RepairRangeKeeps == ASSUME ChainInv, NEW p \in Workers, RepairRange(p) PROVE ChainInv'
<1>1. PICK to \in {head} \cup RepairTos :
      \E from \in RepairFroms \cap 1..to :
         HealNext(p, [Idle EXCEPT !.ranges = {[from |-> from, to |-> to]}])
  BY DEF RepairRange
<1>2. PICK from \in RepairFroms \cap 1..to :
         HealNext(p, [Idle EXCEPT !.ranges = {[from |-> from, to |-> to]}])
  BY <1>1
<1>3. Types
  BY TypesHold
<1>4. to \in Nat /\ from \in Nat \ {0}
  BY <1>1, <1>2, <1>3, ChainAssumption DEF Types
<1>5. {[from |-> from, to |-> to]} \in SUBSET RangeType
  BY <1>4 DEF RangeType
<1>6. UNCHANGED <<head, mined, ledger, cursor>>
  BY DEF RepairRange
<1> QED
  BY <1>2, <1>5, <1>6, AsksOK

LEMMA FetchWindowKeeps == ASSUME ChainInv, NEW p \in Workers, FetchWindow(p) PROVE ChainInv'
<1> DEFINE w == worker[p]
           to == MinOf(w.target, w.reached + chunkBlocks)
           pc == IF w.mode = "index" /\ to < w.target THEN "window" ELSE "append"
           window == LogsIn(w.reached + 1, to)
<1>1. PICK rows \in RowsWith(w.rows, window) :
         Becomes(p, [w EXCEPT !.rows = rows, !.reached = to, !.pc = pc])
  BY DEF FetchWindow
<1> DEFINE v == [w EXCEPT !.rows = rows, !.reached = to, !.pc = pc]
<1>2. worker'[p] = v /\ OnlyMoves(p)
  BY <1>1, Became
<1>3. Types /\ WorkerOK(w, head, mined, cursor, Stored) /\ w.pc = "window"
  BY TypesHold, Own DEF FetchWindow, At
<1> HIDE DEF w
<1>4. /\ w \in WorkerType /\ w.rows \in RowSets /\ w.reached \in Nat /\ w.target \in Nat
      /\ w.start \in Nat
  BY <1>3 DEF WorkerOK, WorkerType
<1>5. chunkBlocks \in Nat \ {0}
  BY ChainAssumption
<1>6. to \in Nat /\ to <= w.target /\ (w.reached <= w.target => w.reached <= to)
  BY <1>4, <1>5 DEF MinOf
<1> HIDE DEF to
<1>7. /\ window \subseteq Logs
      /\ \A l \in Logs : l \in window <=> mined[l] > w.reached /\ mined[l] <= to
  BY <1>3, <1>4, <1>6 DEF LogsIn, Types
<1>8. \A l \in window : mined[l] # 0
  BY <1>3, <1>4, <1>7 DEF Types
<1> HIDE DEF window
<1>9. /\ rows \in RowSets
      /\ DOMAIN rows = DOMAIN w.rows \cup window
      /\ \A l \in window : rows[l].block = mined[l]
      /\ \A l \in DOMAIN w.rows \ window : rows[l] = w.rows[l]
  BY <1>1, <1>4, <1>7, <1>8, WindowRows
<1>10. pc \in {"window", "append"}
  OBVIOUS
<1> HIDE DEF pc
<1>11. /\ v \in WorkerType /\ v.pc = pc /\ v.mode = w.mode /\ v.head = w.head
       /\ v.start = w.start /\ v.reached = to /\ v.target = w.target
       /\ v.ranges = w.ranges /\ v.rows = rows
  BY <1>4, <1>6, <1>9, <1>10 DEF WorkerType, Phases
<1> HIDE DEF v
<1>12. v.head <= head
  BY <1>3, <1>11 DEF WorkerOK
<1>13. Indexes(w) => w.target <= confirmedHead(head)
  BY <1>3 DEF WorkerOK
<1>14. Indexes(v) <=> Indexes(w)
  BY <1>3, <1>10, <1>11 DEF Indexes
<1>15. Indexes(v) =>
          \A l \in DOMAIN v.rows : v.rows[l].block = mined[l] /\ mined[l] <= confirmedHead(head)
  <2> SUFFICES ASSUME Indexes(w), NEW l \in DOMAIN rows
               PROVE  rows[l].block = mined[l] /\ mined[l] <= confirmedHead(head)
    BY <1>11, <1>14
  <2>1. CASE l \in window
    <3>1. rows[l].block = mined[l] /\ mined[l] <= to /\ mined[l] \in Nat
      BY <1>3, <1>7, <1>9, <2>1 DEF Types
    <3> QED
      BY <1>3, <1>4, <1>6, <1>13, <3>1 DEF Types
  <2>2. CASE l \notin window
    <3>1. l \in DOMAIN w.rows /\ rows[l] = w.rows[l]
      BY <1>9, <2>2
    <3> QED
      BY <1>3, <3>1 DEF WorkerOK
  <2> QED
    BY <2>1, <2>2
<1>16. Indexes(v) =>
          /\ CHAIN_INDEX_GENESIS_BLOCK - 1 <= v.start /\ v.start <= cursor
          /\ v.start <= v.reached /\ v.reached <= v.target
          /\ \A l \in Logs : mined[l] \in v.start + 1..v.reached => l \in DOMAIN v.rows
  <2> HAVE Indexes(v)
  <2>1. /\ CHAIN_INDEX_GENESIS_BLOCK - 1 <= w.start /\ w.start <= cursor
        /\ w.start <= w.reached /\ w.reached <= w.target
        /\ \A l \in Logs : mined[l] \in w.start + 1..w.reached => l \in DOMAIN w.rows
    BY <1>3, <1>14 DEF WorkerOK
  <2>2. \A l \in Logs : mined[l] \in w.start + 1..to =>
            mined[l] \in w.start + 1..w.reached \/ l \in window
    BY <1>3, <1>4, <1>6, <1>7 DEF Types
  <2> QED
    BY <1>4, <1>6, <1>9, <1>11, <2>1, <2>2
<1>17. WorkerOK(v, head, mined, cursor, Stored)
  BY <1>10, <1>11, <1>12, <1>13, <1>14, <1>15, <1>16 DEF WorkerOK
<1>18. UNCHANGED <<head, mined, ledger, cursor>>
  BY DEF FetchWindow
<1> QED
  BY <1>2, <1>17, <1>18, MemoryStep

LEMMA WindowFailsKeeps == ASSUME ChainInv, NEW p \in Workers, WindowFails(p) PROVE ChainInv'
<1> DEFINE w == worker[p]
           v == [w EXCEPT !.pc = "append"]
<1>1. WorkerOK(w, head, mined, cursor, Stored) /\ w.pc = "window"
  BY Own DEF WindowFails, At
<1>2. UNCHANGED <<head, mined, ledger, cursor>>
  BY DEF WindowFails
<1>3. CASE Becomes(p, v)
  <2>1. worker'[p] = v /\ OnlyMoves(p)
    BY <1>3, Became
  <2> HIDE DEF w
  <2>2. w \in WorkerType
    BY <1>1 DEF WorkerOK
  <2>3. /\ v \in WorkerType /\ v.pc = "append" /\ v.mode = w.mode /\ v.head = w.head
        /\ v.start = w.start /\ v.reached = w.reached /\ v.target = w.target
        /\ v.ranges = w.ranges /\ v.rows = w.rows
    BY <2>2 DEF WorkerType, Phases
  <2> HIDE DEF v
  <2>4. WorkerOK(v, head, mined, cursor, Stored)
    BY <1>1, <2>3 DEF WorkerOK, Indexes
  <2> QED
    BY <1>2, <2>1, <2>4, MemoryStep
<1>4. CASE Becomes(p, Idle)
  BY <1>2, <1>4, StaysIdle
<1> QED
  BY <1>3, <1>4 DEF WindowFails

LEMMA DiesKeeps == ASSUME ChainInv, NEW p \in Workers, Dies(p) PROVE ChainInv'
<1>1. Becomes(p, Idle) /\ UNCHANGED <<head, mined, ledger, cursor>>
  BY DEF Dies
<1> QED
  BY <1>1, StaysIdle

\* What appendChainEvents does: old rows stay, and all of the new ones are there.
LEMMA AppendedFacts ==
    ASSUME ChainInv, NEW rows \in RowSets, ledger' = Appended(rows)
    PROVE  /\ ledger' \in [Logs -> RowType \cup {NoRow}]
           /\ Stored \subseteq Stored' /\ DOMAIN rows \subseteq Stored'
           /\ \A l \in Stored : ledger'[l] = ledger[l]
           /\ \A l \in Stored' \ Stored : l \in DOMAIN rows /\ ledger'[l] = rows[l]
<1>1. DOMAIN rows \subseteq Logs /\ \A l \in DOMAIN rows : rows[l] \in RowType
  BY RowSetFacts
<1>2. ledger \in [Logs -> RowType \cup {NoRow}]
  BY DEF ChainInv
<1>3. /\ ledger' = [l \in Logs |-> IF ledger[l] = NoRow /\ l \in DOMAIN rows
                                   THEN rows[l] ELSE ledger[l]]
      /\ Stored = {l \in Logs : ledger[l] # NoRow}
      /\ Stored' = {l \in Logs : ledger'[l] # NoRow}
  BY DEF Appended, Stored
<1>4. \A l \in Logs : ledger'[l] = IF ledger[l] = NoRow /\ l \in DOMAIN rows
                                   THEN rows[l] ELSE ledger[l]
  BY <1>3
<1>5. \A l \in DOMAIN rows : rows[l] # NoRow
  BY <1>1, NoRowIsNone
<1>6. ledger' \in [Logs -> RowType \cup {NoRow}]
  BY <1>1, <1>2, <1>3
<1> QED
  BY <1>1, <1>3, <1>4, <1>5, <1>6

LEMMA BatchFacts ==
    ASSUME NEW rows \in RowSets, NEW part \in Batches(rows)
    PROVE  /\ part \in RowSets /\ DOMAIN part \subseteq DOMAIN rows
           /\ \A l \in DOMAIN part : part[l] = rows[l]
<1>1. PICK written \in SUBSET DOMAIN rows : part = [l \in written |-> rows[l]]
  BY DEF Batches
<1>2. DOMAIN rows \subseteq Logs /\ \A l \in DOMAIN rows : rows[l] \in RowType
  BY RowSetFacts
<1>3. DOMAIN part = written /\ \A l \in DOMAIN part : part[l] = rows[l]
  BY <1>1
<1>4. part = [l \in DOMAIN part |-> part[l]]
  BY <1>1
<1>5. \A l \in DOMAIN part : part[l] \in RowType
  BY <1>2, <1>3
<1>6. part \in RowSets
  BY <1>2, <1>3, <1>4, <1>5, RowSetFacts
<1> QED
  BY <1>3, <1>6

LEMMA OfferingOK ==
    ASSUME ChainInv, NEW c, NEW old, NEW stored, NEW w, WorkerOK(w, head, mined, c, old),
           w.pc \in {"append", "offer"}, NEW offers \in SUBSET Logs,
           Indexes(w) => \A l \in Logs : mined[l] \in w.start + 1..w.reached => l \in stored
    PROVE  WorkerOK(Offering([w EXCEPT !.offers = offers]), head, mined, c, stored)
<1> DEFINE v == Offering([w EXCEPT !.offers = offers])
<1>1. w \in WorkerType
  BY DEF WorkerOK
<1>2. [w EXCEPT !.offers = offers] \in WorkerType
  BY <1>1 DEF WorkerType
<1>3. /\ v \in WorkerType /\ v.head = w.head /\ v.mode = w.mode
      /\ v.start = w.start /\ v.reached = w.reached /\ v.target = w.target
      /\ v.ranges = w.ranges
  <2> DEFINE u == [w EXCEPT !.offers = offers]
  <2>1. /\ u.head = w.head /\ u.mode = w.mode /\ u.start = w.start
        /\ u.reached = w.reached /\ u.target = w.target /\ u.ranges = w.ranges
    BY <1>1 DEF WorkerType
  <2>2. u \in WorkerType
    BY <1>2
  <2>3. v = IF u.offers # {} THEN [u EXCEPT !.pc = "offer"]
            ELSE IF u.mode = "index" THEN [u EXCEPT !.pc = "store", !.rows = Idle.rows]
            ELSE [u EXCEPT !.pc = "repair"]
    BY DEF Offering
  <2> HIDE DEF u, v
  <2> QED
    BY <2>1, <2>2, <2>3, IdleOK DEF WorkerType, Phases
<1>4. /\ v.pc \in {"offer", "store", "repair"}
      /\ v.pc = "repair" => w.mode # "index"
      /\ v.pc = "store" => w.mode = "index"
      /\ v.rows = w.rows \/ DOMAIN v.rows = {}
  <2> DEFINE u == [w EXCEPT !.offers = offers]
  <2>1. u.mode = w.mode /\ u.rows = w.rows
    BY <1>1 DEF WorkerType
  <2>2. u \in WorkerType
    BY <1>2
  <2>3. v = IF u.offers # {} THEN [u EXCEPT !.pc = "offer"]
            ELSE IF u.mode = "index" THEN [u EXCEPT !.pc = "store", !.rows = Idle.rows]
            ELSE [u EXCEPT !.pc = "repair"]
    BY DEF Offering
  <2> HIDE DEF u, v
  <2> QED
    BY <2>1, <2>2, <2>3, IdleOK DEF WorkerType
<1> HIDE DEF v
<1>5. Indexes(v) => Indexes(w)
  BY <1>3 DEF Indexes
<1>6. WorkerOK(v, head, mined, c, stored)
  BY <1>3, <1>4, <1>5 DEF WorkerOK
<1> QED
  BY <1>6 DEF v

LEMMA AppendKeeps == ASSUME ChainInv, NEW p \in Workers, Append(p) PROVE ChainInv'
<1> DEFINE w == worker[p]
           v == Offering([w EXCEPT !.offers = Candidates(w.rows)])
<1>1. /\ Becomes(p, v) /\ ledger' = Appended(w.rows) /\ w.pc = "append"
      /\ head' = head /\ mined' = mined /\ cursor' = cursor
  BY DEF Append, At
<1>2. worker'[p] = v /\ OnlyMoves(p)
  BY <1>1, Became
<1>3. Types /\ WorkerOK(w, head, mined, cursor, Stored)
  BY TypesHold, Own
<1> HIDE DEF w
<1>4. w.rows \in RowSets /\ DOMAIN w.rows \subseteq Logs
  BY <1>3, RowSetFacts DEF WorkerOK, WorkerType
<1>5. Candidates(w.rows) \in SUBSET Logs
  BY <1>4 DEF Candidates
<1>6. /\ ledger' \in [Logs -> RowType \cup {NoRow}]
      /\ Stored \subseteq Stored' /\ DOMAIN w.rows \subseteq Stored'
      /\ \A l \in Stored : ledger'[l] = ledger[l]
      /\ \A l \in Stored' \ Stored : l \in DOMAIN w.rows /\ ledger'[l] = w.rows[l]
  BY <1>1, <1>4, AppendedFacts
<1>7. Indexes(w) => \A l \in Logs : mined[l] \in w.start + 1..w.reached => l \in Stored'
  BY <1>1, <1>3, <1>6 DEF WorkerOK
<1>8. WorkerOK(v, head, mined, cursor, Stored')
  BY <1>1, <1>3, <1>5, <1>7, OfferingOK
<1>10. \A l \in Logs : mined[l] \in CHAIN_INDEX_GENESIS_BLOCK..cursor => l \in Stored'
  BY <1>6 DEF ChainInv, NoGap
<1> HIDE DEF v
<1>11. ProcessStep(p)
  BY <1>1, <1>2, <1>6, <1>8, <1>10 DEF ProcessStep
<1> QED
  BY <1>11, ProcessKeepsInv

LEMMA OfferKeeps == ASSUME ChainInv, NEW p \in Workers, Offer(p) PROVE ChainInv'
<1> DEFINE w == worker[p]
           left == w.offers \ {NextOffer(w)}
           v == Offering([w EXCEPT !.offers = left])
<1>1. /\ Becomes(p, v) /\ w.pc = "offer" /\ UNCHANGED <<head, mined, ledger, cursor>>
  BY DEF Offer, At
<1>2. worker'[p] = v /\ OnlyMoves(p)
  BY <1>1, Became
<1>3. WorkerOK(w, head, mined, cursor, Stored)
  BY Own
<1> HIDE DEF w
<1>4. left \in SUBSET Logs
  BY <1>3 DEF WorkerOK, WorkerType
<1> HIDE DEF left
<1>5. Indexes(w) => \A l \in Logs : mined[l] \in w.start + 1..w.reached => l \in Stored
  BY <1>1, <1>3 DEF WorkerOK
<1>6. WorkerOK(v, head, mined, cursor, Stored)
  BY <1>1, <1>3, <1>4, <1>5, OfferingOK
<1> HIDE DEF v
<1> QED
  BY <1>1, <1>2, <1>6, MemoryStep

\* The cursor only moves to where the pass has really read and stored, so what
\* lies between is stored, whoever else moved it in the meantime.
LEMMA WriteCursorKeeps == ASSUME ChainInv, NEW p \in Workers, WriteCursor(p) PROVE ChainInv'
<1> DEFINE w == worker[p]
<1>1. /\ cursor' = IF w.reached > w.start THEN MaxOf(cursor, w.reached) ELSE cursor
      /\ PassEnds(p) /\ w.pc = "store"
      /\ head' = head /\ mined' = mined /\ ledger' = ledger
  BY DEF WriteCursor, Reached, At
<1>2. OnlyMoves(p) /\ WorkerOK(worker'[p], head, mined, cursor', Stored')
  BY <1>1, PassEndsOK
<1>3. Types /\ WorkerOK(w, head, mined, cursor, Stored)
  BY TypesHold, Own
<1>4. Stored' = Stored
  BY <1>1 DEF Stored
<1> HIDE DEF w
<1>5. w.reached \in Nat /\ w.start \in Nat /\ w.target \in Nat
  BY <1>3 DEF WorkerOK, WorkerType
<1>6. ledger' \in [Logs -> RowType \cup {NoRow}]
  BY <1>1 DEF ChainInv
<1>8. \A l \in Logs : mined[l] \in CHAIN_INDEX_GENESIS_BLOCK..cursor => l \in Stored
  BY DEF ChainInv, NoGap
<1>9. CASE cursor' = cursor
  <2>1. \A l \in Logs : mined[l] \in CHAIN_INDEX_GENESIS_BLOCK..cursor' => l \in Stored'
    BY <1>4, <1>8, <1>9
  <2> QED
    BY <1>1, <1>2, <1>4, <1>6, <1>9, <2>1, ProcessKeepsInv DEF ProcessStep
<1>10. CASE cursor' # cursor
  <2>1. w.reached > w.start /\ cursor' = w.reached /\ cursor' >= cursor
    BY <1>1, <1>3, <1>5, <1>10 DEF MaxOf, Types
  <2>2. Indexes(w)
    BY <1>1, <1>3 DEF WorkerOK, Indexes
  <2>3. /\ w.start <= cursor /\ w.reached <= w.target
        /\ \A l \in Logs : mined[l] \in w.start + 1..w.reached => l \in Stored
    BY <1>1, <1>3, <2>2 DEF WorkerOK
  <2>4. w.target <= confirmedHead(head)
    BY <1>3, <2>2 DEF WorkerOK
  <2>5. \A l \in Logs : mined[l] \in CHAIN_INDEX_GENESIS_BLOCK..cursor' =>
            mined[l] \in CHAIN_INDEX_GENESIS_BLOCK..cursor \/ mined[l] \in w.start + 1..w.reached
    BY <1>3, <1>5, <2>1, <2>3 DEF Types
  <2>6. \A l \in Logs : mined[l] \in CHAIN_INDEX_GENESIS_BLOCK..cursor' => l \in Stored'
    BY <1>4, <1>8, <2>3, <2>5
  <2>7. cursor' \in Nat /\ cursor' <= confirmedHead(head)
    BY <1>3, <1>5, <2>1, <2>3, <2>4 DEF Types
  <2> QED
    BY <1>1, <1>2, <1>4, <1>6, <2>1, <2>6, <2>7, ProcessKeepsInv DEF ProcessStep
<1> QED
  BY <1>9, <1>10

\* What repairChainEvents does: it touches no block, and no price that is there.
LEMMA RepairedFacts ==
    ASSUME ChainInv, NEW rows \in RowSets, ledger' = Repaired(rows)
    PROVE  /\ ledger' \in [Logs -> RowType \cup {NoRow}] /\ Stored' = Stored
           /\ \A l \in Stored :
                 /\ ledger'[l].block = ledger[l].block
                 /\ ledger[l].price # 0 => ledger'[l].price = ledger[l].price
<1>1. DOMAIN rows \subseteq Logs /\ \A l \in DOMAIN rows : rows[l] \in RowType
  BY RowSetFacts
<1>2. ledger \in [Logs -> RowType \cup {NoRow}]
  BY DEF ChainInv
<1> DEFINE new(l) == Row(rows[l].kind,
                         IF ledger[l].price = 0 THEN rows[l].price ELSE ledger[l].price,
                         ledger[l].block)
<1>3. /\ ledger' = [l \in Logs |-> IF l \in DOMAIN rows /\ ledger[l] # NoRow
                                   THEN new(l) ELSE ledger[l]]
      /\ Stored = {l \in Logs : ledger[l] # NoRow}
      /\ Stored' = {l \in Logs : ledger'[l] # NoRow}
  BY DEF Repaired, Stored
<1>4. \A l \in DOMAIN rows : ledger[l] # NoRow =>
          /\ new(l) \in RowType /\ new(l).block = ledger[l].block
          /\ ledger[l].price # 0 => new(l).price = ledger[l].price
  BY <1>1, <1>2 DEF Row, RowType
<1> HIDE DEF new
<1>5. \A l \in Logs : ledger'[l] = IF l \in DOMAIN rows /\ ledger[l] # NoRow
                                   THEN new(l) ELSE ledger[l]
  BY <1>3
<1>6. ledger' \in [Logs -> RowType \cup {NoRow}]
  BY <1>2, <1>3, <1>4
<1>7. \A l \in Logs : ledger'[l] # NoRow <=> ledger[l] # NoRow
  BY <1>4, <1>5, NoRowIsNone
<1> QED
  BY <1>3, <1>4, <1>5, <1>6, <1>7

LEMMA RepairKeeps == ASSUME ChainInv, NEW p \in Workers, Repair(p) PROVE ChainInv'
<1> DEFINE w == worker[p]
<1>1. /\ ledger' = Repaired(w.rows) /\ HealNext(p, w) /\ w.pc = "repair"
      /\ head' = head /\ mined' = mined /\ cursor' = cursor
  BY DEF Repair, At
<1>2. WorkerOK(w, head, mined, cursor, Stored)
  BY Own
<1> HIDE DEF w
<1>3. /\ w \in WorkerType /\ w.rows \in RowSets /\ w.mode # "index" /\ w.head <= head
  BY <1>1, <1>2 DEF WorkerOK, WorkerType
<1>4. /\ ledger' \in [Logs -> RowType \cup {NoRow}] /\ Stored' = Stored
      /\ \A l \in Stored : ledger'[l].block = ledger[l].block
  BY <1>1, <1>3, RepairedFacts
<1>5. OnlyMoves(p) /\ WorkerOK(worker'[p], head, mined, cursor', Stored')
  BY <1>1, <1>3, HealNextOK
<1>6. \A l \in Logs : mined[l] \in CHAIN_INDEX_GENESIS_BLOCK..cursor' => l \in Stored'
  BY <1>1, <1>4 DEF ChainInv, NoGap
<1>7. ProcessStep(p)
  BY <1>1, <1>4, <1>5, <1>6 DEF ProcessStep
<1> QED
  BY <1>7, ProcessKeepsInv

\* A failed query leaves some of the rows behind, and a process without a plan.
LEMMA QueryFailsKeeps == ASSUME ChainInv, NEW p \in Workers, QueryFails(p) PROVE ChainInv'
<1>1. /\ head' = head /\ mined' = mined /\ cursor' = cursor
      /\ PassEnds(p) \/ Becomes(p, Idle)
  BY DEF QueryFails
<1>2. OnlyMoves(p) /\ WorkerOK(worker'[p], head, mined, cursor', Stored')
  BY <1>1, PassEndsOK, Became, IdleIsOK
<1>3. worker[p].rows \in RowSets
  BY Own DEF WorkerOK, WorkerType
<1>4. /\ ledger' \in [Logs -> RowType \cup {NoRow}] /\ Stored \subseteq Stored'
  <2>1. CASE ledger' = ledger
    BY <2>1 DEF ChainInv, Stored
  <2>2. ASSUME NEW rows \in Batches(worker[p].rows), ledger' = Appended(rows) \/ ledger' = Repaired(rows)
        PROVE  ledger' \in [Logs -> RowType \cup {NoRow}] /\ Stored \subseteq Stored'
    BY <1>3, <2>2, BatchFacts, AppendedFacts, RepairedFacts
  <2> QED
    BY <2>1, <2>2 DEF QueryFails
<1>5. \A l \in Logs : mined[l] \in CHAIN_INDEX_GENESIS_BLOCK..cursor' => l \in Stored'
  BY <1>1, <1>4 DEF ChainInv, NoGap
<1>6. ProcessStep(p)
  BY <1>1, <1>2, <1>4, <1>5 DEF ProcessStep
<1> QED
  BY <1>6, ProcessKeepsInv

LEMMA ChainKeeps == ASSUME ChainInv, Chain PROVE ChainInv'
<1>1. Deeper /\ Types
  BY ChainGetsDeeper, TypesHold
<1>2. ledger' = ledger /\ cursor' = cursor /\ worker' = worker
  BY DEF Chain, MineBlock, Reorganize, TimesCalm
<1>3. Stored' = Stored
  BY <1>2 DEF Stored
<1>4. /\ confirmedHead(head') >= confirmedHead(head) /\ confirmedHead(head') \in Int
  <2>1. \A h, k \in Nat : h <= k => /\ confirmedHead(k) >= confirmedHead(h)
                                   /\ confirmedHead(k) \in Int
    BY <1>1 DEF Types, confirmedHead
  <2> QED
    BY <1>1, <2>1 DEF Deeper, Types
<1>5. \A q \in Workers : WorkerOK(worker'[q], head', mined', cursor', Stored')
  <2> TAKE q \in Workers
  <2>1. WorkerOK(worker[q], head, mined, cursor, Stored)
    BY Own
  <2>2. cursor' \in Nat /\ cursor' >= cursor /\ Stored \subseteq Stored'
    BY <1>1, <1>2, <1>3 DEF Types
  <2>3. WorkerOK(worker[q], head', mined', cursor', Stored')
    BY <1>1, <2>1, <2>2, WaitingKeeps
  <2> QED
    BY <1>2, <2>3
<1>6. /\ ledger \in [Logs -> RowType \cup {NoRow}]
      /\ cursor >= CHAIN_INDEX_GENESIS_BLOCK - 1
      /\ cursor = CHAIN_INDEX_GENESIS_BLOCK - 1 \/ cursor <= confirmedHead(head)
  BY DEF ChainInv
<1>7. \A l \in Logs : mined'[l] \in CHAIN_INDEX_GENESIS_BLOCK..cursor => l \in Stored
  <2> TAKE l \in Logs
  <2> HAVE mined'[l] \in CHAIN_INDEX_GENESIS_BLOCK..cursor
  <2>1. mined'[l] \in 1..confirmedHead(head)
    BY <1>1, <1>6 DEF Types, Deeper
  <2>2. mined'[l] = mined[l]
    BY <1>1, <2>1 DEF Deeper
  <2> QED
    BY <2>2 DEF ChainInv, NoGap
<1>9. NoGap'
  BY <1>2, <1>3, <1>7 DEF NoGap
<1>10. head' \in Nat /\ mined' \in [Logs -> Nat] /\ cursor' \in Nat
  BY <1>1, <1>2 DEF Deeper, Types
<1>11. cursor' = CHAIN_INDEX_GENESIS_BLOCK - 1 \/ cursor' <= confirmedHead(head')
  BY <1>1, <1>2, <1>4, <1>6 DEF Types
<1>12. worker' \in [Workers -> WorkerType] /\ ledger' \in [Logs -> RowType \cup {NoRow}]
       /\ cursor' >= CHAIN_INDEX_GENESIS_BLOCK - 1
  BY <1>1, <1>2, <1>6 DEF Types
<1> QED
  BY <1>2, <1>3, <1>5, <1>9, <1>10, <1>11, <1>12 DEF ChainInv

-----------------------------------------------------------------------------
(* The specification                                                       *)

LEMMA InitEstablishes == ChainInit => ChainInv
<1> SUFFICES ASSUME ChainInit PROVE ChainInv
  OBVIOUS
<1>1. /\ head = 0 /\ mined = [l \in Logs |-> 0] /\ ledger = [l \in Logs |-> NoRow]
      /\ cursor = CHAIN_INDEX_GENESIS_BLOCK - 1 /\ worker = [p \in Workers |-> Idle]
  BY DEF ChainInit
<1>2. CHAIN_INDEX_GENESIS_BLOCK \in Nat \ {0} /\ cursor \in Nat
  BY <1>1, ChainAssumption
<1>3. Stored = {}
  BY <1>1 DEF Stored
<1>4. \A l \in Logs : mined[l] = 0
  BY <1>1
<1>5. /\ Idle \in WorkerType /\ DOMAIN Idle.rows = {}
      /\ Idle.pc = "idle" /\ Idle.head = 0 /\ Idle.ranges = {}
  BY IdleOK DEF Idle
<1>6. WorkerOK(Idle, 0, mined, cursor, {})
  BY <1>5 DEF WorkerOK, Indexes
<1>7. NoGap
  BY <1>2, <1>4 DEF NoGap
<1>8. \A p \in Workers : WorkerOK(worker[p], head, mined, cursor, Stored)
  BY <1>1, <1>3, <1>6
<1> QED
  BY <1>1, <1>2, <1>3, <1>5, <1>7, <1>8 DEF ChainInv

LEMMA NextKeeps == ChainInv /\ [ChainNext]_chainVars => ChainInv'
<1> SUFFICES ASSUME ChainInv, [ChainNext]_chainVars PROVE ChainInv'
  OBVIOUS
<1>1. CASE Chain
  BY <1>1, ChainKeeps
<1>2. ASSUME NEW p \in Workers,
             Pass(p) \/ Offer(p) \/ WindowFails(p) \/ QueryFails(p) \/ Dies(p)
      PROVE  ChainInv'
  BY <1>2, ReadHeadKeeps, PlanScanKeeps, FetchWindowKeeps, AppendKeeps, WriteCursorKeeps,
     ReadRangesKeeps, RepairKeeps, OfferKeeps, WindowFailsKeeps, QueryFailsKeeps,
     DiesKeeps DEF Pass
<1>3. ASSUME NEW p \in Admins, RepairRange(p) PROVE ChainInv'
  BY <1>3, RepairRangeKeeps DEF Workers
<1>4. CASE UNCHANGED chainVars
  <2>1. Stored' = Stored
    BY <1>4 DEF chainVars, Stored
  <2> QED
    BY <1>4, <2>1 DEF chainVars, ChainInv, NoGap
<1> QED
  BY <1>1, <1>2, <1>3, <1>4 DEF ChainNext

\* The invariant holds in every state the indexer can be in, for any number of
\* cron jobs and admins, any depth, window and budget.
THEOREM InvHolds == ChainSpec => []ChainInv
<1> QED
  BY InitEstablishes, NextKeeps, PTL DEF ChainSpec

\* No log at or below the cursor is ever missing from the ledger, whatever fails,
\* dies or runs at the same time (indexSource of chain-indexer.ts).
THEOREM NoGapHolds == ChainSpec => []NoGap
<1>1. ChainInv => NoGap
  BY DEF ChainInv
<1> QED
  BY <1>1, InvHolds, PTL

\* The cursor never moves back, no row is lost or moved to another block, and a
\* stored price is never changed (appendChainEvents, repairChainEvents and
\* writeChainCursor of chain-events.ts).
THEOREM LedgerOnlyGrowsHolds == ChainSpec => LedgerOnlyGrows
<1> DEFINE Grows ==
       /\ cursor' >= cursor
       /\ \A l \in Stored :
             /\ ledger'[l].block = ledger[l].block
             /\ ledger[l].price # 0 => ledger'[l].price = ledger[l].price
<1>1. ASSUME ChainInv, ledger' = ledger, cursor' = cursor PROVE Grows
  BY <1>1 DEF ChainInv
<1>2. ASSUME ChainInv, NEW p \in Workers, Append(p) PROVE Grows
  <2>1. /\ ledger' = Appended(worker[p].rows) /\ cursor' = cursor
        /\ WorkerOK(worker[p], head, mined, cursor, Stored) /\ Types
    BY <1>2, Own, TypesHold DEF Append
  <2>2. worker[p].rows \in RowSets
    BY <2>1 DEF WorkerOK, WorkerType
  <2>3. \A l \in Stored : ledger'[l] = ledger[l]
    BY <1>2, <2>1, <2>2, AppendedFacts
  <2> QED
    BY <2>1, <2>3 DEF Types
<1>3. ASSUME ChainInv, NEW p \in Workers, Repair(p) PROVE Grows
  <2>1. /\ ledger' = Repaired(worker[p].rows) /\ cursor' = cursor
        /\ WorkerOK(worker[p], head, mined, cursor, Stored) /\ Types
    BY <1>3, Own, TypesHold DEF Repair
  <2>2. worker[p].rows \in RowSets
    BY <2>1 DEF WorkerOK, WorkerType
  <2> QED
    BY <1>3, <2>1, <2>2, RepairedFacts DEF Types
<1>4. ASSUME ChainInv, NEW p \in Workers, WriteCursor(p) PROVE Grows
  <2>1. /\ cursor' = IF worker[p].reached > worker[p].start
                     THEN MaxOf(cursor, worker[p].reached) ELSE cursor
        /\ ledger' = ledger
    BY <1>4 DEF WriteCursor, Reached
  <2>2. WorkerOK(worker[p], head, mined, cursor, Stored) /\ Types
    BY <1>4, Own, TypesHold
  <2>3. worker[p].reached \in Nat
    BY <2>2 DEF WorkerOK, WorkerType
  <2>4. cursor' >= cursor
    BY <2>1, <2>2, <2>3 DEF MaxOf, Types
  <2> QED
    BY <2>1, <2>4
<1>7. ASSUME ChainInv, NEW p \in Workers, QueryFails(p) PROVE Grows
  <2>1. /\ cursor' = cursor /\ cursor' >= cursor
        /\ worker[p].rows \in RowSets
    BY <1>7, Own, TypesHold DEF QueryFails, Types, WorkerOK, WorkerType
  <2>2. CASE ledger' = ledger
    BY <1>1, <1>7, <2>1, <2>2
  <2>3. ASSUME NEW rows \in Batches(worker[p].rows), ledger' = Appended(rows)
        PROVE  Grows
    <3>1. rows \in RowSets
      BY <2>1, BatchFacts
    <3>2. \A l \in Stored : ledger'[l] = ledger[l]
      BY <1>7, <2>3, <3>1, AppendedFacts
    <3> QED
      BY <2>1, <3>2
  <2>4. ASSUME NEW rows \in Batches(worker[p].rows), ledger' = Repaired(rows)
        PROVE  Grows
    <3>1. rows \in RowSets
      BY <2>1, BatchFacts
    <3> QED
      BY <1>7, <2>1, <2>4, <3>1, RepairedFacts
  <2> QED
    BY <1>7, <2>2, <2>3, <2>4 DEF QueryFails
<1>5. ASSUME ChainInv, [ChainNext]_chainVars PROVE Grows
  <2>1. CASE Chain
    BY <1>1, <1>5, <2>1 DEF Chain, MineBlock, Reorganize, TimesCalm
  <2>2. ASSUME NEW p \in Workers,
               Pass(p) \/ Offer(p) \/ WindowFails(p) \/ QueryFails(p) \/ Dies(p)
        PROVE  Grows
    <3>1. CASE \/ ReadHead(p) \/ PlanScan(p) \/ FetchWindow(p) \/ ReadRanges(p)
               \/ Offer(p) \/ WindowFails(p) \/ Dies(p)
      <4>1. ledger' = ledger /\ cursor' = cursor
        BY <3>1 DEF ReadHead, PlanScan, FetchWindow, ReadRanges, Offer, WindowFails, Dies
      <4> QED
        BY <1>1, <1>5, <4>1
    <3> QED
      BY <1>2, <1>3, <1>4, <1>5, <1>7, <2>2, <3>1 DEF Pass
  <2>3. ASSUME NEW p \in Admins, RepairRange(p) PROVE Grows
    BY <1>1, <1>5, <2>3 DEF RepairRange
  <2>4. CASE UNCHANGED chainVars
    BY <1>1, <1>5, <2>4 DEF chainVars
  <2> QED
    BY <1>5, <2>1, <2>2, <2>3, <2>4 DEF ChainNext
<1>6. ChainInv /\ [ChainNext]_chainVars => [Grows]_chainVars
  BY <1>5
<1> QED
  BY <1>6, InvHolds, PTL DEF ChainSpec, LedgerOnlyGrows

\* Whatever a pass of the indexer adds to the ledger is still where it was read,
\* at or below the confirmed head, and so for ever (indexSource and confirmedHead
\* of chain-indexer.ts).
THEOREM IndexedRowsConfirmedHolds == ChainSpec => IndexedRowsConfirmed
<1> DEFINE Confirmed ==
       \A p \in Workers :
          worker[p].mode = "index" /\ worker'[p] # worker[p] =>
              \A l \in Stored' \ Stored : /\ ledger'[l].block = mined[l]
                                         /\ mined[l] <= confirmedHead(head)
<1>1. ASSUME Stored' \subseteq Stored PROVE Confirmed
  BY <1>1
<1>2. ASSUME ChainInv, NEW p \in Workers, NEW w, Becomes(p, w), At(p, "append"),
             NEW rows \in RowSets, DOMAIN rows \subseteq DOMAIN worker[p].rows,
             \A l \in DOMAIN rows : rows[l] = worker[p].rows[l],
             ledger' = Appended(rows)
      PROVE  Confirmed
  <2> SUFFICES ASSUME NEW q \in Workers, worker[q].mode = "index", worker'[q] # worker[q],
                      NEW l \in Stored' \ Stored
               PROVE  ledger'[l].block = mined[l] /\ mined[l] <= confirmedHead(head)
    OBVIOUS
  <2>1. worker \in [Workers -> WorkerType]
    BY <1>2 DEF ChainInv
  <2>2. q = p
    BY <1>2, <2>1 DEF Becomes
  <2>3. l \in DOMAIN rows /\ ledger'[l] = rows[l]
    BY <1>2, AppendedFacts
  <2>4. WorkerOK(worker[p], head, mined, cursor, Stored) /\ Indexes(worker[p])
    BY <1>2, <2>2, Own DEF At, Indexes
  <2> QED
    BY <1>2, <2>3, <2>4 DEF WorkerOK
<1>3. ASSUME ChainInv, NEW p \in Workers, Append(p) PROVE Confirmed
  <2>1. worker[p].rows \in RowSets
    BY <1>3, Own DEF WorkerOK, WorkerType
  <2>2. PICK w : Becomes(p, w) /\ At(p, "append") /\ ledger' = Appended(worker[p].rows)
    BY <1>3 DEF Append
  <2> QED
    BY <1>2, <1>3, <2>1, <2>2
<1>4. ASSUME ChainInv, NEW p \in Workers, NEW rows \in RowSets, ledger' = Repaired(rows)
      PROVE  Confirmed
  BY <1>1, <1>4, RepairedFacts
<1>5. ASSUME ChainInv, NEW p \in Workers, Repair(p) PROVE Confirmed
  <2>1. worker[p].rows \in RowSets /\ ledger' = Repaired(worker[p].rows)
    BY <1>5, Own DEF Repair, WorkerOK, WorkerType
  <2> QED
    BY <1>4, <1>5, <2>1
<1>6. ASSUME ChainInv, NEW p \in Workers, QueryFails(p) PROVE Confirmed
  <2>1. worker[p].rows \in RowSets
    BY <1>6, Own DEF WorkerOK, WorkerType
  <2>2. CASE UNCHANGED ledger
    BY <1>1, <2>2 DEF Stored
  <2>3. ASSUME At(p, "append"), NEW rows \in Batches(worker[p].rows), ledger' = Appended(rows)
        PROVE  Confirmed
    <3>1. /\ rows \in RowSets /\ DOMAIN rows \subseteq DOMAIN worker[p].rows
          /\ \A l \in DOMAIN rows : rows[l] = worker[p].rows[l]
      BY <2>1, BatchFacts
    <3>2. PICK w : Becomes(p, w)
      BY <1>6 DEF QueryFails, PassEnds
    <3> QED
      BY <1>2, <1>6, <2>3, <3>1, <3>2
  <2>4. ASSUME NEW rows \in Batches(worker[p].rows), ledger' = Repaired(rows)
        PROVE  Confirmed
    BY <1>4, <1>6, <2>1, <2>4, BatchFacts
  <2> QED
    BY <1>6, <2>2, <2>3, <2>4 DEF QueryFails
<1>7. ASSUME ledger' = ledger PROVE Confirmed
  BY <1>1, <1>7 DEF Stored
<1>8. ASSUME ChainInv, [ChainNext]_chainVars PROVE Confirmed
  <2>1. CASE Chain
    BY <1>7, <2>1 DEF Chain, MineBlock, Reorganize, TimesCalm
  <2>2. ASSUME NEW p \in Workers,
               Pass(p) \/ Offer(p) \/ WindowFails(p) \/ QueryFails(p) \/ Dies(p)
        PROVE  Confirmed
    <3>1. CASE \/ ReadHead(p) \/ PlanScan(p) \/ FetchWindow(p) \/ ReadRanges(p)
               \/ Offer(p) \/ WindowFails(p) \/ WriteCursor(p) \/ Dies(p)
      <4>1. ledger' = ledger
        BY <3>1 DEF ReadHead, PlanScan, FetchWindow, ReadRanges, Offer, WindowFails,
           WriteCursor, Dies
      <4> QED
        BY <1>7, <4>1
    <3> QED
      BY <1>3, <1>5, <1>6, <1>8, <2>2, <3>1 DEF Pass
  <2>3. ASSUME NEW p \in Admins, RepairRange(p) PROVE Confirmed
    BY <1>7, <2>3 DEF RepairRange
  <2>4. CASE UNCHANGED chainVars
    BY <1>7, <2>4 DEF chainVars
  <2> QED
    BY <1>8, <2>1, <2>2, <2>3, <2>4 DEF ChainNext
<1>9. ChainInv /\ [ChainNext]_chainVars => [Confirmed]_chainVars
  BY <1>8
<1> QED
  BY <1>9, InvHolds, PTL DEF ChainSpec, IndexedRowsConfirmed

-----------------------------------------------------------------------------
(* The round                                                               *)

\* Times are milliseconds.
Milliseconds == FirstDeadline \in Nat /\ EXTENSION_MS \in Nat

\* The row of king_of_the_hill has its four columns.
IsRound(s) == s = [deadline |-> s.deadline, leading |-> s.leading,
                   winnerFinalizedAt |-> s.winnerFinalizedAt, winner |-> s.winner]

\* The stored leader was offered in time: what an offer seeds from the ledger is
\* written only when the round finalizes or a better sale replaces it.
KothInv ==
    /\ IsRound(koth) /\ koth.deadline \in Nat
    /\ now \in Nat /\ asked \in [Workers -> Nat]
    /\ koth.leading \subseteq offered
    /\ koth.winner \subseteq offered

\* Seeding changes the leader alone, and only while the round runs.
LEMMA SeedFacts ==
    ASSUME NEW state, IsRound(state), NEW highest, NEW t
    PROVE  LET s == seedLeadingSale(state, highest, t) IN
           /\ IsRound(s) /\ s.deadline = state.deadline /\ s.winner = state.winner
           /\ s.winnerFinalizedAt = state.winnerFinalizedAt
           /\ s # state => ~Finalized(state) /\ t <= state.deadline
  BY DEF seedLeadingSale, IsRound

LEMMA FinalizeFacts ==
    ASSUME NEW state, IsRound(state), NEW t
    PROVE  LET s == finalizeIfDue(state, t) IN
           /\ IsRound(s) /\ s.leading = state.leading /\ s.deadline = state.deadline
           /\ s # state => /\ ~Finalized(state) /\ ~(t <= state.deadline)
                           /\ s.winner = state.leading /\ s.winnerFinalizedAt = t
  BY DEF finalizeIfDue, IsRound

LEMMA ApplyFacts ==
    ASSUME Milliseconds, NEW state, IsRound(state), state.deadline \in Nat, NEW sale,
           NEW t \in Nat
    PROVE  LET s == applyCandidateSale(state, sale, t) IN
           /\ IsRound(s) /\ s.winner = state.winner
           /\ s.winnerFinalizedAt = state.winnerFinalizedAt
           /\ s.deadline \in Nat
           /\ s # state => ~Finalized(state) /\ t <= state.deadline /\ s.leading = {sale}
<1> DEFINE d == IF t >= state.deadline - GRACE_WINDOW_MS
                THEN MaxOf(t, state.deadline) + EXTENSION_MS ELSE state.deadline
           led == [state EXCEPT !.leading = {sale}]
           s == [led EXCEPT !.deadline = d]
<1>1. d \in Nat
  BY DEF MaxOf, Milliseconds
<1> HIDE DEF d
<1>2. CASE Finalized(state) \/ t > state.deadline \/ ~Tops(sale, state)
  BY <1>2 DEF applyCandidateSale
<1>3. CASE ~(Finalized(state) \/ t > state.deadline \/ ~Tops(sale, state))
  <2>1. applyCandidateSale(state, sale, t) = s
    BY <1>3 DEF applyCandidateSale, d
  <2>2. /\ IsRound(s) /\ s.winner = state.winner /\ s.deadline = d /\ s.leading = {sale}
        /\ s.winnerFinalizedAt = state.winnerFinalizedAt
    <3>1. /\ IsRound(led) /\ led.winner = state.winner /\ led.leading = {sale}
          /\ led.winnerFinalizedAt = state.winnerFinalizedAt
      BY DEF IsRound
    <3> HIDE DEF led
    <3> QED
      BY <3>1 DEF IsRound
  <2> QED
    BY <1>1, <1>3, <2>1, <2>2
<1> QED
  BY <1>2, <1>3

-----------------------------------------------------------------------------
LEMMA ReaderKeeps ==
    ASSUME KothInv, NEW t, getKingOfTheHill(t)
    PROVE  KothInv' /\ (Finalized(koth) => koth' = koth)
<1>1. PICK highest \in HighestLedgerSales :
         LET state == seedLeadingSale(koth, highest, t)
             finalized == finalizeIfDue(state, t)
         IN koth' = IF finalized # state THEN finalized ELSE koth
  BY DEF getKingOfTheHill
<1> DEFINE state == seedLeadingSale(koth, highest, t)
           finalized == finalizeIfDue(state, t)
<1>2. offered' = offered /\ now' = now /\ asked' = asked /\ IsRound(koth)
  BY DEF getKingOfTheHill, KothInv, IsRound
<1>3. /\ IsRound(state) /\ state.deadline = koth.deadline
      /\ state.winnerFinalizedAt = koth.winnerFinalizedAt
      /\ state # koth => ~Finalized(koth) /\ t <= koth.deadline
  BY <1>2, SeedFacts
<1> HIDE DEF state
<1>4. /\ IsRound(finalized) /\ finalized.leading = state.leading
      /\ finalized.deadline = state.deadline
      /\ finalized # state => /\ ~Finalized(state) /\ ~(t <= state.deadline)
                              /\ finalized.winner = state.leading
  BY <1>3, FinalizeFacts
<1>5. koth' = IF finalized # state THEN finalized ELSE koth
  BY <1>1 DEF state
<1> HIDE DEF finalized
<1>6. CASE finalized = state
  BY <1>2, <1>5, <1>6 DEF KothInv
<1>7. CASE finalized # state
  <2>1. state = koth /\ ~Finalized(koth)
    BY <1>3, <1>4, <1>7 DEF Finalized
  <2>2. koth' = finalized
    BY <1>5, <1>7
  <2> QED
    BY <1>2, <1>4, <1>7, <2>1, <2>2 DEF KothInv, IsRound
<1> QED
  BY <1>6, <1>7

LEMMA OfferKeepsRound ==
    ASSUME Milliseconds, KothInv, NEW sale, NEW t \in Nat \ {0},
           offerKingOfTheHillCandidate(sale, t),
           now' \in Nat, asked' \in [Workers -> Nat]
    PROVE  KothInv' /\ (Finalized(koth) => koth' = koth)
<1>1. PICK highest \in HighestLedgerSales :
         LET state == finalizeIfDue(seedLeadingSale(koth, highest, t), t)
             next == applyCandidateSale(state, sale, t)
         IN koth' = IF next # state THEN next ELSE koth
  BY DEF offerKingOfTheHillCandidate
<1> DEFINE seeded == seedLeadingSale(koth, highest, t)
           state == finalizeIfDue(seeded, t)
           next == applyCandidateSale(state, sale, t)
<1>2. /\ IsRound(koth)
      /\ offered' = IF ~Finalized(koth) /\ t <= koth.deadline
                    THEN offered \cup {sale} ELSE offered
  BY DEF offerKingOfTheHillCandidate, KothInv, IsRound
<1>3. /\ IsRound(seeded) /\ seeded.deadline = koth.deadline /\ seeded.winner = koth.winner
      /\ seeded.winnerFinalizedAt = koth.winnerFinalizedAt
      /\ seeded # koth => ~Finalized(koth) /\ t <= koth.deadline
  BY <1>2, SeedFacts
<1> HIDE DEF seeded
<1>4. /\ IsRound(state) /\ state.deadline = koth.deadline
      /\ state # seeded => ~(t <= seeded.deadline) /\ state.winnerFinalizedAt = t
  BY <1>3, FinalizeFacts
<1> HIDE DEF state
<1>5. /\ IsRound(next) /\ next.winner = state.winner /\ next.deadline \in Nat
      /\ next.winnerFinalizedAt = state.winnerFinalizedAt
      /\ next # state => /\ ~Finalized(state) /\ t <= state.deadline
                         /\ next.leading = {sale}
  BY <1>4, ApplyFacts DEF KothInv
<1>6. koth' = IF next # state THEN next ELSE koth
  BY <1>1 DEF seeded, state
<1> HIDE DEF next
<1>7. offered \subseteq offered'
  BY <1>2
<1>8. CASE next = state
  BY <1>6, <1>7, <1>8 DEF KothInv
<1>9. CASE next # state
  <2>1. state = seeded /\ ~Finalized(koth)
    BY <1>3, <1>4, <1>5, <1>9 DEF Finalized
  <2>2. t <= koth.deadline
    BY <1>4, <1>5, <1>9
  <2> QED
    BY <1>2, <1>3, <1>5, <1>6, <1>7, <1>9, <2>1, <2>2 DEF KothInv, IsRound
<1> QED
  BY <1>8, <1>9

-----------------------------------------------------------------------------
LEMMA KothInitEstablishes == Milliseconds /\ KothInit => KothInv
<1> SUFFICES ASSUME Milliseconds, KothInit PROVE KothInv
  OBVIOUS
<1>1. /\ koth = [deadline |-> FirstDeadline, leading |-> {}, winnerFinalizedAt |-> 0,
                 winner |-> {}]
      /\ now = 1 /\ asked = [p \in Workers |-> 0]
  BY DEF KothInit
<1> QED
  BY <1>1 DEF KothInv, IsRound, Milliseconds

\* No step disturbs the invariant, and none touches a finished round.
LEMMA KothStep ==
    ASSUME Milliseconds, KothInv, [KothNext]_kothVars
    PROVE  KothInv' /\ (Finalized(koth) => koth' = koth)
<1>1. ASSUME UNCHANGED <<now, koth, asked, offered>> PROVE KothInv'
  BY <1>1 DEF KothInv
<1>2. CASE Indexing
  BY <1>1, <1>2 DEF Indexing
<1>3. ASSUME NEW p \in Workers, Death(p)
      PROVE  KothInv' /\ koth' = koth
  BY <1>3 DEF Death, KothInv
<1>4. ASSUME NEW p \in Workers, Ask(p)
      PROVE  KothInv' /\ koth' = koth
  BY <1>4 DEF Ask, KothInv
<1>5. ASSUME NEW p \in Workers, Answer(p)
      PROVE  KothInv' /\ (Finalized(koth) => koth' = koth)
  <2>1. /\ asked[p] \in Nat \ {0} /\ now' \in Nat /\ asked' \in [Workers -> Nat]
    BY <1>5 DEF Answer, KothInv
  <2>2. CASE offerKingOfTheHillCandidate(Candidate(p), asked[p])
    BY <2>1, <2>2, OfferKeepsRound
  <2>3. CASE UNCHANGED <<koth, offered>>
    BY <2>1, <2>3 DEF KothInv
  <2> QED
    BY <1>5, <2>2, <2>3 DEF Answer
<1>6. ASSUME NEW t \in 1..now, getKingOfTheHill(t)
      PROVE  KothInv' /\ (Finalized(koth) => koth' = koth)
  BY <1>6, ReaderKeeps
<1>7. CASE Tock
  BY <1>7 DEF Tock, KothInv
<1>8. CASE UNCHANGED kothVars
  BY <1>1, <1>8 DEF kothVars
<1> QED
  BY <1>1, <1>2, <1>3, <1>4, <1>5, <1>6, <1>7, <1>8 DEF KothNext, Indexing, Tock, kothVars

\* What is stored of the game is inductive, whatever is offered, indexed, read and
\* repaired (offerKingOfTheHillCandidate, readKingOfTheHill, finalizeIfDue).
THEOREM KothInvHolds == Milliseconds /\ KothSpec => []KothInv
<1>1. CASE Milliseconds
  <2>1. KothInit => KothInv
    BY <1>1, KothInitEstablishes
  <2>2. KothInv /\ [KothNext]_kothVars => KothInv'
    BY <1>1, KothStep
  <2> QED
    BY <2>1, <2>2, PTL DEF KothSpec
<1> QED
  BY <1>1

\* "Late is late, full stop": whoever wins was offered while the round ran
\* (offerKingOfTheHillCandidate and finalizeIfDue).
THEOREM LateSaleNeverWinsHolds == Milliseconds /\ KothSpec => []LateSaleNeverWins
<1>1. KothInv => LateSaleNeverWins
  BY DEF KothInv, LateSaleNeverWins
<1>2. Milliseconds /\ KothSpec => []KothInv
  BY KothInvHolds
<1> QED
  BY <1>1, <1>2, PTL

\* A finished round is never written again, whatever is offered, read or repaired
\* and however old the caller's time is.
THEOREM RoundFinalHolds == Milliseconds /\ KothSpec => RoundFinal
<1>1. CASE Milliseconds
  <2>1. KothInv /\ [KothNext]_kothVars => [Finalized(koth) => koth' = koth]_koth
    BY <1>1, KothStep
  <2>2. KothSpec => []KothInv
    BY <1>1, KothInvHolds
  <2> QED
    BY <2>1, <2>2, PTL DEF KothSpec, RoundFinal
<1> QED
  BY <1>1

=============================================================================
