----------------------------- MODULE AkashaTape -----------------------------
(***************************************************************************)
(* The historical crawler ("hose") of Bitcoin's past: workers that fill the *)
(* heights from the protocol's origin T0 up to the block Lock at which the  *)
(* chain was locked, along two lanes.  The serial lane walks the            *)
(* backfill_tail left, one epoch after another; the shard lane plans the    *)
(* past into ranges and shares them out through the rows of                 *)
(* akasha_gap_queue, each claimed under a lease.  A worker writes to its    *)
(* memory and appends a statement for every write to a queue of its own,    *)
(* which flush() drains in order at the end of a tick; a crash, or the      *)
(* hourly restart, loses memory and queue, and load() rebuilds the memory   *)
(* from what is durable.                                                    *)
(*                                                                         *)
(* A height stands for its block: the chain below Lock does not reorganize, *)
(* so the hash link of an epoch holds as soon as the two headers it         *)
(* compares are in memory.  The tip, its cursor and the gap worker are not  *)
(* modelled: finalizedHeight stays at Lock.                                 *)
(***************************************************************************)
EXTENDS Integers, Sequences, FiniteSets, SequencesExt

CONSTANTS Workers,
          T0,           \* protocol_t0
          Lock,         \* t0Height, and finalizedHeight
          Span,         \* SHARD_SPAN
          Batch,        \* how many outstanding shards a tick enqueues
          Claims,       \* AKASHA_SHARD_CLAIMS
          Window,       \* EPOCH_WINDOW
          HeaderLimit,  \* how many headers load() reads back at most
          MaxRows,      \* bound on the rows of the queue
          MaxFaults,    \* bound on the faults of a behaviour, which the code has not
          MaxPoisoned   \* bound on the statements that are refused

ASSUME TapeAssumption ==
    /\ T0 \in Nat /\ Lock \in Nat /\ T0 <= Lock
    /\ Span \in Nat \ {0} /\ Window \in Nat \ {0}
    /\ Batch \in Nat /\ Claims \in Nat /\ HeaderLimit \in Nat
    /\ MaxRows \in Nat /\ MaxFaults \in Nat /\ MaxPoisoned \in Nat

VARIABLES headers, events, covered,  \* durable rows, by height
          tail,                      \* akasha_cursor.backfill_tail
          queue,                     \* akasha_gap_queue, in the order of ids
          worker,                    \* what each process has in memory
          poisoned,                  \* history: the statements that were refused
          faults                     \* how many faults are still to come

tapeVars == <<headers, events, covered, tail, queue, worker, poisoned, faults>>
durable == <<headers, events, covered, tail, poisoned>>

Heights == T0..Lock

Lower(a, b) == IF a < b THEN a ELSE b
Higher(a, b) == IF a < b THEN b ELSE a

-----------------------------------------------------------------------------
(* The shard planner                                                       *)

\* planShards: [T0, Lock] in ranges of Span heights, the newest first.
planShards ==
    [k \in 1..((Lock - T0) \div Span + 1) |->
        [from |-> Higher(T0, Lock - k * Span + 1), to |-> Lock - (k - 1) * Span]]

\* outstandingShards, called with the run-list of coverageFor: one run per height,
\* not collapsed, so that only a shard of one height is ever found covered.
outstandingShards(cov) ==
    SelectSeq(planShards, LAMBDA s : ~ \E h \in cov : h <= s.from /\ s.to <= h)

-----------------------------------------------------------------------------
(* The queue                                                               *)

\* One INSERT ... WHERE NOT EXISTS: only unclaimed rows of the range keep it out.
Enqueued(rows, s) ==
    IF Len(rows) >= MaxRows \/ \E i \in DOMAIN rows : rows[i] = [shard |-> s, claim |-> "free"]
    THEN rows
    ELSE Append(rows, [shard |-> s, claim |-> "free"])

\* A row is free, leased, or expired when its lease ran out.  The indices that
\* claimShards takes: the oldest rows that are claimable.
Claimed ==
    LET ready == {i \in DOMAIN queue : queue[i].claim # "leased"}
    IN  {i \in ready : Cardinality({j \in ready : j <= i}) <= Claims}

\* retireShard and releaseShard address a range: every row of it, whoever
\* claimed it.
Retired(s) == SelectSeq(queue, LAMBDA row : row.shard # s)
Released(s) ==
    [i \in DOMAIN queue |->
        IF queue[i].shard = s THEN [queue[i] EXCEPT !.claim = "free"] ELSE queue[i]]

-----------------------------------------------------------------------------
(* The write-through store                                                 *)

\* Bug: the coverage recorded on the way in.
OrderCoverageFirst == <<"coverage", "header", "event">>

\* The order in which ingestBlock writes: a header, the events of the block and, at
\* the end, that the block is covered.
Order == <<"header", "event", "coverage">>

\* The statements for a block: of one cut short the header, and never the coverage.
Statements(h, read, whole) ==
    IF h \in whole THEN [k \in 1..3 |-> <<Order[k], h>>]
    ELSE IF h \in read THEN << <<"header", h>> >> ELSE <<>>

\* The statements of a walk, appended to those of ops: blocks from the highest down.
Appended(ops, read, whole) ==
    FoldLeft(LAMBDA q, k : q \o Statements(Lock + 1 - k, read, whole),
             ops, [k \in 1..Lock - T0 + 1 |-> k])

\* A worker m that walked down a range, got the headers of read and the blocks of whole
\* in full.
Ingested(m, read, whole) ==
    [m EXCEPT !.hdr = @ \cup read,
              !.cov = @ \cup whole,
              !.pending = Appended(@, read, whole)]

\* The statements ops are run one after another: the ones at refused fail with a code
\* that is not in the list of transient errors and are dropped, the ones after them
\* are run all the same.  An insert does nothing on a conflict, the tail is set to what
\* the worker says.
Rows(ops, landed, kind) == {h \in Heights : \E i \in landed : ops[i] = <<kind, h>>}
Drained(ops, refused) ==
    /\ poisoned' = poisoned \cup {ops[i] : i \in refused}
    /\ LET landed == DOMAIN ops \ refused
           moves == {i \in landed : ops[i][1] = "tail"}
       IN  /\ headers' = headers \cup Rows(ops, landed, "header")
           /\ events' = events \cup Rows(ops, landed, "event")
           /\ covered' = covered \cup Rows(ops, landed, "coverage")
           /\ \/ moves = {} /\ UNCHANGED tail
              \/ \E i \in moves : (\A j \in moves : j <= i) /\ tail' = ops[i][2]

\* load(): every coverage run, the tail, and the newest headers: as many as the chains
\* before this one leave of the rows of one query.
Newest(hs, limit) == {h \in hs : Cardinality({g \in hs : g >= h}) <= limit}
load(limit) ==
    [pc |-> "plan", hdr |-> Newest(headers, limit), cov |-> covered, tail |-> tail,
     pending |-> <<>>, claimed |-> <<>>]

Down == [pc |-> "down", hdr |-> {}, cov |-> {}, tail |-> Lock,
         pending |-> <<>>, claimed |-> <<>>]

-----------------------------------------------------------------------------
(* One tick of a worker: shardTick, backfillTick, flush                    *)

Boot(w) ==
    /\ worker[w].pc = "down"
    /\ \E limit \in 0..HeaderLimit : worker' = [worker EXCEPT ![w] = load(limit)]
    /\ UNCHANGED <<durable, queue, faults>>

\* shardTick, its first half: the newest outstanding shards become rows.
Plan(w) ==
    /\ worker[w].pc = "plan"
    /\ LET all == outstandingShards(worker[w].cov)
       IN  queue' = FoldLeft(Enqueued, queue, SubSeq(all, 1, Lower(Batch, Len(all))))
    /\ worker' = [worker EXCEPT ![w].pc = "claim"]
    /\ UNCHANGED <<durable, faults>>

\* The claimed shards come back in any order.
claimShards(w) ==
    /\ worker[w].pc = "claim"
    /\ \E mine \in SetToSeqs(Claimed) :
        /\ queue' = [i \in DOMAIN queue |->
                IF i \in Claimed THEN [queue[i] EXCEPT !.claim = "leased"] ELSE queue[i]]
        /\ worker' = [worker EXCEPT ![w].pc = IF mine = <<>> THEN "backfill" ELSE "walk",
                                    ![w].claimed = [k \in DOMAIN mine |->
                                                        queue[mine[k]].shard]]
    /\ UNCHANGED <<durable, faults>>

\* A step in which something fails, and one that may be.
Fault == faults > 0 /\ faults' = faults - 1
FaultIf(failed) == IF failed THEN Fault ELSE UNCHANGED faults

\* A query of shardTick that fails ends it.
ShardTickFails(w) ==
    /\ Fault
    /\ worker[w].pc \in {"plan", "claim"}
    /\ worker' = [worker EXCEPT ![w].pc = "backfill", ![w].claimed = <<>>]
    /\ UNCHANGED <<durable, queue>>

\* What a walk of a range reads: the heights whose header it gets, and those of
\* them that it gets in full.
Readings(hs) ==
    LET partial == IF faults = 0 THEN {hs} ELSE SUBSET hs
    IN  {rw \in partial \X partial : rw[2] \subseteq rw[1]}

\* ingestShard of the next claimed shard, and its retirement or release.  The
\* loop asks for the hash of every height and skips those without one; one
\* hash is enough to retire the shard, although its block may then not be read,
\* and the flush has not run.  A throw in the middle releases the shard; when
\* that query fails as well, the tick's claims stay leased.
WalkShard(w) ==
    /\ worker[w].pc = "walk"
    /\ \E s \in {Head(worker[w].claimed)} :
       \E rw \in Readings(s.from..s.to), end \in {"retire", "release", "fail"} :
        /\ FaultIf(end # "retire" \/ rw[2] # s.from..s.to)
        /\ queue' = CASE end = "retire" -> Retired(s)
                      [] end = "release" -> Released(s)
                      [] end = "fail" -> queue
        /\ \E rest \in {IF end = "fail" THEN <<>> ELSE Tail(worker[w].claimed)} :
            worker' = [worker EXCEPT ![w] =
                [Ingested(@, rw[1], rw[2]) EXCEPT
                    !.claimed = rest,
                    !.pc = IF rest = <<>> THEN "backfill" ELSE "walk"]]
    /\ UNCHANGED durable

\* The lowest height read, whatever lies between.
ReachedLowest(to, whole) ==
    IF whole = {} THEN to + 1 ELSE CHOOSE h \in whole : \A g \in whole : h <= g

\* How far left the tail may go: the end of the unbroken run of heights read in full.
Reached(to, whole) ==
    CHOOSE h \in (T0..to + 1) : /\ h..to \subseteq whole
                                /\ h - 1 \notin whole

\* One step of the serial lane: an epoch is read downward, up to the first height
\* that is missing or cut short or to the deadline of the tick, and the tail moves if
\* its header is in memory and so links with the block below.
BackfillStep(w) ==
    /\ worker[w].pc \in {"backfill", "again"}
    /\ worker[w].tail > T0
    /\ \E m \in {worker[w]}, epoch \in {Higher(T0, worker[w].tail - Window)..worker[w].tail - 1} :
       \E rw \in Readings(epoch) \cup {<<h..m.tail - 1, h..m.tail - 1>> : h \in epoch} :
       \E lowest \in {Reached(m.tail - 1, rw[2])} :
        /\ \A h \in rw[1] : h >= lowest - 1
        /\ FaultIf(rw[1] # rw[2] \/ rw[2] = {})
        /\ \E read \in {Ingested(m, rw[1], rw[2])} :
            worker' = [worker EXCEPT ![w] =
                IF lowest < m.tail /\ m.tail \in m.hdr
                THEN [read EXCEPT !.tail = lowest, !.pending = Append(@, <<"tail", lowest>>),
                                   !.pc = "again"]
                ELSE [read EXCEPT !.pc = "flush"]]
    /\ UNCHANGED <<durable, queue>>

\* What may be refused of the first n statements: as many as the bound leaves.
Refusals(n) ==
    {{}} \cup {Range(f) : f \in [1..MaxPoisoned - Cardinality(poisoned) -> 1..n]}

\* flush(): once the past is closed, the tape is as large as it may get, an epoch
\* moved nothing or, after the first, the budget of backfillTick is spent.  The
\* statements are run in order; a failure that counts as transient puts the rest back.
Flush(w) ==
    /\ worker[w].pc \in {"backfill", "again", "flush"}
    /\ \E n \in 0..Len(worker[w].pending) : \E refused \in Refusals(n) :
        /\ FaultIf(n < Len(worker[w].pending))
        /\ Drained(SubSeq(worker[w].pending, 1, n), refused)
        /\ worker' = [worker EXCEPT ![w].pc = "plan",
                                    ![w].pending = SubSeq(@, n + 1, Len(@))]
    /\ UNCHANGED queue

-----------------------------------------------------------------------------
(* The environment                                                         *)

\* The process ends: restarted by cron after a last flush that is given some seconds,
\* fenced by its own watchdog, or killed.
Crash(w) ==
    /\ Fault
    /\ worker[w].pc # "down"
    /\ \E n \in 0..Len(worker[w].pending) : \E refused \in Refusals(n) :
        Drained(SubSeq(worker[w].pending, 1, n), refused)
    /\ worker' = [worker EXCEPT ![w] = Down]
    /\ UNCHANGED queue

\* CLAIM_LEASE_SEC pass since a row was claimed, whether or not its worker lives.
LeaseExpires(i) ==
    /\ i \in DOMAIN queue
    /\ queue[i].claim = "leased"
    /\ queue' = [queue EXCEPT ![i].claim = "expired"]
    /\ UNCHANGED <<durable, worker, faults>>

-----------------------------------------------------------------------------

TapeInit ==
    /\ headers = {Lock} /\ events = {} /\ covered = {}
    /\ tail = Lock
    /\ queue = <<>>
    /\ worker = [w \in Workers |-> Down]
    /\ poisoned = {}
    /\ faults = MaxFaults

HoseTick(w) == \/ Boot(w) \/ Plan(w) \/ claimShards(w) \/ WalkShard(w)
               \/ BackfillStep(w) \/ Flush(w)

TapeNext ==
    \/ \E w \in Workers : HoseTick(w) \/ ShardTickFails(w) \/ Crash(w)
    \/ \E i \in 1..MaxRows : LeaseExpires(i)

TapeSpec == TapeInit /\ [][TapeNext]_tapeVars

-----------------------------------------------------------------------------
(* Correctness                                                             *)

\* A height whose row of some kind is durable or was refused.
Settled(kind, rows) == rows \cup {h \in Heights : <<kind, h>> \in poisoned}

\* A covered height has its header and its events, whatever flush was cut short,
\* process killed or shard walked twice: only a statement that flush drops for good
\* can leave coverage without what it counts.
CoverageBacked ==
    \A h \in covered : h \in Settled("header", headers) /\ h \in Settled("event", events)

\* The tail claims no height that is not covered: crashes, cut flushes, missing blocks
\* and the other lane leave no hole between it and the lock, only a coverage statement
\* that flush drops for good does.
TailHonest == tail..Lock - 1 \subseteq Settled("coverage", covered)

\* "A lost write degrades to 'not yet covered', never to 'covered but wrong'."
NeverCoveredButWrong == covered \subseteq headers \cap events

=============================================================================
