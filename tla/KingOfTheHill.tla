---------------------------- MODULE KingOfTheHill ----------------------------
(***************************************************************************)
(* lib/market/king-of-the-hill.ts and king-of-the-hill-rules.ts: one round  *)
(* that the largest sale wins, on top of the ledger: the indexer offers     *)
(* every priced sale it has appended, readers of the API close the round    *)
(* once its deadline has passed.  Each call takes the time before it waits  *)
(* for the row lock; behind the lock it is one transaction.                 *)
(***************************************************************************)
EXTENDS ChainIndexer

CONSTANTS
    GRACE_WINDOW_MS, EXTENSION_MS,
    FirstDeadline,
    MaxNow        \* BOUND: the last moment explored

VARIABLES
    now,
    koth,      \* the row of king_of_the_hill
    asked,     \* when a worker called offerKingOfTheHillCandidate, 0 outside
    offered    \* HISTORY: the sales whose offer was taken while the round ran

kothVars == <<chainVars, now, koth, asked, offered>>

\* A sale that leads or wins, as a set of at most one.
SaleOf(l) == [log |-> l, price |-> ledger[l].price]

\* readHighestLedgerSale: one of the dearest sales, none while there is none.
HighestLedgerSales ==
    LET sales == {SaleOf(l) : l \in {k \in Stored : ledger[k].kind = "sale"
                                                    /\ ledger[k].price > 0}} IN
    IF sales = {} THEN {{}}
    ELSE {{s} : s \in {t \in sales : \A u \in sales : u.price <= t.price}}

-----------------------------------------------------------------------------
(* The rules                                                               *)

Finalized(state) == state.winnerFinalizedAt # 0

Tops(sale, state) == \A leader \in state.leading : sale.price > leader.price

\* seedExistingSale and reconcileExistingSale, behind the test of the time.
seedLeadingSale(state, highest, t) ==
    IF ~Finalized(state) /\ t <= state.deadline /\ \A sale \in highest : Tops(sale, state)
    THEN [state EXCEPT !.leading = IF highest = {} THEN @ ELSE highest]
    ELSE state

\* A new record inside the grace window moves the deadline.
applyCandidateSale(state, sale, t) ==
    IF Finalized(state) \/ t > state.deadline \/ ~Tops(sale, state) THEN state
    ELSE [state EXCEPT
            !.leading = {sale},
            !.deadline = IF t >= @ - GRACE_WINDOW_MS THEN MaxOf(t, @) + EXTENSION_MS ELSE @]

finalizeIfDue(state, t) ==
    IF Finalized(state) \/ t <= state.deadline THEN state
    ELSE [state EXCEPT !.winnerFinalizedAt = t, !.winner = state.leading]

-----------------------------------------------------------------------------
(* The two transactions                                                    *)

\* Written only when it finalizes: what was seeded is not.
getKingOfTheHill(t) ==
    /\ \E highest \in HighestLedgerSales :
          LET state == seedLeadingSale(koth, highest, t)
              finalized == finalizeIfDue(state, t)
          IN koth' = IF finalized # state THEN finalized ELSE koth
    /\ UNCHANGED <<chainVars, now, asked, offered>>

\* Written only when the sale tops the state that was just seeded.
offerKingOfTheHillCandidate(sale, t) ==
    /\ \E highest \in HighestLedgerSales :
          LET state == finalizeIfDue(seedLeadingSale(koth, highest, t), t)
              next == applyCandidateSale(state, sale, t)
          IN koth' = IF next # state THEN next ELSE koth
    /\ offered' = IF ~Finalized(koth) /\ t <= koth.deadline
                  THEN offered \cup {sale} ELSE offered

Candidate(p) ==
    LET l == NextOffer(worker[p]) IN [log |-> l, price |-> worker[p].rows[l].price]

\* The call: Date.now(), then the wait for a connection and the row.
Ask(p) ==
    /\ At(p, "offer")
    /\ asked[p] = 0
    /\ asked' = [asked EXCEPT ![p] = now]
    /\ UNCHANGED <<chainVars, now, koth, offered>>

\* The transaction; when it fails, that is logged.
Answer(p) ==
    /\ asked[p] # 0
    /\ \/ offerKingOfTheHillCandidate(Candidate(p), asked[p])
       \/ faulty /\ UNCHANGED <<koth, offered>>
    /\ Offer(p)
    /\ asked' = [asked EXCEPT ![p] = 0]
    /\ UNCHANGED now

Tock ==
    /\ now < MaxNow
    /\ now' = now + 1
    /\ UNCHANGED <<chainVars, koth, asked, offered>>

-----------------------------------------------------------------------------
KothInit ==
    /\ ChainInit
    /\ now = 1
    /\ koth = [deadline |-> FirstDeadline, leading |-> {}, winnerFinalizedAt |-> 0,
               winner |-> {}]
    /\ asked = [p \in Workers |-> 0]
    /\ offered = {}

\* A step of the indexer that is not an offer.
Indexing ==
    /\ \/ Chain
       \/ \E p \in Workers : Pass(p) \/ WindowFails(p) \/ QueryFails(p)
       \/ \E p \in Admins : RepairRange(p)
    /\ UNCHANGED <<now, koth, asked, offered>>

Death(p) ==
    /\ Dies(p)
    /\ asked' = [asked EXCEPT ![p] = 0]
    /\ UNCHANGED <<now, koth, offered>>

KothNext ==
    \/ Indexing
    \/ \E p \in Workers : Death(p) \/ Ask(p) \/ Answer(p)
    \/ \E t \in 1..now : getKingOfTheHill(t)
    \/ Tock

KothSpec == KothInit /\ [][KothNext]_kothVars

-----------------------------------------------------------------------------
(* Correctness                                                             *)

\* A finished round stays as it is, whatever is offered, read or repaired later
\* and whatever time the caller took before it waited for the lock.
RoundFinal == [][Finalized(koth) => koth' = koth]_koth

\* "Late is late, full stop": the winner was offered while the round ran; a sale
\* that reached the ledger after the deadline does not win by being there when
\* somebody closes the round.
LateSaleNeverWins == koth.winner \subseteq offered

\* "Any new largest sale will extend a grace period of 4 hours ... once sustained
\* king of the hill is timed out, the winner will be awarded": no sale that was
\* offered while the round ran is dearer than the winner.
WinnerHoldsRecord ==
    Finalized(koth) =>
        \A sale \in offered : \E winner \in koth.winner : sale.price <= winner.price

=============================================================================
