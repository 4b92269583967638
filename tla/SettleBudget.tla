---------------------------- MODULE SettleBudget ----------------------------
(***************************************************************************)
(* The daily budget of public settlements, in front of the server of       *)
(* SettleBots: takePublicSettleBudget and handle of                        *)
(* app/api/market/vault/settle-random/route.ts.  The counter is a row of   *)
(* the durable key-value table, read in one query and written in another;  *)
(* callers run in several instances of the server, concurrently.           *)
(***************************************************************************)
EXTENDS Integers, FiniteSets

CONSTANTS
    Callers,
    PUBLIC_SETTLE_DAILY_CAP,
    KvFails,     \* queries to the key-value table may fail
    MaxDay,      \* BOUND: days explored
    MaxTaken     \* BOUND: requests keep arriving until so many units are taken

ASSUME BudgetAssumption ==
    /\ IsFiniteSet(Callers)
    /\ PUBLIC_SETTLE_DAILY_CAP \in Nat
    /\ KvFails \in BOOLEAN
    /\ MaxDay \in Nat
    /\ MaxTaken \in Nat

Days == 0..MaxDay

VARIABLES
    day,        \* the UTC day
    counter,    \* the row of each day, 0 when absent
    caller,     \* each request: where it is, the day it has noted, what it has read
    taken,      \* units of each day's budget handed out so far
    settled     \* public settlements of each day so far

budgetVars == <<day, counter, caller, taken, settled>>

Gone == [pc |-> "gone", day |-> 0, used |-> 0]

\* The store's two queries on the row of a day.
postgresGet(key) == counter[key]

postgresSet(key, value) == counter' = [counter EXCEPT ![key] = value]

\* A public request arrives: the key is that of its own day.
Arrive(c) ==
    /\ caller[c].pc \in {"gone", "refused"}
    /\ taken[day] < MaxTaken
    /\ caller' = [caller EXCEPT ![c] = [pc |-> "get", day |-> day, used |-> 0]]
    /\ UNCHANGED <<day, counter, taken, settled>>

\* Bug: the unit about to be taken is counted before it is compared.
SpentOneEarly(used) == used + 1 >= PUBLIC_SETTLE_DAILY_CAP

Spent(used) == used >= PUBLIC_SETTLE_DAILY_CAP

\* durableKv.get, and the comparison with the cap.
Get(c) ==
    LET used == postgresGet(caller[c].day) IN
    /\ caller[c].pc = "get"
    /\ caller' = [caller EXCEPT ![c].used = used,
                                ![c].pc = IF Spent(used) THEN "refused" ELSE "set"]
    /\ UNCHANGED <<day, counter, taken, settled>>

Granted(c) ==
    /\ taken' = [taken EXCEPT ![caller[c].day] = @ + 1]
    /\ caller' = [caller EXCEPT ![c].pc = "authorized"]

\* durableKv.set of what was read plus one.
Set(c) ==
    /\ caller[c].pc = "set"
    /\ Granted(c)
    /\ postgresSet(caller[c].day, caller[c].used + 1)
    /\ UNCHANGED <<day, settled>>

\* A failing query grants the unit; a failing write may have been made.
KvError(c) ==
    /\ KvFails
    /\ caller[c].pc \in {"get", "set"}
    /\ Granted(c)
    /\ \/ UNCHANGED counter
       \/ /\ caller[c].pc = "set"
          /\ postgresSet(caller[c].day, caller[c].used + 1)
    /\ UNCHANGED <<day, settled>>

\* authorized(), after the unit was taken: a request from another origin is
\* refused, one of our own pages settles.
Authorize(c, sameOrigin) ==
    /\ caller[c].pc = "authorized"
    /\ caller' = [caller EXCEPT ![c] = Gone]
    /\ settled' = IF sameOrigin THEN [settled EXCEPT ![caller[c].day] = @ + 1] ELSE settled
    /\ UNCHANGED <<day, counter, taken>>

NextDay ==
    /\ day < MaxDay
    /\ day' = day + 1
    /\ UNCHANGED <<counter, caller, taken, settled>>

BudgetInit ==
    /\ day = 0
    /\ counter = [d \in Days |-> 0]
    /\ caller = [c \in Callers |-> Gone]
    /\ taken = [d \in Days |-> 0]
    /\ settled = [d \in Days |-> 0]

BudgetNext ==
    \/ \E c \in Callers : Arrive(c) \/ Get(c) \/ Set(c) \/ KvError(c)
    \/ \E c \in Callers, sameOrigin \in BOOLEAN : Authorize(c, sameOrigin)
    \/ NextDay

BudgetSpec == BudgetInit /\ [][BudgetNext]_budgetVars

-----------------------------------------------------------------------------
(* Correctness                                                             *)

\* Nobody's redemption is refused before the day's budget is really gone: lost
\* updates between the two queries, failing queries and the change of the day
\* may let the counter fall behind, never run ahead.
NeverRefusedEarly ==
    \A c \in Callers :
        caller[c].pc = "refused" => taken[caller[c].day] >= PUBLIC_SETTLE_DAILY_CAP

\* "Public settlements allowed per UTC day, across every caller": the cap as the
\* comment on PUBLIC_SETTLE_DAILY_CAP states it.
CapHolds == \A d \in Days : settled[d] <= PUBLIC_SETTLE_DAILY_CAP

=============================================================================
