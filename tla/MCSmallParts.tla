---------------------------- MODULE MCSmallParts ----------------------------
(* Four parts that share no state, side by side for TLC: the beacon on its    *)
(* own, the settlement budget, the settlement of capped pools and the tape    *)
(* of the crawler.  A behaviour is one of one part; the others stand still.   *)
EXTENDS DrandBeacon, SettleBudget, CappedPoolBooks, AkashaTape, TLC

MCSignatures == {1, 2}
MCSignatureOf(r) == r
MCKeccak(s) == 100 + s

VARIABLE part  \* the part that takes the steps

partsVars == <<part, beaconVars, budgetVars, poolVars, tapeVars>>

\* A purse that settle does not accept: the books' properties have nothing to look at.
NoBooks == book = <<>> /\ d = MAX_POT + 1 /\ h = 0

PartsInit ==
    /\ part \in {"beacon", "budget", "books", "tape"}
    /\ BeaconInit /\ BudgetInit /\ TapeInit
    /\ IF part = "books" THEN PoolInit ELSE NoBooks

PartsNext ==
    \/ part = "beacon" /\ BeaconNext /\ UNCHANGED <<part, budgetVars, poolVars, tapeVars>>
    \/ part = "budget" /\ BudgetNext /\ UNCHANGED <<part, beaconVars, poolVars, tapeVars>>
    \/ part = "books" /\ PoolNext /\ UNCHANGED <<part, beaconVars, budgetVars, tapeVars>>
    \/ part = "tape" /\ TapeNext /\ UNCHANGED <<part, beaconVars, budgetVars, poolVars>>

PartsSpec == PartsInit /\ [][PartsNext]_partsVars

\* Callers are interchangeable, and so are workers.
PartsSymmetry == Permutations(Callers) \cup Permutations(Workers)
=============================================================================
