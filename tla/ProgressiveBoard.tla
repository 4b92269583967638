-------------------------- MODULE ProgressiveBoard --------------------------
(***************************************************************************)
(* What the progressive lottery promises, without fees, balances and odds. *)
(* A board announces a prize and splits it: so much for the winner, so     *)
(* much to open the next board.  What comes in while the board stands      *)
(* belongs to the next one.  A draw pays the announced share or nothing,   *)
(* and opens the next board from what was announced and what came in.      *)
(***************************************************************************)
EXTENDS Integers

VARIABLES
    prize,      \* of the board
    promised,   \* the winner's share of it
    seed,       \* the share that opens the next board
    incoming,   \* what came in since the board was opened
    paid        \* everything winners were credited

boardVars == <<prize, promised, seed, incoming, paid>>

\* The winner gets three quarters at least; nothing is promised twice.
FairSplit ==
    /\ {prize, promised, seed, incoming} \subseteq Nat
    /\ promised + seed <= prize
    /\ 4 * promised >= 3 * prize

ComeIn ==
    /\ incoming' >= incoming
    /\ UNCHANGED <<prize, promised, seed, paid>>

OpenNext(carried) ==
    /\ prize' = carried + incoming
    /\ incoming' = 0
    /\ FairSplit'

Miss ==
    /\ OpenNext(prize)
    /\ UNCHANGED paid

Hit ==
    /\ prize > 0
    /\ paid' = paid + promised
    /\ OpenNext(seed)

BoardInit == prize = 0 /\ promised = 0 /\ seed = 0 /\ incoming = 0 /\ paid = 0

BoardNext == ComeIn \/ Miss \/ Hit

Spec == BoardInit /\ [][BoardNext]_boardVars

=============================================================================
