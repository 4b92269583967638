------------------------- MODULE PlankGuardedCrash -------------------------
(***************************************************************************)
(* contracts/PlankGuardedCrash.sol, the crash game that is deployed: a     *)
(* guardian or governance stops bets at once, an incident report of a      *)
(* stalled round stops them as well, and governance alone reopens them,    *)
(* after a delay and never during an incident.  Everything but bets is the *)
(* crash game's, with its router and lottery.  The two roles are whoever   *)
(* makes the call.                                                         *)
(***************************************************************************)
EXTENDS CasinoMoney

CONSTANT reopenDelay

ASSUME GuardAssumption == reopenDelay \in Nat \ {0}

VARIABLES
    admissionsPaused,
    reopenAt,           \* when a requested reopening may be executed, or 0
    frozenAt            \* history: when bets were last stopped

guardVars == <<admissionsPaused, reopenAt, frozenAt>>
guardedVars == <<casinoVars, guardVars>>

recoveryPending == stalledRound # 0 /\ stalledRound \notin Range(settled)

\* Bug: a reopening that was requested before is still executed.
PauseKeepsRequest ==
    /\ admissionsPaused' = TRUE
    /\ frozenAt' = now
    /\ UNCHANGED reopenAt

Pause ==
    /\ admissionsPaused' = TRUE
    /\ reopenAt' = 0
    /\ frozenAt' = now

freeze == Pause /\ UNCHANGED casinoVars

\* _beforeBet.
GuardedBet == Bet /\ ~admissionsPaused /\ Alone /\ UNCHANGED guardVars

\* Bug: the report of a stalled round is not heard.
AfterRoundStalledIgnored == UNCHANGED guardVars

\* _afterRoundStalled.
AfterRoundStalled == Pause

GuardedStall == freezeStalledRound /\ AfterRoundStalled /\ Alone

requestReopen ==
    /\ admissionsPaused
    /\ reopenAt = 0
    /\ ~recoveryPending
    /\ reopenAt' = now + reopenDelay
    /\ UNCHANGED <<casinoVars, admissionsPaused, frozenAt>>

executeReopen ==
    /\ admissionsPaused
    /\ reopenAt # 0
    /\ now >= reopenAt
    /\ ~recoveryPending
    /\ admissionsPaused' = FALSE
    /\ reopenAt' = 0
    /\ UNCHANGED <<casinoVars, frozenAt>>

-----------------------------------------------------------------------------
GuardedInit ==
    /\ CasinoInit
    /\ admissionsPaused = FALSE
    /\ reopenAt = 0
    /\ frozenAt = 0

GuardedNext ==
    \/ GuardedBet
    \/ GuardedStall
    \/ (CasinoKeep \/ CasinoMove \/ (Environment /\ Alone)) /\ UNCHANGED guardVars
    \/ freeze
    \/ requestReopen
    \/ executeReopen

GuardedSpec == GuardedInit /\ [][GuardedNext]_guardedVars

\* Somebody keeps the game going: every call is permissionless, the keeper
\* (scripts/casino-keeper.ts) is run for it, a retry that fails is made again.
\* Time passes, drand emits its rounds and the target round is relayed: each of
\* them can go on for a bounded number of steps only, so fairness of the three
\* together is fairness of each.  Nobody has to reopen anything.
FairGuardedSpec ==
    /\ GuardedSpec
    /\ WF_guardedVars(CasinoKeep /\ UNCHANGED guardVars)
    /\ WF_guardedVars(Environment /\ Alone /\ UNCHANGED guardVars)

-----------------------------------------------------------------------------
(* Correctness                                                             *)

\* While a reported round is unresolved, bets are stopped: neither a reopening
\* in progress nor the round's own end can slip past _afterRoundStalled.
HeldDuringIncident == recoveryPending => admissionsPaused

\* Bets are resumed at least reopenDelay after they were last stopped, by
\* whomever, and never during an incident: a stop cancels what was requested.
ReopenWaits ==
    [][(admissionsPaused /\ ~admissionsPaused')
          => (now >= frozenAt + reopenDelay /\ ~recoveryPending)]_guardedVars

=============================================================================
