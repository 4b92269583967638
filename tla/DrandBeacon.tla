---------------------------- MODULE DrandBeacon ----------------------------
(***************************************************************************)
(* contracts/DrandBeacon.sol: the on-chain cache of verified drand rounds, *)
(* together with the two clocks it lives between: the chain's              *)
(* block.timestamp and the drand network, which emits round r at           *)
(* genesis + (r-1)*period of WALL time whether or not anybody relays it.   *)
(*                                                                         *)
(* A transaction that reverts changes nothing, so every revert of the      *)
(* contract is a guard here.  BLS verification and keccak256 are external: *)
(* SignatureOf gives the one signature of a round, Keccak the hash.        *)
(***************************************************************************)
EXTENDS Integers

CONSTANTS
    genesisTimestamp,   \* immutable: first round's time
    period,             \* immutable: seconds between rounds
    Signatures,         \* G1 points anybody may submit
    SignatureOf(_),     \* the group's only valid signature of a round
    Keccak(_),          \* the hash stored for a signature
    NoRandomness,       \* bytes32(0): nothing stored
    MaxLag,             \* how far block.timestamp may lag behind wall time
    MaxTime             \* BOUND: the last block.timestamp explored

ASSUME BeaconAssumption ==
    /\ genesisTimestamp \in Nat
    /\ period \in Nat \ {0}
    /\ MaxLag \in Nat
    /\ MaxTime \in Nat
    /\ \A s \in Signatures : Keccak(s) # NoRandomness

\* keccak256 does not collide on the points that are submitted.
ASSUME KeccakInjective ==
    \A s, t \in Signatures : Keccak(s) = Keccak(t) => s = t

VARIABLES
    now,          \* block.timestamp
    published,    \* the latest round the drand network has emitted
    randomness    \* _randomness, its domain the rounds with a nonzero entry

beaconVars == <<now, published, randomness>>

-----------------------------------------------------------------------------
(* Views                                                                   *)

randomnessOrZero(round) ==
    IF round \in DOMAIN randomness THEN randomness[round] ELSE NoRandomness

isRoundAvailable(round) == randomnessOrZero(round) # NoRandomness

\* Bug: rounds counted from 0, as the contract once did.
currentRoundAtOneShort(timestamp) ==
    IF timestamp < genesisTimestamp
    THEN 0
    ELSE (timestamp - genesisTimestamp) \div period

currentRoundAt(timestamp) ==
    IF timestamp < genesisTimestamp
    THEN 0
    ELSE ((timestamp - genesisTimestamp) \div period) + 1

\* nextRoundAfter reverts before genesis: callers conjoin AfterGenesis.
AfterGenesis(timestamp) == timestamp >= genesisTimestamp

nextRoundAfter(timestamp) == currentRoundAt(timestamp) + 1

-----------------------------------------------------------------------------
(* The environment                                                         *)

\* drand's own convention, which the contract's currentRoundAt must match.
TimeOfRound(round) == genesisTimestamp + (round - 1) * period

Tick ==
    /\ now < MaxTime
    /\ now' = now + 1
    /\ UNCHANGED <<published, randomness>>

\* The network emits its next round once wall time, which runs at most MaxLag
\* ahead of the chain, has reached it.
PublishRound ==
    /\ TimeOfRound(published + 1) <= now + MaxLag
    /\ published' = published + 1
    /\ UNCHANGED <<now, randomness>>

-----------------------------------------------------------------------------
(* submitRound                                                             *)

ValidRound(round) == round # 0

\* Bug: the point is checked to be on the curve, the pairing is not.
VerifySingleSkipsPairing(round, signature) == round <= published

\* verifySingle: only the group can sign, and it signs a round by emitting it.
VerifySingle(round, signature) ==
    /\ round <= published
    /\ signature = SignatureOf(round)

Store(round, value) ==
    [r \in DOMAIN randomness \cup {round} |->
        IF r = round THEN value ELSE randomness[r]]

\* The same signature again is accepted and does nothing; a different one for
\* a stored round is refused before it is verified.
SubmitRound(round, signature) ==
    /\ ValidRound(round)
    /\ \/ /\ randomnessOrZero(round) = Keccak(signature)
          /\ UNCHANGED randomness
       \/ /\ randomnessOrZero(round) = NoRandomness
          /\ VerifySingle(round, signature)
          /\ randomness' = Store(round, Keccak(signature))
    /\ UNCHANGED <<now, published>>

-----------------------------------------------------------------------------
BeaconInit ==
    /\ now = 0
    /\ published = 0
    /\ randomness = [r \in {} |-> NoRandomness]

BeaconNext ==
    \/ Tick
    \/ PublishRound
    \/ \E round \in 0..published + 1, signature \in Signatures :
          SubmitRound(round, signature)

BeaconSpec == BeaconInit /\ [][BeaconNext]_beaconVars

-----------------------------------------------------------------------------
(* Correctness                                                             *)

\* The type of the clocks and of the cache.
BeaconTypeOK ==
    /\ now \in 0..MaxTime
    /\ published \in Nat
    /\ DOMAIN randomness \subseteq Nat \ {0}
    /\ \A r \in DOMAIN randomness : randomness[r] \in {Keccak(s) : s \in Signatures}

\* Whoever relays and whatever they submit, a stored value is the hash of the
\* one signature the network emitted for that very round, and is stored only
\* after it was emitted (submitRound stores nothing it has not verified).
OnlyEmittedStored ==
    \A r \in DOMAIN randomness :
        /\ r \in 1..published
        /\ randomness[r] = Keccak(SignatureOf(r))

\* "Values are never overwritten": once a round is stored, no later submission
\* changes or removes it (the replay policy of submitRound).
NeverOverwritten ==
    [][\A r \in DOMAIN randomness :
          r \in DOMAIN randomness' /\ randomness'[r] = randomness[r]]_beaconVars

\* currentRoundAt counts rounds the way drand numbers them: the round reported
\* for the chain's time has been due, the next one has not (the contract once
\* omitted the +1 and reported one less).
DrandConvention ==
    LET current == currentRoundAt(now) IN
    /\ current > 0 => TimeOfRound(current) <= now
    /\ now < TimeOfRound(current + 1)

\* A round anchored at nextRoundAfter(now) + 1, as every consumer anchors it, is
\* still unpublished even when the chain clock lags drand by a whole period
\* (the margin the comment on currentRoundAt promises).
LeadCoversLag ==
    (AfterGenesis(now) /\ MaxLag <= period)
        => published < nextRoundAfter(now) + 1

=============================================================================
