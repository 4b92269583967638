-------------------------- MODULE MarketplankVaultV3Proofs --------------------
(***************************************************************************)
(* Theorems about the vault and the beacon it draws from, for every number *)
(* of users, tokens, rounds and amounts.  IInv is the inductive invariant: *)
(* the slot, the custody index, the draw and the running batch have to be  *)
(* strengthened together, because each one's preservation needs the        *)
(* others.  The ledgers' sums (LedgerInv) and the claims of the liquidity  *)
(* providers (LpInv) are inductive on top of it; the refinement of         *)
(* CommitRevealDraw comes last.                                            *)
(***************************************************************************)
EXTENDS MarketplankVaultV3, FiniteSums, TLAPS

-----------------------------------------------------------------------------
(* The beacon: the type invariant and OnlyEmittedStored are inductive      *)
(* together; the two facts about round numbers follow from Euclidean       *)
(* division and from the network not running ahead of its clock.           *)

\* What holds in every reachable state, whichever round is relayed in whichever
\* order: types, only emitted signatures stored, and a network that has emitted
\* nothing whose time has not come on the wall clock.
BeaconInv ==
    /\ BeaconTypeOK
    /\ OnlyEmittedStored
    /\ published > 0 => TimeOfRound(published) <= now + MaxLag

LEMMA BeaconInitially == BeaconInit => BeaconInv
  BY BeaconAssumption DEF BeaconInit, BeaconInv, BeaconTypeOK, OnlyEmittedStored

\* Each step of the environment and each relayed round keeps BeaconInv.
LEMMA BeaconStep == BeaconInv /\ [BeaconNext]_beaconVars => BeaconInv'
<1> SUFFICES ASSUME BeaconInv, [BeaconNext]_beaconVars PROVE BeaconInv'
  OBVIOUS
<1> USE BeaconAssumption DEF BeaconInv, BeaconTypeOK, OnlyEmittedStored,
                             TimeOfRound, Store, ValidRound
<1>1. CASE Tick
  BY <1>1 DEF Tick
<1>2. CASE PublishRound
  BY <1>2 DEF PublishRound
<1>3. ASSUME NEW round \in 0..published + 1, NEW signature \in Signatures,
             SubmitRound(round, signature)
      PROVE  BeaconInv'
  <2>1. CASE randomness' = randomness
    BY <1>3, <2>1 DEF SubmitRound
  <2>2. CASE /\ round # 0
             /\ VerifySingle(round, signature)
             /\ randomness' = Store(round, Keccak(signature))
    BY <1>3, <2>2 DEF SubmitRound, VerifySingle
  <2> QED
    BY <1>3, <2>1, <2>2 DEF SubmitRound
<1>4. CASE UNCHANGED beaconVars
  BY <1>4 DEF beaconVars
<1> QED
  BY <1>1, <1>2, <1>3, <1>4 DEF BeaconNext

\* The cache holds only what the network emitted, for every period, lag and
\* set of submissions (submitRound's verification).
THEOREM BeaconSafety == BeaconSpec => [](BeaconTypeOK /\ OnlyEmittedStored)
<1>1. BeaconInv => BeaconTypeOK /\ OnlyEmittedStored
  BY DEF BeaconInv
<1> QED
  BY BeaconInitially, BeaconStep, <1>1, PTL DEF BeaconSpec

\* A stored round is never overwritten nor removed: the second submission of a
\* round is a no-op or refused (submitRound's replay policy).
THEOREM BeaconNeverOverwritten == BeaconSpec => NeverOverwritten
<1>1. ASSUME BeaconInv, [BeaconNext]_beaconVars
      PROVE  [\A r \in DOMAIN randomness :
                r \in DOMAIN randomness' /\ randomness'[r] = randomness[r]]_beaconVars
  <2>1. CASE Tick \/ PublishRound \/ UNCHANGED beaconVars
    BY <2>1 DEF Tick, PublishRound, beaconVars
  <2>2. ASSUME NEW round \in 0..published + 1, NEW signature \in Signatures,
               SubmitRound(round, signature)
        PROVE  \A r \in DOMAIN randomness :
                  r \in DOMAIN randomness' /\ randomness'[r] = randomness[r]
    <3>1. round \in DOMAIN randomness => randomnessOrZero(round) # NoRandomness
      BY <1>1, BeaconAssumption DEF BeaconInv, BeaconTypeOK, randomnessOrZero
    <3> QED
      BY <2>2, <3>1 DEF SubmitRound, Store
  <2> QED
    BY <1>1, <2>1, <2>2 DEF BeaconNext
<1> QED
  BY <1>1, BeaconInitially, BeaconStep, PTL DEF BeaconSpec, NeverOverwritten

-----------------------------------------------------------------------------
(* Round numbers                                                           *)

\* Euclidean division, the fact both round-number theorems rest on.
LEMMA DivisionBounds ==
    ASSUME NEW a \in Nat, NEW d \in Nat \ {0}
    PROVE  /\ a \div d \in Nat
           /\ (a \div d) * d <= a
           /\ a < (a \div d) * d + d
  OBVIOUS

\* currentRoundAt agrees with drand's numbering at every chain time.
THEOREM ConventionHolds == BeaconTypeOK => DrandConvention
<1> SUFFICES ASSUME BeaconTypeOK PROVE DrandConvention
  OBVIOUS
<1> USE BeaconAssumption DEF BeaconTypeOK
<1>1. CASE now < genesisTimestamp
  BY <1>1 DEF DrandConvention, currentRoundAt, TimeOfRound
<1>2. CASE now >= genesisTimestamp
  <2> DEFINE q == (now - genesisTimestamp) \div period
  <2>1. q \in Nat /\ q * period <= now - genesisTimestamp
           /\ now - genesisTimestamp < q * period + period
    BY <1>2, DivisionBounds
  <2>2. currentRoundAt(now) = q + 1
    BY <1>2 DEF currentRoundAt
  <2>3. /\ (q + 1 - 1) * period = q * period
        /\ (q + 1 + 1 - 1) * period = q * period + period
    BY <2>1
  <2> HIDE DEF q
  <2> QED
    BY <2>1, <2>2, <2>3 DEF DrandConvention, TimeOfRound
<1> QED
  BY <1>1, <1>2

\* A network that has emitted nothing before its time is behind the lead.
LEMMA LeadFollows == BeaconInv => LeadCoversLag
<1> SUFFICES ASSUME BeaconInv, AfterGenesis(now), MaxLag <= period,
                    published >= currentRoundAt(now) + 2
             PROVE  FALSE
  BY BeaconAssumption
     DEF LeadCoversLag, nextRoundAfter, BeaconInv, BeaconTypeOK, AfterGenesis,
         currentRoundAt
<1> USE BeaconAssumption DEF BeaconInv, BeaconTypeOK
<1> DEFINE q == (now - genesisTimestamp) \div period
<1>1. q \in Nat /\ now - genesisTimestamp < q * period + period
  BY DivisionBounds DEF AfterGenesis
<1>2. currentRoundAt(now) = q + 1
  BY DEF currentRoundAt, AfterGenesis
<1>3. published - 1 >= q + 2
  BY <1>1, <1>2
<1>4. (published - 1) * period >= (q + 2) * period
  BY <1>1, <1>3
<1>5. (q + 2) * period = q * period + period + period
  BY <1>1
<1>6. genesisTimestamp + (published - 1) * period <= now + MaxLag
  BY <1>1, <1>3 DEF TimeOfRound
<1> HIDE DEF q
<1>7. /\ q * period \in Nat
      /\ (published - 1) * period \in Int
  BY <1>1
<1> QED
  BY <1>1, <1>4, <1>5, <1>6, <1>7

\* While the chain lags by at most one period, the round a consumer anchors at
\* nextRoundAfter(now) + 1 has not been emitted, for every period and genesis.
THEOREM LeadHolds == BeaconSpec => []LeadCoversLag
  BY LeadFollows, BeaconInitially, BeaconStep, PTL DEF BeaconSpec

-----------------------------------------------------------------------------
(* The vault                                                               *)

\* A redeemTargetMany in progress holds a list of distinct tokens, all in
\* custody, and a caller that accepts them; the lock is free iff it is empty.
CallCoherent ==
    /\ call.rest = <<>> => call = NoCall
    /\ call.rest # <<>> => call.sender \in Users
    /\ \A i \in 1..Len(call.rest) : heldTokenIndex[call.rest[i]] # 0
    /\ \A i, j \in 1..Len(call.rest) : call.rest[i] = call.rest[j] => i = j

CustodyInv ==
    /\ TypeOK
    /\ Solvent
    /\ SlotCoherent
    /\ HeldCoherent
    /\ DrawHonourable
    /\ CallCoherent

MoneyInv == EthBacked /\ ShareBacked

IInv == CustodyInv /\ MoneyInv

-----------------------------------------------------------------------------
(* Arithmetic                                                              *)

\* A remainder is below its divisor.
LEMMA ModBounds ==
    ASSUME NEW a \in Nat, NEW d \in Nat \ {0}
    PROVE  a % d \in 0..d - 1
  OBVIOUS

\* Floor division of naturals, and the bound a product gives on it.
LEMMA DivBound ==
    ASSUME NEW a \in Nat, NEW d \in Nat \ {0}, NEW c \in Nat, a <= c * d
    PROVE  a \div d \in 0..c
<1>1. a \div d \in Nat /\ (a \div d) * d <= a
  OBVIOUS
<1>2. CASE a \div d <= c
  BY <1>1, <1>2
<1>3. CASE a \div d >= c + 1
  <2>1. (a \div d) * d >= (c + 1) * d
    BY <1>1, <1>3
  <2>2. (c + 1) * d = c * d + d
    OBVIOUS
  <2>3. c * d \in Nat
    OBVIOUS
  <2> QED
    BY <1>1, <2>1, <2>2, <2>3
<1> QED
  BY <1>1, <1>2, <1>3

LEMMA DivNat ==
    ASSUME NEW a \in Nat, NEW d \in Nat \ {0}
    PROVE  a \div d \in Nat
  OBVIOUS

LEMMA MulNat ==
    ASSUME NEW a \in Nat, NEW b \in Nat
    PROVE  a * b \in Nat
  OBVIOUS

\* Multiplication is monotone in its first factor.
LEMMA MulMono ==
    ASSUME NEW a \in Nat, NEW b \in Nat, NEW c \in Nat, a <= b
    PROVE  a * c <= b * c
  OBVIOUS

\* A trade never takes more than the reserve it is paid from (buyShares and
\* sellShares price with AmountOut).
LEMMA AmountOutBounded ==
    ASSUME NEW x \in Nat, NEW rin \in Nat \ {0}, NEW rout \in Nat
    PROVE  AmountOut(x, rin, rout) \in 0..rout
<1> USE VaultAssumption
<1> DEFINE n == NetOfFee(x)
<1>1. n \in Nat
  <2>1. x * (BPS_DENOMINATOR - swapFeeBps) \in Nat
    BY MulNat
  <2> QED
    BY <2>1, DivNat DEF NetOfFee
<1> HIDE DEF n
<1>2. n * rout <= (rin + n) * rout
  BY <1>1, MulMono
<1>3. (rin + n) * rout = rout * (rin + n)
  BY <1>1
<1>4. n * rout \in Nat
  BY <1>1, MulNat
<1>5. (n * rout) \div (rin + n) \in 0..rout
  BY <1>1, <1>2, <1>3, <1>4, DivBound
<1> QED
  BY <1>5 DEF AmountOut, n

-----------------------------------------------------------------------------
(* Custody: adding, removing and pinning                                   *)

\* Swap-and-pop keeps the slots and their index inverse, and takes out exactly
\* the one token.
LEMMA RemoveKeepsHeld ==
    ASSUME TypeOK, HeldCoherent, NEW tokenId \in TokenIds, NEW to \in Accounts,
           RemoveHeldToken(tokenId), TransferFrom(to, tokenId)
    PROVE  /\ HeldCoherent'
           /\ heldTokenIds' \in Seq(TokenIds)
           /\ heldTokenIndex' \in [TokenIds -> Nat]
           /\ ownerOf' \in [TokenIds -> Accounts]
           /\ Len(heldTokenIds) > 0
           /\ Len(heldTokenIds') = Len(heldTokenIds) - 1
           /\ \A t \in TokenIds \ {tokenId} :
                 heldTokenIndex[t] # 0 => heldTokenIndex'[t] # 0
<1> DEFINE idx == heldTokenIndex[tokenId]
           last == Len(heldTokenIds)
<1>0. /\ heldTokenIds \in Seq(TokenIds)
      /\ heldTokenIndex \in [TokenIds -> Nat]
      /\ ownerOf \in [TokenIds -> Accounts]
  BY DEF TypeOK
<1>1. /\ idx \in 1..last
      /\ heldTokenIds[idx] = tokenId
      /\ last \in Nat \ {0}
  BY <1>0 DEF HeldCoherent, RemoveHeldToken
<1>2. \A i \in 1..last : heldTokenIds[i] \in TokenIds /\ heldTokenIndex[heldTokenIds[i]] = i
  BY <1>0 DEF HeldCoherent
<1>3. heldTokenIds' = [i \in 1..last - 1 |->
                          IF i = idx THEN heldTokenIds[last] ELSE heldTokenIds[i]]
  BY DEF RemoveHeldToken
<1>4. heldTokenIndex' = [heldTokenIndex EXCEPT ![heldTokenIds[last]] = idx,
                                               ![tokenId] = 0]
  BY DEF RemoveHeldToken
<1>5. heldTokenIds' \in Seq(TokenIds) /\ Len(heldTokenIds') = last - 1
  <2>1. \A i \in 1..last - 1 :
            (IF i = idx THEN heldTokenIds[last] ELSE heldTokenIds[i]) \in TokenIds
    BY <1>1, <1>2
  <2> QED
    BY <1>1, <1>3, <2>1
<1> HIDE DEF last
<1>6. heldTokenIndex' \in [TokenIds -> Nat]
  BY <1>0, <1>1, <1>4
<1>7. ownerOf' = [ownerOf EXCEPT ![tokenId] = to]
  BY DEF TransferFrom
<1>8. ASSUME NEW t \in TokenIds
      PROVE  heldTokenIndex'[t] = IF t = tokenId THEN 0
                                  ELSE IF t = heldTokenIds[last] THEN idx
                                  ELSE heldTokenIndex[t]
  BY <1>0, <1>1, <1>2, <1>4
<1>9. ASSUME NEW i \in 1..last - 1
      PROVE  heldTokenIndex'[heldTokenIds'[i]] = i
  <2>1. CASE i = idx
    <3>1. heldTokenIds'[i] = heldTokenIds[last] /\ heldTokenIds[last] # tokenId
      BY <1>1, <1>2, <1>3, <1>9, <2>1
    <3> QED
      BY <1>1, <1>2, <1>8, <2>1, <3>1
  <2>2. CASE i # idx
    <3>1. /\ heldTokenIds'[i] = heldTokenIds[i]
          /\ heldTokenIds[i] \in TokenIds
          /\ heldTokenIndex[heldTokenIds[i]] = i
          /\ heldTokenIds[i] # tokenId
          /\ heldTokenIds[i] # heldTokenIds[last]
      BY <1>1, <1>2, <1>3, <1>9, <2>2
    <3> QED
      BY <1>8, <3>1
  <2> QED
    BY <2>1, <2>2
<1>10. ASSUME NEW t \in TokenIds, heldTokenIndex'[t] # 0
       PROVE  /\ heldTokenIndex'[t] \in 1..last - 1
              /\ heldTokenIds'[heldTokenIndex'[t]] = t
              /\ ownerOf'[t] = Vault
  <2>1. t # tokenId /\ ownerOf'[t] = ownerOf[t]
    BY <1>0, <1>7, <1>8, <1>10
  <2>2. CASE t = heldTokenIds[last]
    <3>1. heldTokenIndex'[t] = idx /\ heldTokenIndex[t] = last
      BY <1>1, <1>2, <1>8, <2>1, <2>2
    <3>2. idx # last
      BY <1>1, <2>1, <2>2
    <3>3. heldTokenIds'[idx] = t /\ ownerOf[t] = Vault
      BY <1>1, <1>3, <2>2, <3>1, <3>2 DEF HeldCoherent
    <3> QED
      BY <1>1, <2>1, <3>1, <3>2, <3>3
  <2>3. CASE t # heldTokenIds[last]
    <3>1. heldTokenIndex'[t] = heldTokenIndex[t]
      BY <1>8, <2>1, <2>3
    <3>2. /\ heldTokenIndex[t] \in 1..last
          /\ heldTokenIds[heldTokenIndex[t]] = t
          /\ ownerOf[t] = Vault
      BY <1>10, <3>1 DEF HeldCoherent, last
    <3>3. heldTokenIndex[t] # last /\ heldTokenIndex[t] # idx
      BY <1>1, <2>1, <2>3, <3>2
    <3> QED
      BY <1>1, <1>3, <2>1, <3>1, <3>2, <3>3
  <2> QED
    BY <2>2, <2>3
<1>11. ASSUME NEW t \in TokenIds \ {tokenId}, heldTokenIndex[t] # 0
       PROVE  heldTokenIndex'[t] # 0
  BY <1>1, <1>8, <1>11
<1>12. HeldCoherent'
  BY <1>5, <1>9, <1>10 DEF HeldCoherent
<1>13. ownerOf' \in [TokenIds -> Accounts]
  BY <1>0, <1>7
<1>14. \A t \in TokenIds \ {tokenId} :
          heldTokenIndex[t] # 0 => heldTokenIndex'[t] # 0
  BY <1>11
<1> QED
  BY <1>1, <1>14, <1>5, <1>6, <1>12, <1>13 DEF last

\* Appending a batch of distinct tokens keeps the slots and their index inverse
\* and moves no token that was held.
LEMMA AddKeepsHeld ==
    ASSUME TypeOK, HeldCoherent, NEW tokens \in Seq(TokenIds), AddHeldTokens(tokens),
           \A i, j \in 1..Len(tokens) : tokens[i] = tokens[j] => i = j,
           ownerOf' = [t \in TokenIds |->
                          IF \E i \in 1..Len(tokens) : tokens[i] = t
                          THEN Vault ELSE ownerOf[t]]
    PROVE  /\ HeldCoherent'
           /\ heldTokenIds' \in Seq(TokenIds)
           /\ heldTokenIndex' \in [TokenIds -> Nat]
           /\ ownerOf' \in [TokenIds -> Accounts]
           /\ Len(heldTokenIds') = Len(heldTokenIds) + Len(tokens)
           /\ \A t \in TokenIds : heldTokenIndex[t] # 0 => heldTokenIndex'[t] # 0
<1> DEFINE last == Len(heldTokenIds)
<1>0. /\ heldTokenIds \in Seq(TokenIds)
      /\ heldTokenIndex \in [TokenIds -> Nat]
      /\ ownerOf \in [TokenIds -> Accounts]
      /\ last \in Nat /\ Len(tokens) \in Nat
  BY DEF TypeOK
<1>1. /\ heldTokenIds' = heldTokenIds \o tokens
      /\ \A i \in 1..Len(tokens) : heldTokenIndex[tokens[i]] = 0
      /\ heldTokenIndex' =
            [t \in TokenIds |->
              IF \E i \in 1..Len(tokens) : tokens[i] = t
              THEN last + (CHOOSE i \in 1..Len(tokens) : tokens[i] = t)
              ELSE heldTokenIndex[t]]
  BY DEF AddHeldTokens
<1>2. /\ heldTokenIds' \in Seq(TokenIds)
      /\ Len(heldTokenIds') = last + Len(tokens)
      /\ \A i \in 1..last : heldTokenIds'[i] = heldTokenIds[i]
      /\ \A i \in 1..Len(tokens) : heldTokenIds'[last + i] = tokens[i]
  BY <1>0, <1>1
<1>3. ASSUME NEW i \in 1..Len(tokens)
      PROVE  tokens[i] \in TokenIds /\ heldTokenIndex'[tokens[i]] = last + i
  <2>1. tokens[i] \in TokenIds
    OBVIOUS
  <2>2. (CHOOSE j \in 1..Len(tokens) : tokens[j] = tokens[i]) = i
    OBVIOUS
  <2> QED
    BY <1>1, <2>1, <2>2
<1>4. ASSUME NEW t \in TokenIds, ~ \E i \in 1..Len(tokens) : tokens[i] = t
      PROVE  heldTokenIndex'[t] = heldTokenIndex[t] /\ ownerOf'[t] = ownerOf[t]
  BY <1>1, <1>4
<1>5. heldTokenIndex' \in [TokenIds -> Nat]
  <2>1. ASSUME NEW t \in TokenIds PROVE heldTokenIndex'[t] \in Nat
    <3>1. ASSUME NEW i \in 1..Len(tokens), tokens[i] = t
          PROVE  heldTokenIndex'[t] \in Nat
      <4>1. heldTokenIndex'[t] = last + i
        BY <1>3, <3>1
      <4>2. i \in Nat
        BY <1>0
      <4> QED
        BY <1>0, <4>1, <4>2
    <3>2. CASE ~ \E i \in 1..Len(tokens) : tokens[i] = t
      BY <1>0, <1>4, <3>2
    <3> QED
      BY <3>1, <3>2
  <2> QED
    BY <1>1, <2>1
<1>6. ownerOf' \in [TokenIds -> Accounts]
  BY <1>0 DEF Accounts
<1>7. ASSUME NEW i \in 1..Len(heldTokenIds')
      PROVE  heldTokenIndex'[heldTokenIds'[i]] = i
  <2>1. CASE i \in 1..last
    <3>1. heldTokenIds[i] \in TokenIds /\ heldTokenIndex[heldTokenIds[i]] = i
      BY <1>0, <2>1 DEF HeldCoherent
    <3>2. ~ \E j \in 1..Len(tokens) : tokens[j] = heldTokenIds[i]
      BY <1>1, <2>1, <3>1
    <3> QED
      BY <1>2, <1>4, <2>1, <3>1, <3>2
  <2>2. CASE i \notin 1..last
    <3>1. i - last \in 1..Len(tokens) /\ last + (i - last) = i
      BY <1>0, <1>2, <2>2
    <3> QED
      BY <1>2, <1>3, <3>1
  <2> QED
    BY <2>1, <2>2
<1>8. ASSUME NEW t \in TokenIds, heldTokenIndex'[t] # 0
      PROVE  /\ heldTokenIndex'[t] \in 1..Len(heldTokenIds')
             /\ heldTokenIds'[heldTokenIndex'[t]] = t
             /\ ownerOf'[t] = Vault
  <2>1. CASE \E i \in 1..Len(tokens) : tokens[i] = t
    <3>1. PICK i \in 1..Len(tokens) : tokens[i] = t
      BY <2>1
    <3>2. heldTokenIndex'[t] = last + i /\ heldTokenIds'[last + i] = t
      BY <1>2, <1>3, <3>1
    <3>3. last + i \in 1..Len(heldTokenIds')
      BY <1>0, <1>2
    <3>4. ownerOf'[t] = Vault
      BY <2>1
    <3> QED
      BY <3>2, <3>3, <3>4
  <2>2. CASE ~ \E i \in 1..Len(tokens) : tokens[i] = t
    <3>1. heldTokenIndex'[t] = heldTokenIndex[t] /\ ownerOf'[t] = ownerOf[t]
      BY <1>4, <2>2
    <3>2. /\ heldTokenIndex[t] \in 1..last
          /\ heldTokenIds[heldTokenIndex[t]] = t
          /\ ownerOf[t] = Vault
      BY <1>8, <3>1 DEF HeldCoherent
    <3>3. heldTokenIds'[heldTokenIndex[t]] = t
      BY <1>2, <3>2
    <3>4. heldTokenIndex[t] \in 1..Len(heldTokenIds')
      BY <1>0, <1>2, <3>2
    <3> QED
      BY <3>1, <3>2, <3>3, <3>4
  <2> QED
    BY <2>1, <2>2
<1>9. HeldCoherent'
  BY <1>7, <1>8 DEF HeldCoherent
<1>10. \A t \in TokenIds : heldTokenIndex[t] # 0 => heldTokenIndex'[t] # 0
  BY <1>0, <1>1, <1>4
<1> QED
  BY <1>2, <1>5, <1>6, <1>9, <1>10

\* What _pinPendingDraw may do to the requests: nothing but give the pending one
\* a token that is in custody, when its round has been relayed.
LEMMA PinFacts ==
    ASSUME CustodyInv
    PROVE  /\ AfterPin \in [Users -> Requests]
           /\ \A u \in Users :
                /\ AfterPin[u].active = redeemRequests[u].active
                /\ AfterPin[u].frozenLen = redeemRequests[u].frozenLen
                /\ ~redeemRequests[u].active => AfterPin[u] = NoRequest
                /\ redeemRequests[u].pinned => AfterPin[u] = redeemRequests[u]
                /\ ~AfterPin[u].pinned => AfterPin[u] = redeemRequests[u]
                /\ (AfterPin[u].active /\ AfterPin[u].pinned) =>
                      /\ AfterPin[u].drawnTokenId \in TokenIds
                      /\ heldTokenIndex[AfterPin[u].drawnTokenId] # 0
<1> USE VaultAssumption
<1>1. /\ redeemRequests \in [Users -> Requests]
      /\ heldTokenIds \in Seq(TokenIds)
      /\ TokenIds \subseteq Nat
      /\ NoAccount \notin Users
      /\ pendingRequester \in Users \cup {NoAccount}
  BY DEF CustodyInv, TypeOK, Accounts
<1>2. \A u \in Users :
        /\ ~redeemRequests[u].active => redeemRequests[u] = NoRequest
        /\ redeemRequests[u].active => pendingRequester = u
        /\ pendingRequester = u => redeemRequests[u].active
  BY DEF CustodyInv, SlotCoherent
<1>3. \A u \in Users : (redeemRequests[u].active /\ redeemRequests[u].pinned) =>
        /\ redeemRequests[u].drawnTokenId \in TokenIds
        /\ heldTokenIndex[redeemRequests[u].drawnTokenId] # 0
  BY DEF CustodyInv, DrawHonourable
<1>4. CASE ~Pinnable
  BY <1>1, <1>2, <1>3, <1>4 DEF AfterPin
<1>5. CASE Pinnable
  <2> DEFINE p == pendingRequester
             seed == randomnessOrZero(redeemRequests[p].targetRound)
             drawn == heldTokenIds[DrawnSlot(seed, p)]
  <2>1. p \in Users /\ redeemRequests[p].active /\ ~redeemRequests[p].pinned
    BY <1>1, <1>2, <1>5 DEF Pinnable
  <2>2. redeemRequests[p].frozenLen \in 1..Len(heldTokenIds)
    BY <2>1 DEF CustodyInv, DrawHonourable
  <2>3. DrawWord(seed, p) \in Nat
    <3>1. seed \in {Keccak(x) : x \in Signatures}
      BY <1>5 DEF Pinnable, isRoundAvailable, randomnessOrZero, CustodyInv, TypeOK,
                  BeaconTypeOK
    <3> QED
      BY <2>1, <3>1
  <2>4. DrawnSlot(seed, p) \in 1..Len(heldTokenIds)
    <3> DEFINE w == DrawWord(seed, p)
               f == redeemRequests[p].frozenLen
    <3>1. w \in Nat /\ f \in Nat \ {0} /\ f <= Len(heldTokenIds) /\ Len(heldTokenIds) \in Nat
      BY <1>1, <2>2, <2>3
    <3>2. DrawnSlot(seed, p) = 1 + (w % f)
      BY DEF DrawnSlot
    <3> HIDE DEF w, f
    <3>3. w % f \in 0..f - 1
      BY <3>1, ModBounds
    <3> HIDE DEF seed, p
    <3> QED
      BY <3>1, <3>2, <3>3
  <2>5. drawn \in TokenIds /\ heldTokenIndex[drawn] # 0
    BY <1>1, <2>4 DEF CustodyInv, HeldCoherent
  <2>6. AfterPin = [redeemRequests EXCEPT ![p].pinned = TRUE, ![p].drawnTokenId = drawn]
    BY <1>5 DEF AfterPin
  <2> HIDE DEF p, seed, drawn
  <2>7. \A u \in Users : u # p => AfterPin[u] = redeemRequests[u]
    BY <1>1, <2>1, <2>6
  <2>8. AfterPin[p] = [redeemRequests[p] EXCEPT !.pinned = TRUE, !.drawnTokenId = drawn]
    BY <1>1, <2>1, <2>6
  <2>9. AfterPin \in [Users -> Requests]
    BY <1>1, <2>1, <2>5, <2>6 DEF Requests
  <2>10. /\ AfterPin[p].active = redeemRequests[p].active
         /\ AfterPin[p].frozenLen = redeemRequests[p].frozenLen
         /\ AfterPin[p].pinned
         /\ AfterPin[p].drawnTokenId = drawn
    BY <1>1, <2>1, <2>8 DEF Requests
  <2> QED
    BY <1>1, <1>2, <1>3, <2>1, <2>5, <2>7, <2>9, <2>10
<1> QED
  BY <1>4, <1>5

-----------------------------------------------------------------------------
(* Ledgers                                                                 *)

LEMMA MintFacts ==
    ASSUME TypeOK, NEW to \in Users, NEW a \in Nat, Mint(to, a)
    PROVE  /\ balanceOf' \in [Accounts -> Nat]
           /\ totalSupply' = totalSupply + a
           /\ balanceOf'[Vault] = balanceOf[Vault]
  BY VaultAssumption DEF TypeOK, Mint, Accounts

LEMMA BurnFacts ==
    ASSUME TypeOK, NEW from \in Users, NEW a \in Nat, Burn(from, a)
    PROVE  /\ balanceOf' \in [Accounts -> Nat]
           /\ totalSupply' = totalSupply - a
           /\ balanceOf'[Vault] = balanceOf[Vault]
  BY VaultAssumption DEF TypeOK, Burn, Accounts

LEMMA TransferFacts ==
    ASSUME TypeOK, NEW from \in Accounts, NEW to \in Accounts, NEW a \in Nat,
           Transfer(from, to, a)
    PROVE  /\ balanceOf' \in [Accounts -> Nat]
           /\ totalSupply' = totalSupply
           /\ (from = Vault /\ to # Vault) => balanceOf'[Vault] = balanceOf[Vault] - a
           /\ (from # Vault /\ to = Vault) => balanceOf'[Vault] = balanceOf[Vault] + a
           /\ from # Vault => balanceOf'[Vault] >= balanceOf[Vault]
<1>1. /\ balanceOf \in [Accounts -> Nat]
      /\ Vault \in Accounts
      /\ a <= balanceOf[from]
      /\ balanceOf' = [balanceOf EXCEPT ![from] = @ - a, ![to] = @ + a]
      /\ totalSupply' = totalSupply
  BY DEF TypeOK, Transfer, Accounts
<1>2. CASE from = to
  <2>1. \A x \in Accounts : balanceOf'[x] = balanceOf[x]
    BY <1>1, <1>2
  <2> QED
    BY <1>1, <1>2, <2>1
<1>3. CASE from # to
  <2>1. \A x \in Accounts : balanceOf'[x] = IF x = to THEN balanceOf[x] + a
                                            ELSE IF x = from THEN balanceOf[x] - a
                                            ELSE balanceOf[x]
    BY <1>1, <1>3
  <2>2. \A x \in Accounts : balanceOf'[x] \in Nat
    BY <1>1, <1>3, <2>1
  <2> QED
    BY <1>1, <1>3, <2>1, <2>2
<1> QED
  BY <1>2, <1>3

\* A fee is booked only together with the ETH that pays it.
LEMMA FeeFacts ==
    ASSUME TypeOK, EthBacked, NEW fee \in Nat, CollectFee(fee), ethReserve' = ethReserve
    PROVE  accruedFees' \in Nat /\ ethBalance' \in 0..MaxEth /\ EthBacked'
  BY VaultAssumption DEF TypeOK, EthBacked, CollectFee, Receive

LEMMA SharesForNat ==
    ASSUME NEW n \in Nat
    PROVE  SharesFor(n) \in Nat /\ SharesFor(n) = n * SHARE_UNIT
  BY VaultAssumption DEF SharesFor

\* The backing equation survives when supply, claims and tokens move together.
LEMMA BackingMoves ==
    ASSUME NEW supply \in Int, NEW claims \in Int, NEW tokens \in Int,
           NEW ds \in Int, NEW dc \in Int, NEW dt \in Int,
           supply + claims * SHARE_UNIT = tokens * SHARE_UNIT, ds + dc = dt
    PROVE  (supply + ds * SHARE_UNIT) + (claims + dc) * SHARE_UNIT
              = (tokens + dt) * SHARE_UNIT
<1>1. SHARE_UNIT \in Int
  BY VaultAssumption
<1>2. (claims + dc) * SHARE_UNIT = claims * SHARE_UNIT + dc * SHARE_UNIT
  BY <1>1
<1>3. (tokens + dt) * SHARE_UNIT = tokens * SHARE_UNIT + dt * SHARE_UNIT
  BY <1>1
<1>4. dt * SHARE_UNIT = ds * SHARE_UNIT + dc * SHARE_UNIT
  BY <1>1
<1>5. /\ claims * SHARE_UNIT \in Int /\ dc * SHARE_UNIT \in Int
      /\ tokens * SHARE_UNIT \in Int /\ ds * SHARE_UNIT \in Int
  BY <1>1
<1> QED
  BY <1>2, <1>3, <1>4, <1>5

\* While one share's worth of custody is left unclaimed, there is that much
\* supply to burn.
LEMMA SupplyCovers ==
    ASSUME NEW supply \in Int, NEW claims \in Int, NEW tokens \in Int, NEW n \in Nat,
           supply + claims * SHARE_UNIT = tokens * SHARE_UNIT, tokens >= claims + n
    PROVE  supply - n * SHARE_UNIT >= 0
<1>1. SHARE_UNIT \in Nat
  BY VaultAssumption
<1>2. PICK k \in Nat : tokens = claims + n + k
  <2>1. tokens - claims - n \in Nat
    OBVIOUS
  <2>2. tokens = claims + n + (tokens - claims - n)
    OBVIOUS
  <2> QED
    BY <2>1, <2>2
<1>3. tokens * SHARE_UNIT = claims * SHARE_UNIT + n * SHARE_UNIT + k * SHARE_UNIT
  BY <1>1, <1>2
<1>4. /\ k * SHARE_UNIT \in Nat /\ claims * SHARE_UNIT \in Int
      /\ n * SHARE_UNIT \in Nat
  BY <1>1
<1> QED
  BY <1>3, <1>4

-----------------------------------------------------------------------------
(* Frames                                                                  *)

LEMMA BeaconFrame ==
    ASSUME BeaconTypeOK, UNCHANGED beaconVars PROVE BeaconTypeOK'
  BY DEF BeaconTypeOK, beaconVars

\* A step that touches neither custody nor the slot nor the supply.
LEMMA CustodyFrame ==
    ASSUME CustodyInv, TypeOK', UNCHANGED <<heldVars, slotVars, call>>,
           totalSupply' = totalSupply
    PROVE  CustodyInv'
<1>1. Solvent'
  BY DEF CustodyInv, Solvent, heldVars, slotVars
<1>2. SlotCoherent'
  BY DEF CustodyInv, SlotCoherent, slotVars
<1>3. HeldCoherent'
  BY DEF CustodyInv, HeldCoherent, heldVars
<1>4. DrawHonourable'
  BY DEF CustodyInv, DrawHonourable, heldVars, slotVars
<1>5. CallCoherent'
  BY DEF CustodyInv, CallCoherent, heldVars
<1> QED
  BY <1>1, <1>2, <1>3, <1>4, <1>5 DEF CustodyInv

-----------------------------------------------------------------------------
(* Custody actions                                                         *)

LEMMA TakeInStep ==
    ASSUME IInv, NEW u \in Users, NEW tokens \in Seq(TokenIds), TakeIn(u, tokens)
    PROVE  IInv'
<1> USE VaultAssumption
<1> DEFINE n == Len(tokens)
<1>1. /\ TypeOK /\ HeldCoherent /\ Solvent /\ EthBacked /\ ShareBacked /\ CustodyInv
      /\ n \in Nat
  BY DEF IInv, CustodyInv, MoneyInv
<1>2. /\ HeldCoherent'
      /\ heldTokenIds' \in Seq(TokenIds)
      /\ heldTokenIndex' \in [TokenIds -> Nat]
      /\ ownerOf' \in [TokenIds -> Accounts]
      /\ Len(heldTokenIds') = Len(heldTokenIds) + n
      /\ \A t \in TokenIds : heldTokenIndex[t] # 0 => heldTokenIndex'[t] # 0
  BY <1>1, AddKeepsHeld DEF TakeIn
<1>3. SharesFor(n) \in Nat /\ SharesFor(n) = n * SHARE_UNIT
  BY <1>1, SharesForNat
<1>4. /\ balanceOf' \in [Accounts -> Nat]
      /\ totalSupply' = totalSupply + n * SHARE_UNIT
      /\ balanceOf'[Vault] = balanceOf[Vault]
  BY <1>1, <1>3, MintFacts DEF TakeIn
<1>5. mintFeeWei * n \in Nat
  BY <1>1, MulNat
<1>6. accruedFees' \in Nat /\ ethBalance' \in 0..MaxEth /\ EthBacked'
  BY <1>1, <1>5, FeeFacts DEF TakeIn, poolVars
<1>7. /\ redeemRequests' = AfterPin
      /\ UNCHANGED <<beaconVars, poolVars, pendingRedeemCount, pendingRequester, call>>
      /\ call = NoCall
  BY DEF TakeIn, NotEntered
<1>8. totalSupply' \in Nat
  <2>1. totalSupply \in Nat
    BY <1>1 DEF TypeOK
  <2>2. n * SHARE_UNIT \in Nat
    BY <1>3
  <2> QED
    BY <1>4, <2>1, <2>2
<1>9. TypeOK'
  BY <1>1, <1>2, <1>4, <1>6, <1>7, <1>8, BeaconFrame, PinFacts DEF TypeOK, poolVars
<1>10. Solvent'
  <2> DEFINE claims == pendingRedeemCount + Len(call.rest)
             tokensHeld == Len(heldTokenIds)
  <2>1. tokensHeld \in Int /\ totalSupply \in Int /\ claims \in Int
    BY <1>1, <1>7 DEF TypeOK, NoCall
  <2>2. totalSupply + claims * SHARE_UNIT = tokensHeld * SHARE_UNIT
    BY <1>1 DEF Solvent
  <2>3. /\ totalSupply' = totalSupply + n * SHARE_UNIT
        /\ pendingRedeemCount' + Len(call'.rest) = claims
        /\ Len(heldTokenIds') = tokensHeld + n
    BY <1>2, <1>4, <1>7
  <2> HIDE DEF claims, tokensHeld, n
  <2>4. (totalSupply + n * SHARE_UNIT) + (claims + 0) * SHARE_UNIT
          = (tokensHeld + n) * SHARE_UNIT
    BY <1>1, <2>1, <2>2, BackingMoves
  <2> QED
    BY <2>1, <2>3, <2>4 DEF Solvent
<1>11. SlotCoherent'
  BY <1>1, <1>7, PinFacts DEF SlotCoherent, CustodyInv
<1>12. DrawHonourable'
  <2> SUFFICES ASSUME NEW v \in Users, AfterPin[v].active
               PROVE  IF AfterPin[v].pinned
                      THEN /\ AfterPin[v].drawnTokenId \in TokenIds
                           /\ heldTokenIndex'[AfterPin[v].drawnTokenId] # 0
                      ELSE AfterPin[v].frozenLen \in 1..Len(heldTokenIds')
    BY <1>7 DEF DrawHonourable, NoCall
  <2>1. CASE AfterPin[v].pinned
    BY <1>1, <1>2, <2>1, PinFacts
  <2>2. CASE ~AfterPin[v].pinned
    <3>1. redeemRequests[v].active /\ ~redeemRequests[v].pinned
             /\ AfterPin[v].frozenLen = redeemRequests[v].frozenLen
      BY <1>1, <2>2, PinFacts
    <3>2. redeemRequests[v].frozenLen \in 1..Len(heldTokenIds)
      BY <1>1, <3>1 DEF CustodyInv, DrawHonourable
    <3>3. Len(heldTokenIds) \in Nat
      BY <1>1 DEF TypeOK
    <3> QED
      BY <1>1, <1>2, <2>2, <3>1, <3>2, <3>3
  <2> QED
    BY <2>1, <2>2
<1>13. CallCoherent'
  BY <1>7 DEF CallCoherent, NoCall
<1>14. ShareBacked'
  BY <1>1, <1>4, <1>7 DEF ShareBacked, poolVars
<1> QED
  BY <1>2, <1>6, <1>9, <1>10, <1>11, <1>12, <1>13, <1>14 DEF IInv, CustodyInv, MoneyInv

LEMMA RequestStep ==
    ASSUME IInv, NEW u \in Users, requestRandomRedeem(u)
    PROVE  IInv'
<1> USE VaultAssumption
<1>1. /\ TypeOK /\ HeldCoherent /\ Solvent /\ EthBacked /\ ShareBacked /\ SlotCoherent
  BY DEF IInv, CustodyInv, MoneyInv
<1>2. /\ call = NoCall
      /\ pendingRequester = NoAccount /\ pendingRedeemCount = 0
      /\ pendingRequester' = u /\ pendingRedeemCount' = 1
      /\ Len(heldTokenIds) \in Nat /\ Len(heldTokenIds) > 0
      /\ UNCHANGED <<beaconVars, poolVars, heldVars, call>>
  BY <1>1 DEF requestRandomRedeem, NotEntered, SlotCoherent, TypeOK
<1> DEFINE req == [targetRound |-> TargetRound, frozenLen |-> Len(heldTokenIds),
                   active |-> TRUE, pinned |-> FALSE, drawnTokenId |-> 0]
<1>3. redeemRequests' = [redeemRequests EXCEPT ![u] = req]
  BY DEF requestRandomRedeem
<1>4. TargetRound \in Nat
  <2>1. now - genesisTimestamp \in Nat /\ now \in Nat /\ genesisTimestamp \in Nat
    BY <1>1, BeaconAssumption DEF requestRandomRedeem, AfterGenesis, TypeOK, BeaconTypeOK
  <2>2. (now - genesisTimestamp) \div period \in Nat
    BY <2>1, DivNat, BeaconAssumption
  <2>3. ~(now < genesisTimestamp)
    BY <2>1
  <2> QED
    BY <2>2, <2>3 DEF TargetRound, nextRoundAfter, currentRoundAt
<1>5. /\ balanceOf' \in [Accounts -> Nat]
      /\ totalSupply' = totalSupply - SHARE_UNIT
      /\ balanceOf'[Vault] = balanceOf[Vault]
  BY <1>1, BurnFacts DEF requestRandomRedeem
<1>6. accruedFees' \in Nat /\ ethBalance' \in 0..MaxEth /\ EthBacked'
  BY <1>1, FeeFacts DEF requestRandomRedeem, poolVars
<1>7. /\ totalSupply \in Int
      /\ totalSupply + 0 * SHARE_UNIT = Len(heldTokenIds) * SHARE_UNIT
  BY <1>1, <1>2 DEF Solvent, TypeOK, NoCall
<1>8. totalSupply' \in Nat
  <2>1. totalSupply - 1 * SHARE_UNIT >= 0
    BY <1>2, <1>7, SupplyCovers
  <2> QED
    BY <1>5, <1>7, <2>1
<1>9. redeemRequests' \in [Users -> Requests]
  BY <1>1, <1>2, <1>3, <1>4 DEF TypeOK, Requests
<1>10. TypeOK'
  BY <1>1, <1>2, <1>5, <1>6, <1>8, <1>9, BeaconFrame DEF TypeOK, poolVars, heldVars
<1>11. Solvent'
  <2>1. (totalSupply + (0 - 1) * SHARE_UNIT) + (0 + 1) * SHARE_UNIT
          = (Len(heldTokenIds) + 0) * SHARE_UNIT
    BY <1>2, <1>7, BackingMoves
  <2>2. /\ totalSupply' = totalSupply + (0 - 1) * SHARE_UNIT
        /\ Len(heldTokenIds) + 0 = Len(heldTokenIds)
        /\ pendingRedeemCount' + Len(call'.rest) = 0 + 1
    BY <1>2, <1>5, <1>7 DEF NoCall
  <2> QED
    BY <1>2, <2>1, <2>2 DEF Solvent, heldVars
<1>12. SlotCoherent'
  <2>1. \A v \in Users : ~redeemRequests[v].active /\ redeemRequests[v] = NoRequest
    BY <1>1, <1>2 DEF SlotCoherent, Accounts
  <2>2. redeemRequests'[u] = req /\ \A v \in Users : v # u => redeemRequests'[v] = NoRequest
    BY <1>1, <1>3, <2>1 DEF TypeOK
  <2> QED
    BY <1>2, <2>1, <2>2 DEF SlotCoherent, Accounts, NoRequest
<1>13. HeldCoherent'
  BY <1>1, <1>2 DEF HeldCoherent, heldVars
<1>14. DrawHonourable'
  <2>1. \A v \in Users : ~redeemRequests[v].active
    BY <1>1, <1>2 DEF SlotCoherent, Accounts
  <2>2. redeemRequests'[u] = req /\ \A v \in Users : v # u => ~redeemRequests'[v].active
    BY <1>1, <1>3, <2>1 DEF TypeOK
  <2>3. ~req.pinned /\ req.frozenLen \in 1..Len(heldTokenIds') /\ call'.rest = <<>>
    BY <1>2 DEF heldVars, NoCall
  <2> QED
    BY <2>2, <2>3 DEF DrawHonourable
<1>15. CallCoherent'
  BY <1>2 DEF CallCoherent, NoCall
<1>16. ShareBacked'
  BY <1>1, <1>2, <1>5 DEF ShareBacked, poolVars
<1> QED
  BY <1>6, <1>10, <1>11, <1>12, <1>13, <1>14, <1>15, <1>16
     DEF IInv, CustodyInv, MoneyInv

LEMMA PinStep ==
    ASSUME IInv, pinPendingDraw
    PROVE  IInv'
<1>1. /\ CustodyInv /\ TypeOK /\ HeldCoherent /\ Solvent /\ EthBacked /\ ShareBacked
      /\ SlotCoherent
  BY DEF IInv, CustodyInv, MoneyInv
<1>2. /\ redeemRequests' = AfterPin /\ call = NoCall
      /\ UNCHANGED <<beaconVars, poolVars, shareVars, heldVars, moneyVars, call,
                     pendingRedeemCount, pendingRequester>>
  BY DEF pinPendingDraw, NotEntered
<1>3. TypeOK'
  BY <1>1, <1>2, BeaconFrame, PinFacts
     DEF TypeOK, poolVars, shareVars, heldVars, moneyVars
<1>4. Solvent' /\ HeldCoherent' /\ EthBacked' /\ ShareBacked'
  BY <1>1, <1>2 DEF Solvent, HeldCoherent, EthBacked, ShareBacked, poolVars, shareVars,
                    heldVars, moneyVars
<1>5. SlotCoherent'
  BY <1>1, <1>2, PinFacts DEF SlotCoherent
<1>6. DrawHonourable'
  <2> SUFFICES ASSUME NEW v \in Users, AfterPin[v].active
               PROVE  IF AfterPin[v].pinned
                      THEN /\ AfterPin[v].drawnTokenId \in TokenIds
                           /\ heldTokenIndex[AfterPin[v].drawnTokenId] # 0
                      ELSE AfterPin[v].frozenLen \in 1..Len(heldTokenIds)
    BY <1>2 DEF DrawHonourable, NoCall, heldVars
  <2>1. CASE AfterPin[v].pinned
    BY <1>1, <2>1, PinFacts
  <2>2. CASE ~AfterPin[v].pinned
    BY <1>1, <2>2, PinFacts DEF CustodyInv, DrawHonourable
  <2> QED
    BY <2>1, <2>2
<1>7. CallCoherent'
  BY <1>2 DEF CallCoherent, NoCall
<1> QED
  BY <1>3, <1>4, <1>5, <1>6, <1>7 DEF IInv, CustodyInv, MoneyInv

\* Clearing the slot, shared by delivery and forfeiture.
LEMMA ReleaseFacts ==
    ASSUME IInv, NEW u \in Users, redeemRequests[u].active, ReleaseSlot(u)
    PROVE  /\ pendingRequester = u /\ pendingRedeemCount = 1
           /\ pendingRequester' = NoAccount /\ pendingRedeemCount' = 0
           /\ redeemRequests' \in [Users -> Requests]
           /\ SlotCoherent'
           /\ \A v \in Users : ~redeemRequests'[v].active
<1>1. /\ redeemRequests \in [Users -> Requests] /\ SlotCoherent /\ NoAccount \notin Users
      /\ pendingRedeemCount \in Nat
  BY VaultAssumption DEF IInv, CustodyInv, TypeOK, Accounts
<1>2. pendingRequester = u /\ pendingRedeemCount = 1
  BY <1>1 DEF SlotCoherent
<1>3. \A v \in Users : v # u => redeemRequests[v] = NoRequest
  BY <1>1, <1>2 DEF SlotCoherent
<1>4. /\ redeemRequests' = [redeemRequests EXCEPT ![u] = NoRequest]
      /\ pendingRequester' = NoAccount /\ pendingRedeemCount' = 0
  BY <1>2 DEF ReleaseSlot
<1>5. \A v \in Users : redeemRequests'[v] = NoRequest
  BY <1>1, <1>3, <1>4
<1>6. NoRequest \in Requests /\ ~NoRequest.active
  BY DEF NoRequest, Requests
<1>7. redeemRequests' \in [Users -> Requests]
  BY <1>1, <1>4, <1>6
<1>8. SlotCoherent'
  BY <1>1, <1>4, <1>5, <1>6 DEF SlotCoherent
<1> QED
  BY <1>2, <1>4, <1>5, <1>6, <1>7, <1>8

LEMMA ClaimStep ==
    ASSUME IInv, NEW u \in Users, claimRandomRedeemFor(u)
    PROVE  IInv'
<1> USE VaultAssumption
<1> DEFINE tokenId == AfterPin[u].drawnTokenId
<1>1. /\ CustodyInv /\ TypeOK /\ HeldCoherent /\ Solvent /\ EthBacked /\ ShareBacked
  BY DEF IInv, CustodyInv, MoneyInv
<1>2. /\ call = NoCall /\ redeemRequests[u].active /\ AfterPin[u].pinned
      /\ ReleaseSlot(u) /\ RemoveHeldToken(tokenId) /\ TransferFrom(u, tokenId)
      /\ UNCHANGED <<beaconVars, poolVars, shareVars, moneyVars, call>>
  BY DEF claimRandomRedeemFor, NotEntered
<1>3. tokenId \in TokenIds
  BY <1>1, <1>2, PinFacts
<1> HIDE DEF tokenId
<1>4. /\ HeldCoherent'
      /\ heldTokenIds' \in Seq(TokenIds)
      /\ heldTokenIndex' \in [TokenIds -> Nat]
      /\ ownerOf' \in [TokenIds -> Accounts]
      /\ Len(heldTokenIds) > 0
      /\ Len(heldTokenIds') = Len(heldTokenIds) - 1
  BY <1>1, <1>2, <1>3, RemoveKeepsHeld DEF Accounts
<1>5. /\ pendingRedeemCount = 1
      /\ pendingRequester' = NoAccount /\ pendingRedeemCount' = 0
      /\ redeemRequests' \in [Users -> Requests]
      /\ SlotCoherent'
      /\ \A v \in Users : ~redeemRequests'[v].active
  BY <1>2, ReleaseFacts
<1>6. TypeOK'
  BY <1>1, <1>2, <1>4, <1>5, BeaconFrame DEF TypeOK, poolVars, shareVars, moneyVars
<1>7. Solvent'
  <2> DEFINE tokensHeld == Len(heldTokenIds)
  <2>1. tokensHeld \in Int /\ totalSupply \in Int
    BY <1>1 DEF TypeOK
  <2>2. totalSupply + 1 * SHARE_UNIT = tokensHeld * SHARE_UNIT
    BY <1>1, <1>2, <1>5 DEF Solvent, NoCall
  <2>3. /\ totalSupply' = totalSupply
        /\ pendingRedeemCount' + Len(call'.rest) = 0
        /\ Len(heldTokenIds') = tokensHeld - 1
    BY <1>2, <1>4, <1>5 DEF shareVars, NoCall
  <2> HIDE DEF tokensHeld
  <2>4. (totalSupply + 0 * SHARE_UNIT) + (1 + (0 - 1)) * SHARE_UNIT
          = (tokensHeld + (0 - 1)) * SHARE_UNIT
    BY <2>1, <2>2, BackingMoves
  <2>5. tokensHeld + (0 - 1) = tokensHeld - 1 /\ totalSupply + 0 * SHARE_UNIT = totalSupply
    BY <2>1
  <2> QED
    BY <2>1, <2>3, <2>4, <2>5 DEF Solvent
<1>8. DrawHonourable' /\ CallCoherent'
  BY <1>2, <1>5 DEF DrawHonourable, CallCoherent, NoCall
<1>9. EthBacked' /\ ShareBacked'
  BY <1>1, <1>2 DEF EthBacked, ShareBacked, poolVars, shareVars, moneyVars
<1> QED
  BY <1>4, <1>5, <1>6, <1>7, <1>8, <1>9 DEF IInv, CustodyInv, MoneyInv

LEMMA ForfeitStep ==
    ASSUME IInv, NEW u \in Users, forfeitExpiredRedeem(u)
    PROVE  IInv'
<1> USE VaultAssumption
<1>1. /\ CustodyInv /\ TypeOK /\ HeldCoherent /\ Solvent /\ EthBacked /\ ShareBacked
  BY DEF IInv, CustodyInv, MoneyInv
<1>2. /\ call = NoCall /\ redeemRequests[u].active
      /\ ReleaseSlot(u) /\ Mint(treasury, SHARE_UNIT)
      /\ UNCHANGED <<beaconVars, poolVars, heldVars, moneyVars, call>>
  BY DEF forfeitExpiredRedeem, NotEntered
<1>3. /\ pendingRedeemCount = 1
      /\ pendingRequester' = NoAccount /\ pendingRedeemCount' = 0
      /\ redeemRequests' \in [Users -> Requests]
      /\ SlotCoherent'
      /\ \A v \in Users : ~redeemRequests'[v].active
  BY <1>2, ReleaseFacts
<1>4. /\ balanceOf' \in [Accounts -> Nat]
      /\ totalSupply' = totalSupply + SHARE_UNIT
      /\ balanceOf'[Vault] = balanceOf[Vault]
  BY <1>1, <1>2, MintFacts
<1>5. totalSupply' \in Nat
  BY <1>1, <1>4 DEF TypeOK
<1>6. TypeOK'
  BY <1>1, <1>2, <1>3, <1>4, <1>5, BeaconFrame DEF TypeOK, poolVars, heldVars, moneyVars
<1>7. Solvent'
  <2> DEFINE tokensHeld == Len(heldTokenIds)
  <2>1. tokensHeld \in Int /\ totalSupply \in Int /\ SHARE_UNIT \in Int
    BY <1>1 DEF TypeOK
  <2>2. totalSupply + 1 * SHARE_UNIT = tokensHeld * SHARE_UNIT
    BY <1>1, <1>2, <1>3 DEF Solvent, NoCall
  <2>3. /\ pendingRedeemCount' + Len(call'.rest) = 0
        /\ Len(heldTokenIds') = tokensHeld
    BY <1>2, <1>3 DEF heldVars, NoCall
  <2> HIDE DEF tokensHeld
  <2>4. totalSupply' + 0 * SHARE_UNIT = tokensHeld * SHARE_UNIT
    BY <1>4, <2>1, <2>2
  <2> QED
    BY <2>3, <2>4 DEF Solvent
<1>8. HeldCoherent'
  BY <1>1, <1>2 DEF HeldCoherent, heldVars
<1>9. DrawHonourable' /\ CallCoherent'
  BY <1>2, <1>3 DEF DrawHonourable, CallCoherent, NoCall
<1>10. EthBacked' /\ ShareBacked'
  BY <1>1, <1>2, <1>4 DEF EthBacked, ShareBacked, poolVars, moneyVars
<1> QED
  BY <1>3, <1>6, <1>7, <1>8, <1>9, <1>10 DEF IInv, CustodyInv, MoneyInv

\* While a targeted redemption runs, a pending request is a pinned one and its
\* token is none of those redeemed.
LEMMA SettledFacts ==
    ASSUME CustodyInv, DrawSettled, NEW v \in Users, AfterPin[v].active
    PROVE  /\ pendingRequester = v
           /\ AfterPin[v].pinned
           /\ AfterPin[v].drawnTokenId \in TokenIds
           /\ heldTokenIndex[AfterPin[v].drawnTokenId] # 0
           /\ \A t \in TokenIds : ~Reserved(t) => AfterPin[v].drawnTokenId # t
<1>1. redeemRequests[v].active
  BY PinFacts
<1>2. pendingRequester = v /\ v # NoAccount
  BY <1>1, VaultAssumption DEF CustodyInv, SlotCoherent, Accounts
<1>3. AfterPin[v].pinned
  BY <1>2 DEF DrawSettled
<1> QED
  BY <1>2, <1>3, PinFacts DEF Reserved

LEMMA RedeemTargetStep ==
    ASSUME IInv, NEW u \in Users, NEW tokenId \in TokenIds, redeemTarget(u, tokenId)
    PROVE  IInv'
<1> USE VaultAssumption
<1>1. /\ CustodyInv /\ TypeOK /\ HeldCoherent /\ Solvent /\ EthBacked /\ ShareBacked
      /\ SlotCoherent
  BY DEF IInv, CustodyInv, MoneyInv
<1>2. /\ call = NoCall /\ DrawSettled /\ ~Reserved(tokenId)
      /\ CollectFee(redeemFeeWei + targetPremiumWei)
      /\ redeemRequests' = AfterPin
      /\ Len(heldTokenIds) > pendingRedeemCount
      /\ Burn(u, SHARE_UNIT)
      /\ RemoveHeldToken(tokenId) /\ TransferFrom(u, tokenId)
      /\ UNCHANGED <<beaconVars, poolVars, pendingRedeemCount, pendingRequester, call>>
  BY DEF redeemTarget, NotEntered, SafeTransferFrom, TransferFrom
<1>3. /\ HeldCoherent'
      /\ heldTokenIds' \in Seq(TokenIds)
      /\ heldTokenIndex' \in [TokenIds -> Nat]
      /\ ownerOf' \in [TokenIds -> Accounts]
      /\ Len(heldTokenIds') = Len(heldTokenIds) - 1
      /\ \A t \in TokenIds \ {tokenId} :
            heldTokenIndex[t] # 0 => heldTokenIndex'[t] # 0
  BY <1>1, <1>2, RemoveKeepsHeld DEF Accounts
<1>4. /\ balanceOf' \in [Accounts -> Nat]
      /\ totalSupply' = totalSupply - SHARE_UNIT
      /\ balanceOf'[Vault] = balanceOf[Vault]
  BY <1>1, <1>2, BurnFacts
<1>5. accruedFees' \in Nat /\ ethBalance' \in 0..MaxEth /\ EthBacked'
  BY <1>1, <1>2, FeeFacts DEF poolVars
<1> DEFINE tokensHeld == Len(heldTokenIds)
<1>6. /\ tokensHeld \in Int /\ totalSupply \in Int /\ pendingRedeemCount \in Int
      /\ SHARE_UNIT \in Int
      /\ totalSupply + pendingRedeemCount * SHARE_UNIT = tokensHeld * SHARE_UNIT
  BY <1>1, <1>2 DEF TypeOK, Solvent, NoCall
<1>7. totalSupply' \in Nat
  <2>1. tokensHeld >= pendingRedeemCount + 1
    BY <1>2, <1>6
  <2> HIDE DEF tokensHeld
  <2>2. totalSupply - 1 * SHARE_UNIT >= 0
    BY <1>6, <2>1, SupplyCovers
  <2> QED
    BY <1>4, <1>6, <2>2
<1>8. TypeOK'
  BY <1>1, <1>2, <1>3, <1>4, <1>5, <1>7, BeaconFrame, PinFacts DEF TypeOK, poolVars
<1>9. Solvent'
  <2>1. /\ pendingRedeemCount' + Len(call'.rest) = pendingRedeemCount
        /\ Len(heldTokenIds') = tokensHeld - 1
    BY <1>2, <1>3, <1>6 DEF NoCall
  <2> HIDE DEF tokensHeld
  <2>2. (totalSupply + (0 - 1) * SHARE_UNIT) + (pendingRedeemCount + 0) * SHARE_UNIT
          = (tokensHeld + (0 - 1)) * SHARE_UNIT
    BY <1>6, BackingMoves
  <2>3. /\ totalSupply + (0 - 1) * SHARE_UNIT = totalSupply'
        /\ pendingRedeemCount + 0 = pendingRedeemCount
        /\ tokensHeld + (0 - 1) = tokensHeld - 1
    BY <1>4, <1>6
  <2> QED
    BY <2>1, <2>2, <2>3 DEF Solvent
<1>10. SlotCoherent'
  BY <1>1, <1>2, PinFacts DEF SlotCoherent
<1>11. DrawHonourable'
  <2> SUFFICES ASSUME NEW v \in Users, AfterPin[v].active
               PROVE  /\ AfterPin[v].pinned
                      /\ AfterPin[v].drawnTokenId \in TokenIds
                      /\ heldTokenIndex'[AfterPin[v].drawnTokenId] # 0
    BY <1>2 DEF DrawHonourable, NoCall
  <2> QED
    BY <1>1, <1>2, <1>3, SettledFacts
<1>12. CallCoherent'
  BY <1>2 DEF CallCoherent, NoCall
<1>13. ShareBacked'
  BY <1>1, <1>2, <1>4 DEF ShareBacked, poolVars
<1> QED
  BY <1>3, <1>5, <1>8, <1>9, <1>10, <1>11, <1>12, <1>13 DEF IInv, CustodyInv, MoneyInv

LEMMA RedeemTargetManyStep ==
    ASSUME IInv, NEW u \in Users, NEW tokens \in Seq(TokenIds), redeemTargetMany(u, tokens)
    PROVE  IInv'
<1> USE VaultAssumption
<1> DEFINE n == Len(tokens)
<1>1. /\ CustodyInv /\ TypeOK /\ HeldCoherent /\ Solvent /\ EthBacked /\ ShareBacked
      /\ SlotCoherent
  BY DEF IInv, CustodyInv, MoneyInv
<1>2. /\ call = NoCall /\ DrawSettled
      /\ n \in Nat /\ n # 0
      /\ CollectFee((redeemFeeWei + targetPremiumWei) * n)
      /\ redeemRequests' = AfterPin
      /\ Len(heldTokenIds) >= pendingRedeemCount + n
      /\ Burn(u, SharesFor(n))
      /\ \A i, j \in 1..n : tokens[i] = tokens[j] => i = j
      /\ \A i \in 1..n : heldTokenIndex[tokens[i]] # 0 /\ ~Reserved(tokens[i])
      /\ call' = [sender |-> u, rest |-> tokens]
      /\ UNCHANGED <<beaconVars, poolVars, heldVars, pendingRedeemCount, pendingRequester>>
  BY DEF redeemTargetMany, NotEntered
<1>3. SharesFor(n) \in Nat /\ SharesFor(n) = n * SHARE_UNIT
  BY <1>2, SharesForNat
<1>4. /\ balanceOf' \in [Accounts -> Nat]
      /\ totalSupply' = totalSupply - n * SHARE_UNIT
      /\ balanceOf'[Vault] = balanceOf[Vault]
  BY <1>1, <1>2, <1>3, BurnFacts
<1>5. accruedFees' \in Nat /\ ethBalance' \in 0..MaxEth /\ EthBacked'
  <2>1. (redeemFeeWei + targetPremiumWei) * n \in Nat
    BY <1>2, MulNat
  <2> QED
    BY <1>1, <1>2, <2>1, FeeFacts DEF poolVars
<1> DEFINE tokensHeld == Len(heldTokenIds)
<1>6. /\ tokensHeld \in Int /\ totalSupply \in Int /\ pendingRedeemCount \in Int
      /\ SHARE_UNIT \in Int
      /\ totalSupply + pendingRedeemCount * SHARE_UNIT = tokensHeld * SHARE_UNIT
  BY <1>1, <1>2 DEF TypeOK, Solvent, NoCall
<1>7. totalSupply' \in Nat
  <2> HIDE DEF tokensHeld, n
  <2>1. totalSupply - n * SHARE_UNIT >= 0
    <3>1. tokensHeld >= pendingRedeemCount + n
      BY <1>2 DEF tokensHeld
    <3> QED
      BY <1>2, <1>6, <3>1, SupplyCovers
  <2> QED
    BY <1>3, <1>4, <1>6, <2>1
<1>8. TypeOK'
  BY <1>1, <1>2, <1>4, <1>5, <1>7, BeaconFrame, PinFacts DEF TypeOK, poolVars, heldVars
<1>9. Solvent'
  <2>1. /\ pendingRedeemCount' + Len(call'.rest) = pendingRedeemCount + n
        /\ Len(heldTokenIds') = tokensHeld
    BY <1>2 DEF heldVars
  <2> HIDE DEF tokensHeld, n
  <2>2. (totalSupply + (0 - n) * SHARE_UNIT) + (pendingRedeemCount + n) * SHARE_UNIT
          = (tokensHeld + 0) * SHARE_UNIT
    BY <1>2, <1>6, BackingMoves
  <2>3. /\ totalSupply + (0 - n) * SHARE_UNIT = totalSupply'
        /\ tokensHeld + 0 = tokensHeld
    BY <1>2, <1>4, <1>6
  <2> QED
    BY <2>1, <2>2, <2>3 DEF Solvent
<1>10. SlotCoherent'
  BY <1>1, <1>2, PinFacts DEF SlotCoherent
<1>11. HeldCoherent'
  BY <1>1, <1>2 DEF HeldCoherent, heldVars
<1>12. DrawHonourable'
  <2> SUFFICES ASSUME NEW v \in Users, AfterPin[v].active
               PROVE  /\ AfterPin[v].pinned
                      /\ AfterPin[v].drawnTokenId \in TokenIds
                      /\ heldTokenIndex[AfterPin[v].drawnTokenId] # 0
                      /\ \A i \in 1..n : tokens[i] # AfterPin[v].drawnTokenId
    BY <1>2 DEF DrawHonourable, heldVars
  <2>1. \A i \in 1..n : tokens[i] \in TokenIds
    OBVIOUS
  <2> QED
    BY <1>1, <1>2, <2>1, SettledFacts
<1>13. CallCoherent'
  <2>1. call'.rest = tokens /\ call'.sender = u /\ tokens # <<>>
    BY <1>2
  <2> QED
    BY <1>2, <2>1 DEF CallCoherent, heldVars
<1>14. ShareBacked'
  BY <1>1, <1>2, <1>4 DEF ShareBacked, poolVars
<1> QED
  BY <1>5, <1>8, <1>9, <1>10, <1>11, <1>12, <1>13, <1>14 DEF IInv, CustodyInv, MoneyInv

LEMMA RedeemNextStep ==
    ASSUME IInv, RedeemNext
    PROVE  IInv'
<1> USE VaultAssumption
<1> DEFINE tokenId == Head(call.rest)
           n == Len(call.rest)
<1>1. /\ CustodyInv /\ TypeOK /\ HeldCoherent /\ Solvent /\ EthBacked /\ ShareBacked
      /\ SlotCoherent /\ CallCoherent
  BY DEF IInv, CustodyInv, MoneyInv
<1>2. /\ call.rest # <<>> /\ RemoveHeldToken(tokenId)
      /\ TransferFrom(call.sender, tokenId)
      /\ call' = IF n = 1 THEN NoCall ELSE [call EXCEPT !.rest = Tail(@)]
      /\ UNCHANGED <<beaconVars, poolVars, shareVars, slotVars, moneyVars>>
  BY DEF RedeemNext, SafeTransferFrom, TransferFrom
<1>3. /\ call \in [sender : Users \cup {NoAccount}, rest : Seq(TokenIds)]
      /\ call.rest \in Seq(TokenIds) /\ n \in Nat \ {0}
      /\ tokenId = call.rest[1] /\ tokenId \in TokenIds
      /\ call.sender \in Users
  <2>1. call \in [sender : Users \cup {NoAccount}, rest : Seq(TokenIds)]
    BY <1>1 DEF TypeOK
  <2>2. call.rest \in Seq(TokenIds) /\ call.rest # <<>>
    BY <1>2, <2>1
  <2>3. n \in Nat \ {0} /\ tokenId = call.rest[1] /\ tokenId \in TokenIds
    BY <2>2
  <2>4. call.sender \in Users
    BY <1>1, <1>2 DEF CallCoherent
  <2> QED
    BY <2>1, <2>2, <2>3, <2>4
<1>4. /\ HeldCoherent'
      /\ heldTokenIds' \in Seq(TokenIds)
      /\ heldTokenIndex' \in [TokenIds -> Nat]
      /\ ownerOf' \in [TokenIds -> Accounts]
      /\ Len(heldTokenIds') = Len(heldTokenIds) - 1
      /\ \A t \in TokenIds \ {tokenId} :
            heldTokenIndex[t] # 0 => heldTokenIndex'[t] # 0
  BY <1>1, <1>2, <1>3, RemoveKeepsHeld DEF Accounts
<1>5. /\ call' \in [sender : Users \cup {NoAccount}, rest : Seq(TokenIds)]
      /\ Len(call'.rest) = n - 1
      /\ \A i \in 1..n - 1 : call'.rest[i] = call.rest[i + 1]
      /\ call'.rest # <<>> => call'.sender = call.sender
      /\ call'.rest = <<>> => call' = NoCall
  <2>1. CASE n = 1
    BY <1>2, <1>3, <2>1 DEF NoCall
  <2>2. CASE n # 1
    <3>1. call' = [sender |-> call.sender, rest |-> Tail(call.rest)]
      BY <1>2, <1>3, <2>2
    <3>2. /\ Tail(call.rest) \in Seq(TokenIds)
          /\ Len(Tail(call.rest)) = n - 1
          /\ \A i \in 1..n - 1 : Tail(call.rest)[i] = call.rest[i + 1]
      BY <1>3
    <3>3. Tail(call.rest) # <<>>
      <4>1. Len(Tail(call.rest)) # 0
        BY <1>3, <2>2, <3>2
      <4>2. Len(<<>>) = 0
        OBVIOUS
      <4> QED
        BY <4>1, <4>2
    <3>4. call'.rest = Tail(call.rest) /\ call'.sender = call.sender
      BY <3>1
    <3>5. call' \in [sender : Users \cup {NoAccount}, rest : Seq(TokenIds)]
      BY <1>3, <3>1, <3>2
    <3> QED
      BY <3>2, <3>3, <3>4, <3>5
  <2> QED
    BY <2>1, <2>2
<1>6. TypeOK'
  BY <1>1, <1>2, <1>4, <1>5, BeaconFrame DEF TypeOK, poolVars, shareVars, slotVars, moneyVars
<1>7. Solvent'
  <2> DEFINE tokensHeld == Len(heldTokenIds)
             claims == pendingRedeemCount + n
  <2>1. /\ tokensHeld \in Int /\ totalSupply \in Int /\ claims \in Int
        /\ SHARE_UNIT \in Int
        /\ totalSupply + claims * SHARE_UNIT = tokensHeld * SHARE_UNIT
    BY <1>1, <1>3 DEF TypeOK, Solvent
  <2>2. /\ pendingRedeemCount' + Len(call'.rest) = claims + (0 - 1)
        /\ Len(heldTokenIds') = tokensHeld + (0 - 1)
        /\ totalSupply' = totalSupply
    <3>1. pendingRedeemCount \in Nat
      BY <1>1 DEF TypeOK
    <3>2. pendingRedeemCount' = pendingRedeemCount /\ totalSupply' = totalSupply
      BY <1>2 DEF slotVars, shareVars
    <3>3. n - 1 = n + (0 - 1) /\ tokensHeld - 1 = tokensHeld + (0 - 1)
      BY <1>3, <2>1
    <3>4. pendingRedeemCount + (n - 1) = claims + (0 - 1)
      BY <1>3, <3>1
    <3> QED
      BY <1>4, <1>5, <3>2, <3>3, <3>4
  <2> HIDE DEF tokensHeld, claims
  <2>3. (totalSupply + 0 * SHARE_UNIT) + (claims + (0 - 1)) * SHARE_UNIT
          = (tokensHeld + (0 - 1)) * SHARE_UNIT
    BY <2>1, BackingMoves
  <2>4. totalSupply + 0 * SHARE_UNIT = totalSupply
    BY <2>1
  <2> QED
    BY <2>2, <2>3, <2>4 DEF Solvent
<1>8. SlotCoherent'
  BY <1>1, <1>2 DEF SlotCoherent, slotVars
<1>9. DrawHonourable'
  <2> SUFFICES ASSUME NEW v \in Users, redeemRequests[v].active
               PROVE  /\ redeemRequests[v].pinned
                      /\ redeemRequests[v].drawnTokenId \in TokenIds
                      /\ heldTokenIndex'[redeemRequests[v].drawnTokenId] # 0
                      /\ \A i \in 1..Len(call'.rest) :
                            call'.rest[i] # redeemRequests[v].drawnTokenId
    BY <1>2 DEF DrawHonourable, slotVars
  <2>1. /\ redeemRequests[v].pinned
        /\ redeemRequests[v].drawnTokenId \in TokenIds
        /\ heldTokenIndex[redeemRequests[v].drawnTokenId] # 0
        /\ \A i \in 1..n : call.rest[i] # redeemRequests[v].drawnTokenId
    BY <1>1, <1>2 DEF CustodyInv, DrawHonourable
  <2>2. redeemRequests[v].drawnTokenId # tokenId
    BY <1>3, <2>1
  <2>3. \A i \in 1..n - 1 : i + 1 \in 1..n
    BY <1>3
  <2> QED
    BY <1>4, <1>5, <2>1, <2>2, <2>3
<1>10. CallCoherent'
  <2>1. \A i \in 1..n - 1 : i + 1 \in 1..n /\ call.rest[i + 1] \in TokenIds
    BY <1>3
  <2>2. \A i \in 1..n - 1 : call.rest[i + 1] # tokenId
    BY <1>1, <1>3, <2>1 DEF CallCoherent
  <2>3. \A i \in 1..n - 1 : heldTokenIndex'[call'.rest[i]] # 0
    <3>1. \A i \in 1..n - 1 : heldTokenIndex[call.rest[i + 1]] # 0
      BY <1>1, <2>1 DEF CallCoherent
    <3> QED
      BY <1>4, <1>5, <2>1, <2>2, <3>1
  <2>4. ASSUME NEW i \in 1..n - 1, NEW j \in 1..n - 1, call'.rest[i] = call'.rest[j]
        PROVE  i = j
    <3>1. i + 1 = j + 1
      BY <1>1, <1>5, <2>1, <2>4 DEF CallCoherent
    <3> QED
      BY <1>3, <3>1
  <2> QED
    BY <1>3, <1>5, <2>3, <2>4 DEF CallCoherent
<1>11. EthBacked' /\ ShareBacked'
  BY <1>1, <1>2 DEF EthBacked, ShareBacked, poolVars, shareVars, moneyVars
<1> QED
  BY <1>4, <1>6, <1>7, <1>8, <1>9, <1>10, <1>11 DEF IInv, CustodyInv, MoneyInv

-----------------------------------------------------------------------------
(* Pool actions                                                            *)

\* The pool's steps share their frame: custody and the slot stay as they are, so
\* only the types and the two backing inequalities are at stake.
LEMMA PoolFrame ==
    ASSUME IInv, UNCHANGED <<beaconVars, heldVars, slotVars, call>>,
           poolOpen' \in BOOLEAN,
           ethReserve' \in Nat, shareReserve' \in Nat, accruedFees' \in Nat,
           lpBalance' \in [Users \cup {NoAccount} -> Nat], totalLpSupply' \in Nat,
           balanceOf' \in [Accounts -> Nat], totalSupply' = totalSupply,
           ethBalance' \in 0..MaxEth, EthBacked', ShareBacked'
    PROVE  IInv'
<1>1. CustodyInv /\ TypeOK
  BY DEF IInv, CustodyInv
<1>2. TypeOK'
  BY <1>1, BeaconFrame DEF TypeOK, heldVars, slotVars
<1> QED
  BY <1>1, <1>2, CustodyFrame DEF IInv, MoneyInv

LEMMA PoolTypes ==
    ASSUME IInv
    PROVE  /\ TypeOK /\ EthBacked /\ ShareBacked
           /\ poolOpen \in BOOLEAN
           /\ ethReserve \in Nat /\ shareReserve \in Nat /\ accruedFees \in Nat
           /\ lpBalance \in [Users \cup {NoAccount} -> Nat] /\ totalLpSupply \in Nat
           /\ balanceOf \in [Accounts -> Nat] /\ totalSupply \in Nat
           /\ ethBalance \in 0..MaxEth /\ ethBalance \in Nat
           /\ Vault \in Accounts /\ Vault \notin Users
           /\ \A u \in Users : u \in Accounts /\ u # Vault
           /\ balanceOf[Vault] \in Nat
  BY VaultAssumption DEF IInv, CustodyInv, MoneyInv, TypeOK, Accounts

LEMMA BuyStep ==
    ASSUME IInv, NEW u \in Users, NEW v \in EthAmounts, NEW m \in Floors,
           buyShares(u, v, m)
    PROVE  IInv'
<1> USE VaultAssumption, PoolTypes
<1> DEFINE out == AmountOut(v, ethReserve, shareReserve)
<1>1. ethReserve \in Nat \ {0} /\ v \in Nat
  BY DEF buyShares, Tradable
<1>2. out \in 0..shareReserve
  BY <1>1, AmountOutBounded
<1>3. /\ Transfer(Vault, u, out)
      /\ shareReserve' = shareReserve - out
      /\ ethReserve' = ethReserve + v
      /\ ethBalance + v <= MaxEth /\ ethBalance' = ethBalance + v
      /\ UNCHANGED <<beaconVars, heldVars, slotVars, accruedFees, poolOpen, lpBalance,
                     totalLpSupply, call>>
  BY DEF buyShares, PushShares, Receive
<1> HIDE DEF out
<1>4. /\ balanceOf' \in [Accounts -> Nat] /\ totalSupply' = totalSupply
      /\ balanceOf'[Vault] = balanceOf[Vault] - out
  BY <1>2, <1>3, TransferFacts
<1>5. EthBacked' /\ ShareBacked'
  BY <1>1, <1>2, <1>3, <1>4 DEF EthBacked, ShareBacked
<1>6. ethReserve' \in Nat /\ shareReserve' \in Nat /\ ethBalance' \in 0..MaxEth
  BY <1>1, <1>2, <1>3
<1> QED
  BY <1>3, <1>4, <1>5, <1>6, PoolFrame

LEMMA SellStep ==
    ASSUME IInv, NEW u \in Users, NEW x \in ShareAmounts, NEW m \in Floors,
           sellShares(u, x, m)
    PROVE  IInv'
<1> USE VaultAssumption, PoolTypes
<1> DEFINE out == AmountOut(x, shareReserve, ethReserve)
<1>1. shareReserve \in Nat \ {0} /\ x \in Nat
  BY DEF sellShares, Tradable
<1>2. out \in 0..ethReserve
  BY <1>1, AmountOutBounded
<1>3. /\ Transfer(u, Vault, x)
      /\ shareReserve' = shareReserve + x
      /\ ethReserve' = ethReserve - out
      /\ out <= ethBalance /\ ethBalance' = ethBalance - out
      /\ UNCHANGED <<beaconVars, heldVars, slotVars, accruedFees, poolOpen, lpBalance,
                     totalLpSupply, call>>
  BY DEF sellShares, PullShares, Send
<1> HIDE DEF out
<1>4. /\ balanceOf' \in [Accounts -> Nat] /\ totalSupply' = totalSupply
      /\ balanceOf'[Vault] = balanceOf[Vault] + x
  BY <1>1, <1>3, TransferFacts
<1>5. EthBacked' /\ ShareBacked'
  BY <1>1, <1>2, <1>3, <1>4 DEF EthBacked, ShareBacked
<1>6. ethReserve' \in Nat /\ shareReserve' \in Nat /\ ethBalance' \in 0..MaxEth
  BY <1>1, <1>2, <1>3
<1> QED
  BY <1>3, <1>4, <1>5, <1>6, PoolFrame

LEMMA AddLiquidityStep ==
    ASSUME IInv, NEW u \in Users, NEW v \in EthAmounts, NEW x \in ShareAmounts,
           NEW m \in Floors, addLiquidity(u, v, x, m)
    PROVE  IInv'
<1> USE VaultAssumption, PoolTypes
<1> DEFINE used == ceilDiv(v * shareReserve, ethReserve)
           lp == (v * totalLpSupply) \div ethReserve
<1>1. ethReserve \in Nat \ {0} /\ v \in Nat
  BY DEF addLiquidity
<1>2. used \in Nat
  <2>1. v * shareReserve \in Nat
    BY <1>1, MulNat
  <2>2. v * shareReserve + ethReserve - 1 \in Nat
    BY <1>1, <2>1
  <2> QED
    BY <1>1, <2>2, DivNat DEF ceilDiv
<1>3. lp \in Nat
  BY <1>1, MulNat, DivNat
<1>4. /\ Transfer(u, Vault, used)
      /\ shareReserve' = shareReserve + used
      /\ ethReserve' = ethReserve + v
      /\ ethBalance + v <= MaxEth /\ ethBalance' = ethBalance + v
      /\ lpBalance' = [lpBalance EXCEPT ![u] = @ + lp]
      /\ totalLpSupply' = totalLpSupply + lp
      /\ UNCHANGED <<beaconVars, heldVars, slotVars, accruedFees, poolOpen, call>>
  BY DEF addLiquidity, PullShares, Receive, MintLp
<1> HIDE DEF used, lp
<1>5. /\ balanceOf' \in [Accounts -> Nat] /\ totalSupply' = totalSupply
      /\ balanceOf'[Vault] = balanceOf[Vault] + used
  BY <1>2, <1>4, TransferFacts
<1>6. EthBacked' /\ ShareBacked'
  BY <1>1, <1>2, <1>4, <1>5 DEF EthBacked, ShareBacked
<1>7. /\ ethReserve' \in Nat /\ shareReserve' \in Nat /\ ethBalance' \in 0..MaxEth
      /\ lpBalance' \in [Users \cup {NoAccount} -> Nat] /\ totalLpSupply' \in Nat
  BY <1>1, <1>2, <1>3, <1>4
<1> QED
  BY <1>4, <1>5, <1>6, <1>7, PoolFrame

LEMMA RemoveLiquidityStep ==
    ASSUME IInv, NEW u \in Users, NEW x \in LpAmounts, NEW m \in Floors, NEW k \in Floors,
           removeLiquidity(u, x, m, k)
    PROVE  IInv'
<1> USE VaultAssumption, PoolTypes
<1> DEFINE eOut == (x * ethReserve) \div totalLpSupply
           sOut == (x * shareReserve) \div totalLpSupply
<1>1. /\ x \in Nat \ {0} /\ totalLpSupply \in Nat \ {0}
      /\ x <= totalLpSupply /\ x <= lpBalance[u]
  BY DEF removeLiquidity
<1>2. \A reserve \in Nat : (x * reserve) \div totalLpSupply \in 0..reserve
  <2> SUFFICES ASSUME NEW reserve \in Nat
               PROVE  (x * reserve) \div totalLpSupply \in 0..reserve
    OBVIOUS
  <2>1. x * reserve <= totalLpSupply * reserve
    BY <1>1, MulMono
  <2>2. totalLpSupply * reserve = reserve * totalLpSupply /\ x * reserve \in Nat
    BY <1>1
  <2> QED
    BY <1>1, <2>1, <2>2, DivBound
<1>3. eOut \in 0..ethReserve /\ sOut \in 0..shareReserve
  BY <1>2
<1>4. /\ Transfer(Vault, u, sOut)
      /\ shareReserve' = shareReserve - sOut
      /\ ethReserve' = ethReserve - eOut
      /\ eOut <= ethBalance /\ ethBalance' = ethBalance - eOut
      /\ lpBalance' = [lpBalance EXCEPT ![u] = @ - x]
      /\ totalLpSupply' = totalLpSupply - x
      /\ UNCHANGED <<beaconVars, heldVars, slotVars, accruedFees, poolOpen, call>>
  BY DEF removeLiquidity, PushShares, Send
<1> HIDE DEF eOut, sOut
<1>5. /\ balanceOf' \in [Accounts -> Nat] /\ totalSupply' = totalSupply
      /\ balanceOf'[Vault] = balanceOf[Vault] - sOut
  BY <1>3, <1>4, TransferFacts
<1>6. EthBacked' /\ ShareBacked'
  BY <1>3, <1>4, <1>5 DEF EthBacked, ShareBacked
<1>7. /\ ethReserve' \in Nat /\ shareReserve' \in Nat /\ ethBalance' \in 0..MaxEth
      /\ lpBalance' \in [Users \cup {NoAccount} -> Nat] /\ totalLpSupply' \in Nat
  BY <1>1, <1>3, <1>4
<1> QED
  BY <1>4, <1>5, <1>6, <1>7, PoolFrame

\* Seeding, opening, paying the fees out, and ETH that simply arrives.
LEMMA TreasuryStep ==
    ASSUME IInv,
           \/ \E v \in EthAmounts : seedLiquidity(v)
           \/ \E x \in ShareAmounts, v \in EthAmounts \cup {0} : seedShares(x, v)
           \/ openPool \/ withdrawFees \/ ForceEth
    PROVE  IInv'
<1> USE VaultAssumption, PoolTypes
<1>1. ASSUME NEW v \in EthAmounts, seedLiquidity(v) PROVE IInv'
  <2>1. /\ ethReserve' \in Nat /\ ethBalance' \in 0..MaxEth /\ EthBacked' /\ ShareBacked'
        /\ UNCHANGED <<beaconVars, heldVars, slotVars, call, accruedFees, poolOpen,
                       shareReserve, lpBalance, totalLpSupply, balanceOf, totalSupply>>
    BY <1>1 DEF seedLiquidity, Receive, EthBacked, ShareBacked, shareVars
  <2> QED
    BY <2>1, PoolFrame
<1>2. ASSUME NEW x \in ShareAmounts, NEW v \in EthAmounts \cup {0}, seedShares(x, v)
      PROVE  IInv'
  <2>1. x \in Nat /\ v \in Nat /\ treasury \in Accounts /\ treasury # Vault
    OBVIOUS
  <2>2. /\ balanceOf' \in [Accounts -> Nat] /\ totalSupply' = totalSupply
        /\ balanceOf'[Vault] = balanceOf[Vault] + x
    BY <1>2, <2>1, TransferFacts DEF seedShares, PullShares
  <2>3. /\ ethReserve' \in Nat /\ shareReserve' \in Nat /\ ethBalance' \in 0..MaxEth
        /\ EthBacked' /\ ShareBacked'
        /\ UNCHANGED <<beaconVars, heldVars, slotVars, call, accruedFees, poolOpen,
                       lpBalance, totalLpSupply>>
    BY <1>2, <2>1, <2>2 DEF seedShares, PullShares, Receive, EthBacked, ShareBacked
  <2> QED
    BY <2>2, <2>3, PoolFrame
<1>3. ASSUME openPool PROVE IInv'
  <2>1. PICK l0 \in 0..ethReserve * shareReserve :
          /\ lpBalance' = [lpBalance EXCEPT ![NoAccount] = l0]
          /\ totalLpSupply' = l0
    BY <1>3 DEF openPool, Locked
  <2>2. l0 \in Nat
    OBVIOUS
  <2>3. /\ lpBalance' \in [Users \cup {NoAccount} -> Nat] /\ totalLpSupply' \in Nat
        /\ poolOpen' = TRUE /\ EthBacked' /\ ShareBacked'
        /\ UNCHANGED <<beaconVars, heldVars, slotVars, call, accruedFees, ethReserve,
                       shareReserve, ethBalance, balanceOf, totalSupply>>
    BY <1>3, <2>1, <2>2 DEF openPool, EthBacked, ShareBacked, shareVars, moneyVars
  <2> QED
    BY <2>3, PoolFrame
<1>4. ASSUME withdrawFees PROVE IInv'
  <2>1. /\ accruedFees' \in Nat /\ ethBalance' \in 0..MaxEth /\ EthBacked' /\ ShareBacked'
        /\ UNCHANGED <<beaconVars, heldVars, slotVars, call, poolOpen, ethReserve,
                       shareReserve, lpBalance, totalLpSupply, balanceOf, totalSupply>>
    BY <1>4 DEF withdrawFees, Send, EthBacked, ShareBacked, shareVars, poolVars
  <2> QED
    BY <2>1, PoolFrame
<1>5. ASSUME ForceEth PROVE IInv'
  <2>1. /\ ethBalance' \in 0..MaxEth /\ EthBacked' /\ ShareBacked'
        /\ UNCHANGED <<beaconVars, heldVars, slotVars, call, accruedFees, poolOpen,
                       ethReserve, shareReserve, lpBalance, totalLpSupply, balanceOf,
                       totalSupply>>
    BY <1>5 DEF ForceEth, Receive, EthBacked, ShareBacked, shareVars, poolVars
  <2> QED
    BY <2>1, PoolFrame
<1> QED
  BY <1>1, <1>2, <1>3, <1>4, <1>5

-----------------------------------------------------------------------------
(* What reaches the vault without calling it                               *)

LEMMA TransferSharesStep ==
    ASSUME IInv, NEW u \in Users, NEW a \in Accounts, NEW x \in ShareAmounts,
           TransferShares(u, a, x)
    PROVE  IInv'
<1> USE VaultAssumption, PoolTypes
<1>1. /\ Transfer(u, a, x) /\ x \in Nat
      /\ UNCHANGED <<beaconVars, poolVars, heldVars, slotVars, moneyVars, call>>
  BY DEF TransferShares
<1>2. /\ balanceOf' \in [Accounts -> Nat] /\ totalSupply' = totalSupply
      /\ balanceOf'[Vault] >= balanceOf[Vault] /\ balanceOf'[Vault] \in Nat
  BY <1>1, TransferFacts
<1>3. EthBacked' /\ ShareBacked'
  BY <1>1, <1>2 DEF EthBacked, ShareBacked, poolVars, moneyVars
<1> QED
  BY <1>1, <1>2, <1>3, PoolFrame DEF poolVars, moneyVars

\* A user can only transfer a token the user owns, so never one in custody.
LEMMA TransferNftStep ==
    ASSUME IInv, NEW u \in Users, NEW a \in Accounts, NEW tokenId \in TokenIds,
           TransferNft(u, a, tokenId)
    PROVE  IInv'
<1>1. /\ CustodyInv /\ TypeOK /\ HeldCoherent /\ EthBacked /\ ShareBacked
      /\ Vault \notin Users
  BY VaultAssumption DEF IInv, CustodyInv, MoneyInv
<1>2. /\ ownerOf[tokenId] = u /\ ownerOf' = [ownerOf EXCEPT ![tokenId] = a]
      /\ UNCHANGED <<beaconVars, poolVars, shareVars, heldTokenIds, heldTokenIndex,
                     slotVars, moneyVars, call>>
  BY DEF TransferNft
<1>3. TypeOK'
  BY <1>1, <1>2, BeaconFrame DEF TypeOK, poolVars, shareVars, slotVars, moneyVars
<1>4. HeldCoherent'
  <2>1. heldTokenIndex[tokenId] = 0
    BY <1>1, <1>2 DEF HeldCoherent
  <2>2. \A t \in TokenIds : t # tokenId => ownerOf'[t] = ownerOf[t]
    BY <1>1, <1>2 DEF TypeOK
  <2> QED
    BY <1>1, <1>2, <2>1, <2>2 DEF HeldCoherent
<1>5. Solvent' /\ SlotCoherent' /\ DrawHonourable' /\ CallCoherent'
  BY <1>1, <1>2 DEF CustodyInv, Solvent, SlotCoherent, DrawHonourable, CallCoherent,
                    shareVars, slotVars
<1>6. EthBacked' /\ ShareBacked'
  BY <1>1, <1>2 DEF EthBacked, ShareBacked, poolVars, shareVars, moneyVars
<1> QED
  BY <1>3, <1>4, <1>5, <1>6 DEF IInv, CustodyInv, MoneyInv

\* Every action leaves the beacon alone or is a step of the beacon.
LEMMA BeaconView == [Next]_vars => [BeaconNext]_beaconVars
  BY DEF Next, CustodyNext, PoolNext, ExternalNext, deposit, depositMany, TakeIn,
         requestRandomRedeem, pinPendingDraw, claimRandomRedeemFor, forfeitExpiredRedeem,
         redeemTarget, redeemTargetMany, RedeemNext, buyShares, sellShares, addLiquidity,
         removeLiquidity, seedLiquidity, seedShares, openPool, withdrawFees,
         TransferShares, TransferNft, ForceEth, TimePasses, RoundPublished, RoundRelayed,
         BeaconNext, vars

LEMMA BeaconMovesStep ==
    ASSUME IInv, BeaconTypeOK', UNCHANGED vaultVars
    PROVE  IInv'
<1>1. CustodyInv /\ TypeOK /\ EthBacked /\ ShareBacked
  BY DEF IInv, CustodyInv, MoneyInv
<1>2. TypeOK'
  BY <1>1 DEF TypeOK, vaultVars, poolVars, shareVars, heldVars, slotVars, moneyVars
<1>3. CustodyInv'
  BY <1>1, <1>2, CustodyFrame DEF vaultVars, shareVars
<1>4. EthBacked' /\ ShareBacked'
  BY <1>1 DEF EthBacked, ShareBacked, vaultVars, poolVars, shareVars, moneyVars
<1> QED
  BY <1>3, <1>4 DEF IInv, MoneyInv

-----------------------------------------------------------------------------
(* The theorems                                                            *)

\* A batch, a function on 1..n in the action, is a sequence of tokens.
LEMMA BatchIsSequence == \A ts \in Batches : ts \in Seq(TokenIds)
<1>1. ASSUME NEW n \in 1..MAX_BATCH, NEW ts \in [1..n -> TokenIds]
      PROVE  ts \in Seq(TokenIds)
  <2>1. n \in Nat
    BY VaultAssumption
  <2> QED
    BY <2>1
<1> QED
  BY <1>1 DEF Batches

LEMMA Initially == Init => IInv /\ BeaconInv
<1> SUFFICES ASSUME Init PROVE IInv /\ BeaconInv
  OBVIOUS
<1> USE VaultAssumption DEF Init
<1>1. BeaconInv
  BY BeaconInitially
<1>2. NoRequest \in Requests /\ ~NoRequest.active
  BY DEF NoRequest, Requests
<1>3. TypeOK
  <2>1. ownerOf \in [TokenIds -> Accounts]
    BY DEF Accounts
  <2>2. call \in [sender : Users \cup {NoAccount}, rest : Seq(TokenIds)]
    BY DEF NoCall
  <2>3. /\ BeaconTypeOK
        /\ heldTokenIds \in Seq(TokenIds)
        /\ heldTokenIndex \in [TokenIds -> Nat]
        /\ redeemRequests \in [Users -> Requests]
    BY <1>1, <1>2 DEF BeaconInv
  <2>4. lpBalance \in [Users \cup {NoAccount} -> Nat] /\ balanceOf \in [Accounts -> Nat]
    OBVIOUS
  <2>5. pendingRequester \in Users \cup {NoAccount} /\ poolOpen \in BOOLEAN
    OBVIOUS
  <2>6. pendingRedeemCount \in 0..1 /\ ethBalance \in 0..MaxEth
    OBVIOUS
  <2>7. /\ ethReserve \in Nat /\ shareReserve \in Nat /\ accruedFees \in Nat
        /\ totalLpSupply \in Nat /\ totalSupply \in Nat
    OBVIOUS
  <2> HIDE DEF Init
  <2> QED
    BY <2>1, <2>2, <2>3, <2>4, <2>5, <2>6, <2>7 DEF TypeOK
<1>4. Solvent
  BY DEF Solvent, NoCall
<1>5. SlotCoherent
  BY <1>2 DEF SlotCoherent, Accounts
<1>6. HeldCoherent
  BY DEF HeldCoherent
<1>7. DrawHonourable
  BY <1>2 DEF DrawHonourable
<1>8. CallCoherent
  BY DEF CallCoherent, NoCall
<1>9. EthBacked /\ ShareBacked
  BY DEF EthBacked, ShareBacked, Accounts
<1> QED
  BY <1>1, <1>3, <1>4, <1>5, <1>6, <1>7, <1>8, <1>9 DEF IInv, CustodyInv, MoneyInv

\* Every transaction, callback and outside event preserves the invariant.
LEMMA Preserved == IInv /\ BeaconInv /\ [Next]_vars => IInv' /\ BeaconInv'
<1> SUFFICES ASSUME IInv, BeaconInv, [Next]_vars PROVE IInv' /\ BeaconInv'
  OBVIOUS
<1>1. BeaconInv'
  BY BeaconView, BeaconStep
<1>2. BeaconTypeOK'
  BY <1>1 DEF BeaconInv
<1>3. CASE CustodyNext
  <2>1. ASSUME NEW u \in Users, NEW t \in TokenIds, deposit(u, t) PROVE IInv'
    <3>1. <<t>> \in Seq(TokenIds)
      OBVIOUS
    <3> QED
      BY <2>1, <3>1, TakeInStep DEF deposit
  <2>2. ASSUME NEW u \in Users, NEW ts \in Batches, depositMany(u, ts) PROVE IInv'
    BY <2>2, BatchIsSequence, TakeInStep DEF depositMany
  <2>3. ASSUME NEW u \in Users, NEW ts \in Batches, redeemTargetMany(u, ts) PROVE IInv'
    BY <2>3, BatchIsSequence, RedeemTargetManyStep
  <2> QED
    BY <1>1, <1>3, <2>1, <2>2, <2>3, RequestStep, PinStep, ClaimStep, ForfeitStep,
       RedeemTargetStep, RedeemNextStep DEF CustodyNext
<1>4. CASE PoolNext
  BY <1>1, <1>4, BuyStep, SellStep, AddLiquidityStep, RemoveLiquidityStep, TreasuryStep
     DEF PoolNext
<1>5. CASE ExternalNext
  <2>1. CASE ForceEth
    BY <1>1, <2>1, TreasuryStep
  <2>2. ASSUME UNCHANGED vaultVars PROVE IInv'
    BY <1>2, <2>2, BeaconMovesStep
  <2> QED
    BY <1>1, <1>5, <2>1, <2>2, TransferSharesStep, TransferNftStep
       DEF ExternalNext, TimePasses, RoundPublished, RoundRelayed
<1>6. CASE UNCHANGED vars
  BY <1>1, <1>2, <1>6, BeaconMovesStep DEF vars
<1> QED
  BY <1>1, <1>3, <1>4, <1>5, <1>6 DEF Next

\* The inductive invariant of the vault, and that of its beacon, hold in every state,
\* whatever users, pool, batches, callbacks and relayers do.
THEOREM Invariance == Spec => [](IInv /\ BeaconInv)
  BY Initially, Preserved, PTL DEF Spec

\* Types, for all constants: among others, no subtraction of the contract ever
\* goes below zero.
THEOREM TypeCorrect == Spec => []TypeOK
<1>1. IInv => TypeOK
  BY DEF IInv, CustodyInv
<1> QED
  BY <1>1, Invariance, PTL

\* _assertSolvent never fires: every share and every burned-but-unclaimed share
\* is backed by exactly one held NFT.
THEOREM Solvency == Spec => []Solvent
<1>1. IInv => Solvent
  BY DEF IInv, CustodyInv
<1> QED
  BY <1>1, Invariance, PTL

\* _assertEthBacked never fires: reserve and fees are covered by the balance.
THEOREM EtherIsThere == Spec => []EthBacked
<1>1. IInv => EthBacked
  BY DEF IInv, MoneyInv
<1> QED
  BY <1>1, Invariance, PTL

\* The pool's share reserve is really held, whoever transfers shares.
THEOREM SharesAreThere == Spec => []ShareBacked
<1>1. IInv => ShareBacked
  BY DEF IInv, MoneyInv
<1> QED
  BY <1>1, Invariance, PTL

\* The one vault-wide slot: redeemRequests, pendingRequester and the count tell the
\* same story after every function that writes one of them.
THEOREM SlotStaysCoherent == Spec => []SlotCoherent
<1>1. IInv => SlotCoherent
  BY DEF IInv, CustodyInv
<1> QED
  BY <1>1, Invariance, PTL

\* Slots and index stay inverse under swap-and-pop, whatever is taken in, redeemed,
\* drawn or sent to the vault behind its back.
THEOREM CustodyStaysCoherent == Spec => []HeldCoherent
<1>1. IInv => HeldCoherent
  BY DEF IInv, CustodyInv
<1> QED
  BY <1>1, Invariance, PTL

\* A pending request can always be honoured: the slots it will fall on exist, and
\* once drawn the token stays in custody and out of every running batch.
THEOREM DrawStaysHonourable == Spec => []DrawHonourable
<1>1. IInv => DrawHonourable
  BY DEF IInv, CustodyInv
<1> QED
  BY <1>1, Invariance, PTL

-----------------------------------------------------------------------------
(* Commit and reveal                                                       *)

\* Only requestRandomRedeem takes the free slot.
LEMMA SlotTakenByRequest ==
    ASSUME Next, pendingRequester = NoAccount, pendingRequester' # NoAccount
    PROVE  \E u \in Users : requestRandomRedeem(u)
<1>1. CASE PoolNext
  BY <1>1 DEF PoolNext, slotVars, buyShares, sellShares, addLiquidity, removeLiquidity,
              seedLiquidity, seedShares, openPool, withdrawFees
<1>2. CASE ExternalNext
  BY <1>2 DEF ExternalNext, vaultVars, slotVars, TransferShares, TransferNft, ForceEth,
              TimePasses, RoundPublished, RoundRelayed
<1>3. CASE CustodyNext
  BY <1>3 DEF CustodyNext, slotVars, deposit, depositMany, TakeIn, pinPendingDraw,
              claimRandomRedeemFor, forfeitExpiredRedeem, ReleaseSlot, redeemTarget,
              redeemTargetMany, RedeemNext
<1> QED
  BY <1>1, <1>2, <1>3 DEF Next

\* A request commits to a round that the network has not emitted, however the
\* chain's clock stands within one period of it (requestRandomRedeem's lead).
THEOREM CommitsToFuture == Spec => RequestTargetsFuture
<1> DEFINE Ahead ==
      (pendingRequester = NoAccount /\ pendingRequester' # NoAccount /\ MaxLag <= period)
        => redeemRequests'[pendingRequester'].targetRound > published
<1>1. ASSUME IInv, BeaconInv, [Next]_vars PROVE [Ahead]_vars
  <2> SUFFICES ASSUME Next, pendingRequester = NoAccount, pendingRequester' # NoAccount,
                      MaxLag <= period
               PROVE  redeemRequests'[pendingRequester'].targetRound > published
    BY <1>1
  <2>1. PICK u \in Users : requestRandomRedeem(u)
    BY SlotTakenByRequest
  <2>2. redeemRequests'[pendingRequester'].targetRound = TargetRound
    BY <1>1, <2>1 DEF requestRandomRedeem, IInv, CustodyInv, TypeOK
  <2>3. published < nextRoundAfter(now) + 1
    BY <1>1, <2>1, LeadFollows DEF requestRandomRedeem, LeadCoversLag
  <2>4. published \in Nat /\ nextRoundAfter(now) \in Nat
    <3>1. now \in Nat /\ published \in Nat
      BY <1>1, BeaconAssumption DEF BeaconInv, BeaconTypeOK
    <3>2. CASE now < genesisTimestamp
      BY <3>1, <3>2 DEF nextRoundAfter, currentRoundAt
    <3>3. CASE ~(now < genesisTimestamp)
      <4>1. (now - genesisTimestamp) \div period \in Nat
        BY <3>1, <3>3, BeaconAssumption, DivNat
      <4> QED
        BY <3>1, <3>3, <4>1 DEF nextRoundAfter, currentRoundAt
    <3> QED BY <3>1, <3>2, <3>3
  <2> QED
    BY <2>2, <2>3, <2>4, VaultAssumption DEF TargetRound
<1>2. Spec => [][Ahead]_vars
  BY <1>1, Invariance, PTL DEF Spec
<1> QED
  BY <1>2 DEF RequestTargetsFuture

-----------------------------------------------------------------------------
(* The ledgers                                                             *)

\* What a step may do to the shares: nothing, or one call of the ERC20.
ShareMove ==
    \/ UNCHANGED shareVars
    \/ \E u \in Accounts, a \in Nat : Mint(u, a) \/ Burn(u, a)
    \/ \E u, v \in Accounts, a \in Nat : Transfer(u, v, a)

LEMMA CustodyMovesShares ==
    ASSUME CustodyNext PROVE ShareMove
<1> USE VaultAssumption DEF ShareMove, Accounts
<1>1. ASSUME NEW u \in Users, NEW ts, Len(ts) \in Nat, TakeIn(u, ts) PROVE ShareMove
  BY <1>1, SharesForNat DEF TakeIn
<1>2. ASSUME NEW u \in Users, NEW t \in TokenIds, deposit(u, t) PROVE ShareMove
  BY <1>1, <1>2 DEF deposit
<1>3. ASSUME NEW u \in Users, NEW ts \in Batches, depositMany(u, ts) PROVE ShareMove
  BY <1>1, <1>3 DEF depositMany
<1>4. ASSUME NEW u \in Users, NEW ts \in Batches, redeemTargetMany(u, ts) PROVE ShareMove
  BY <1>4, SharesForNat DEF redeemTargetMany
<1>5. ASSUME NEW u \in Users, requestRandomRedeem(u) PROVE ShareMove
  BY <1>5 DEF requestRandomRedeem
<1>6. ASSUME NEW u \in Users, claimRandomRedeemFor(u) PROVE ShareMove
  BY <1>6 DEF claimRandomRedeemFor
<1>7. ASSUME NEW u \in Users, forfeitExpiredRedeem(u) PROVE ShareMove
  BY <1>7 DEF forfeitExpiredRedeem
<1>8. ASSUME NEW u \in Users, NEW t \in TokenIds, redeemTarget(u, t) PROVE ShareMove
  BY <1>8 DEF redeemTarget
<1>9. ASSUME pinPendingDraw \/ RedeemNext PROVE ShareMove
  BY <1>9 DEF pinPendingDraw, RedeemNext
<1> QED
  BY <1>2, <1>3, <1>4, <1>5, <1>6, <1>7, <1>8, <1>9 DEF CustodyNext

LEMMA PoolMovesShares ==
    ASSUME IInv, PoolNext PROVE ShareMove
<1> USE VaultAssumption DEF ShareMove, Accounts
<1>0. /\ ethReserve \in Nat /\ shareReserve \in Nat /\ totalLpSupply \in Nat
      /\ \A u \in Users : lpBalance[u] \in Nat
  BY PoolTypes
<1>1. ASSUME NEW u \in Users, NEW v \in EthAmounts, NEW m \in Floors, buyShares(u, v, m)
      PROVE  ShareMove
  <2>1. AmountOut(v, ethReserve, shareReserve) \in Nat
    BY <1>0, <1>1, AmountOutBounded DEF buyShares, Tradable
  <2> QED
    BY <1>1, <2>1 DEF buyShares, PushShares
<1>2. ASSUME NEW u \in Users, NEW s \in ShareAmounts, NEW m \in Floors, sellShares(u, s, m)
      PROVE  ShareMove
  BY <1>2 DEF sellShares, PullShares
<1>3. ASSUME NEW u \in Users, NEW v \in EthAmounts, NEW s \in ShareAmounts,
             NEW m \in Floors, addLiquidity(u, v, s, m)
      PROVE  ShareMove
  <2> DEFINE used == ceilDiv(v * shareReserve, ethReserve)
  <2>1. used \in Nat
    <3>1. v * shareReserve \in Nat /\ ethReserve \in Nat \ {0}
      BY <1>0, <1>3, MulNat DEF addLiquidity
    <3> DEFINE n == v * shareReserve + ethReserve - 1
    <3>2. n \in Nat /\ used = n \div ethReserve
      BY <3>1 DEF ceilDiv
    <3> HIDE DEF n
    <3> QED
      BY <3>1, <3>2, DivNat
  <2> QED
    BY <1>3, <2>1 DEF addLiquidity, PullShares
<1>4. ASSUME NEW u \in Users, NEW l \in LpAmounts, NEW m \in Floors, NEW n \in Floors,
             removeLiquidity(u, l, m, n)
      PROVE  ShareMove
  <2> DEFINE out == (l * shareReserve) \div totalLpSupply
  <2>1. l \in Nat /\ l # 0 /\ l <= totalLpSupply
    BY <1>4 DEF removeLiquidity
  <2>2. totalLpSupply \in Nat \ {0}
    BY <1>0, <2>1
  <2>4. l * shareReserve \in Nat
    BY <1>0, <2>1, MulNat
  <2>3. out \in Nat
    BY <2>2, <2>4, DivNat
  <2> QED
    BY <1>4, <2>3 DEF removeLiquidity, PushShares
<1>5. ASSUME NEW s \in ShareAmounts, NEW v \in EthAmounts \cup {0}, seedShares(s, v)
      PROVE  ShareMove
  BY <1>5 DEF seedShares, PullShares
<1>6. ASSUME NEW v \in EthAmounts, seedLiquidity(v) PROVE ShareMove
  BY <1>6 DEF seedLiquidity
<1>7. ASSUME openPool \/ withdrawFees PROVE ShareMove
  BY <1>7 DEF openPool, withdrawFees
<1> QED
  BY <1>1, <1>2, <1>3, <1>4, <1>5, <1>6, <1>7 DEF PoolNext

LEMMA StepMovesShares ==
    ASSUME IInv, [Next]_vars PROVE ShareMove
<1>1. CASE ExternalNext
  BY <1>1, VaultAssumption DEF ExternalNext, ShareMove, Accounts, TransferShares, TransferNft, ForceEth,
     TimePasses, RoundPublished, RoundRelayed, vaultVars
<1> QED
  BY <1>1, CustodyMovesShares, PoolMovesShares DEF Next, vars, vaultVars, ShareMove

\* A call of the ERC20 moves the sum of the balances as it moves the supply.
LEMMA SharesAddUp ==
    ASSUME TypeOK, ShareMove, SumFunction(balanceOf) = totalSupply
    PROVE  SumFunction(balanceOf)' = totalSupply'
<1> DEFINE Sum(f) == SumFunctionOnSet(f, Accounts)
<1>0. /\ balanceOf \in [Accounts -> Nat] /\ totalSupply \in Nat
      /\ balanceOf \in [Accounts -> Int]
      /\ DOMAIN balanceOf = Accounts
      /\ Sum(balanceOf) = totalSupply
  BY DEF TypeOK, SumFunction
<1>1. IsFiniteSet(Accounts)
  BY VaultAssumption, FS_AddElement DEF Accounts
<1>2. CASE UNCHANGED shareVars
  BY <1>2 DEF shareVars, SumFunction
<1>3. ASSUME NEW f \in [Accounts -> Int], NEW g \in [Accounts -> Int], NEW u \in Accounts,
             \A y \in Accounts : y # u => g[y] = f[y]
      PROVE  Sum(g) = Sum(f) - f[u] + g[u] /\ Sum(f) \in Int
  <2>1. IntOn(f, Accounts) /\ IntOn(g, Accounts)
    BY DEF IntOn
  <2>2. SumFunctionOnSet(g, Accounts) = SumFunctionOnSet(f, Accounts) - f[u] + g[u]
    BY <1>1, <1>3, <2>1, SumUpdate
  <2>3. SumFunctionOnSet(f, Accounts) \in Int
    BY <1>1, <2>1, SumChosen
  <2> QED
    BY <2>2, <2>3
<1>4. ASSUME balanceOf' \in [Accounts -> Int], Sum(balanceOf') = totalSupply'
      PROVE  SumFunction(balanceOf)' = totalSupply'
  BY <1>4 DEF SumFunction
<1> HIDE DEF Sum
<1>5. ASSUME NEW u \in Accounts, NEW a \in Nat, Mint(u, a) \/ Burn(u, a)
      PROVE  SumFunction(balanceOf)' = totalSupply'
  <2>1. /\ balanceOf' \in [Accounts -> Int]
        /\ \A y \in Accounts : y # u => balanceOf'[y] = balanceOf[y]
        /\ balanceOf'[u] - balanceOf[u] = totalSupply' - totalSupply
        /\ balanceOf'[u] \in Int /\ totalSupply' \in Int /\ balanceOf[u] \in Int
    BY <1>0, <1>5 DEF Mint, Burn
  <2>2. Sum(balanceOf') = Sum(balanceOf) - balanceOf[u] + balanceOf'[u]
    BY <1>0, <1>3, <2>1
  <2>3. Sum(balanceOf') = totalSupply'
    BY <1>0, <2>1, <2>2
  <2> QED
    BY <1>4, <2>1, <2>3
<1>6. ASSUME NEW u \in Accounts, NEW v \in Accounts, NEW a \in Nat, Transfer(u, v, a)
      PROVE  SumFunction(balanceOf)' = totalSupply'
  <2> DEFINE mid == [y \in Accounts |-> IF y = u THEN balanceOf[u] - a ELSE balanceOf[y]]
  <2>1. /\ mid \in [Accounts -> Int]
        /\ mid[u] = balanceOf[u] - a
        /\ \A y \in Accounts : y # u => mid[y] = balanceOf[y]
    BY <1>0
  <2>2. /\ balanceOf' = [balanceOf EXCEPT ![u] = @ - a, ![v] = @ + a]
        /\ totalSupply' = totalSupply
    BY <1>6 DEF Transfer
  <2>3. /\ balanceOf' \in [Accounts -> Int]
        /\ balanceOf'[v] = mid[v] + a
        /\ \A y \in Accounts : y # v => balanceOf'[y] = mid[y]
    BY <1>0, <2>2
  <2> HIDE DEF mid
  <2>4. Sum(mid) = Sum(balanceOf) - balanceOf[u] + mid[u]
    BY <1>0, <1>3, <2>1
  <2>5. Sum(balanceOf') = Sum(mid) - mid[v] + balanceOf'[v] /\ Sum(mid) \in Int
    BY <1>3, <2>1, <2>3
  <2>6. mid[v] \in Int /\ balanceOf[u] \in Int
    BY <1>0, <2>1
  <2>7. Sum(balanceOf') = totalSupply'
    BY <1>0, <2>1, <2>2, <2>3, <2>4, <2>5, <2>6
  <2> QED
    BY <1>4, <2>3, <2>7
<1> QED
  BY <1>2, <1>5, <1>6 DEF ShareMove

-----------------------------------------------------------------------------
(* The pool                                                                *)

\* A pro-rata part, rounded down: the rest keeps its proportion at least, and
\* a part that is not the whole leaves something.
LEMMA PartOfReserve ==
    ASSUME NEW x \in Nat, NEW r \in Nat, NEW d \in Nat \ {0}, x <= d
    PROVE  /\ (x * r) \div d \in 0..r
           /\ (r - (x * r) \div d) * d >= r * (d - x)
           /\ (r > 0 /\ x < d) => (x * r) \div d < r
<1> DEFINE q == (x * r) \div d
<1>1. x * r \in Nat /\ x * r <= r * d
  <2>1. x * r <= d * r
    BY MulMono
  <2> QED
    BY <2>1, MulNat
<1>2. q \in 0..r
  BY <1>1, DivBound
<1>3. q * d <= x * r
  BY <1>1
<1> HIDE DEF q
<1>4. (r - q) * d = r * d - q * d /\ r * (d - x) = r * d - x * r
  BY <1>2
<1>5. q * d \in Int /\ r * d \in Int
  BY <1>2
<1>6. (r - q) * d >= r * (d - x)
  BY <1>1, <1>3, <1>4, <1>5
<1>7. ASSUME r > 0, x < d PROVE q < r
  <2>1. CASE q = r
    <3>1. r * (d - x) > 0
      BY <1>7
    <3>2. (r - q) * d = 0
      BY <2>1
    <3> QED
      BY <1>6, <3>1, <3>2, <1>4, <1>5, <1>1
  <2> QED
    BY <1>2, <2>1
<1> QED
  BY <1>2, <1>6, <1>7 DEF q

\* A trade leaves something in the reserve it is paid from, and the product of
\* the reserves does not fall.
LEMMA TradeFacts ==
    ASSUME NEW x \in Nat, NEW rin \in Nat \ {0}, NEW rout \in Nat \ {0}
    PROVE  /\ AmountOut(x, rin, rout) \in 0..rout - 1
           /\ (rin + x) * (rout - AmountOut(x, rin, rout)) >= rin * rout
<1> USE VaultAssumption
<1> DEFINE n == NetOfFee(x)
           out == AmountOut(x, rin, rout)
<1>1. n \in 0..x
  <2>1. x * (BPS_DENOMINATOR - swapFeeBps) <= x * BPS_DENOMINATOR
    <3>1. (BPS_DENOMINATOR - swapFeeBps) * x <= BPS_DENOMINATOR * x
      BY MulMono
    <3> QED
      BY <3>1
  <2>2. x * (BPS_DENOMINATOR - swapFeeBps) \in Nat
    BY MulNat
  <2> QED
    BY <2>1, <2>2, DivBound DEF NetOfFee
<1>2. out = (n * rout) \div (rin + n)
  BY DEF AmountOut
<1> HIDE DEF n, out
<1>3. /\ out \in 0..rout
      /\ (rout - out) * (rin + n) >= rout * ((rin + n) - n)
      /\ out < rout
  <2> DEFINE d == rin + n
  <2>1. d \in Nat \ {0} /\ n \in Nat /\ n <= d /\ n < d /\ rout > 0
    BY <1>1
  <2>2. out = (n * rout) \div d
    BY <1>2
  <2> HIDE DEF d
  <2>3. out \in 0..rout /\ (rout - out) * d >= rout * (d - n) /\ out < rout
    BY <2>1, <2>2, PartOfReserve
  <2> QED
    BY <2>3 DEF d
<1>4. (rin + n) * (rout - out) <= (rin + x) * (rout - out)
  <2>1. rin + n \in Nat /\ rin + x \in Nat /\ rout - out \in Nat /\ rin + n <= rin + x
    BY <1>1, <1>3
  <2> QED
    BY <2>1, MulMono
<1>5. (rin + x) * (rout - out) >= rin * rout
  <2>1. rout * ((rin + n) - n) = rin * rout
    BY <1>1
  <2>2. (rout - out) * (rin + n) = (rin + n) * (rout - out)
    BY <1>1, <1>3
  <2>3. (rin + n) * (rout - out) \in Int /\ (rin + x) * (rout - out) \in Int /\ rin * rout \in Int
    BY <1>1, <1>3
  <2> QED
    BY <1>3, <1>4, <2>1, <2>2, <2>3
<1> QED
  BY <1>3, <1>5 DEF out

LEMMA Monotone ==
    ASSUME NEW a \in Nat, NEW b \in Nat, NEW c \in Nat, NEW d \in Nat, a <= b, c <= d
    PROVE  a * c <= b * d
<1>1. a * c <= b * c
  BY MulMono
<1>2. c * b <= d * b
  BY MulMono
<1>3. c * b = b * c /\ d * b = b * d /\ a * c \in Int /\ b * c \in Int /\ b * d \in Int
  OBVIOUS
<1> QED
  BY <1>1, <1>2, <1>3

\* The claim of an LP unit, squared and multiplied out: reserves e, s and units l
\* become e2, s2 and l2.
Undiluted(e, s, l, e2, s2, l2) == e2 * s2 * l * l >= e * s * l2 * l2

LEMMA TradeUndiluted ==
    ASSUME NEW e \in Nat, NEW s \in Nat, NEW l \in Nat, NEW e2 \in Nat, NEW s2 \in Nat,
           e * s <= e2 * s2
    PROVE  Undiluted(e, s, l, e2, s2, l)
<1>1. e * s \in Nat /\ e2 * s2 \in Nat /\ l * l \in Nat
  BY MulNat
<1>2. (e * s) * (l * l) <= (e2 * s2) * (l * l)
  BY <1>1, MulMono
<1>3. (e * s) * (l * l) = e * s * l * l /\ (e2 * s2) * (l * l) = e2 * s2 * l * l
  OBVIOUS
<1> QED
  BY <1>1, <1>2, <1>3 DEF Undiluted

\* Both reserves keep their proportion to the units at least.
LEMMA ProportionUndiluted ==
    ASSUME NEW e \in Nat, NEW s \in Nat, NEW l \in Nat, NEW e2 \in Nat, NEW s2 \in Nat,
           NEW l2 \in Nat, e * l2 <= e2 * l, s * l2 <= s2 * l
    PROVE  Undiluted(e, s, l, e2, s2, l2)
<1>1. e * l2 \in Nat /\ e2 * l \in Nat /\ s * l2 \in Nat /\ s2 * l \in Nat
  BY MulNat
<1>2. (e * l2) * (s * l2) <= (e2 * l) * (s2 * l)
  BY <1>1, Monotone
<1>3. (e * l2) * (s * l2) = e * s * l2 * l2 /\ (e2 * l) * (s2 * l) = e2 * s2 * l * l
  OBVIOUS
<1>4. e * s * l2 * l2 \in Int /\ e2 * s2 * l * l \in Int
  OBVIOUS
<1> QED
  BY <1>2, <1>3, <1>4 DEF Undiluted

\* A common factor can be cancelled.
LEMMA Cancel ==
    ASSUME NEW a \in Nat, NEW b \in Nat, NEW c \in Nat \ {0}, a * c <= b * c
    PROVE  a <= b
<1> SUFFICES ASSUME a >= b + 1 PROVE FALSE
  OBVIOUS
<1>1. (b + 1) * c <= a * c
  BY MulMono
<1>2. (b + 1) * c = b * c + c /\ b * c \in Int /\ a * c \in Int
  OBVIOUS
<1> QED
  BY <1>1, <1>2

\* A contribution: shares rounded up, units rounded down, against the ETH reserve
\* before and after.
LEMMA ContributionUndiluted ==
    ASSUME NEW e \in Nat \ {0}, NEW s \in Nat, NEW l \in Nat, NEW e2 \in Nat,
           NEW s2 \in Nat, NEW l2 \in Nat, e <= e2,
           s * e2 <= s2 * e, l2 * e <= l * e2
    PROVE  Undiluted(e, s, l, e2, s2, l2)
<1>1. (s * e2) * l <= (s2 * e) * l
  BY MulNat, MulMono
<1>2. s * (l2 * e) <= s * (l * e2)
  <2>1. l2 * e \in Nat /\ l * e2 \in Nat
    BY MulNat
  <2> QED
    BY <2>1, Monotone
<1>3. (s * l2) * e <= (s2 * l) * e
  <2>1. (s * e2) * l = s * (l * e2) /\ s * (l2 * e) = (s * l2) * e /\ (s2 * e) * l = (s2 * l) * e
    OBVIOUS
  <2>2. (s * e2) * l \in Int /\ (s * l2) * e \in Int /\ (s2 * l) * e \in Int
    OBVIOUS
  <2> QED
    BY <1>1, <1>2, <2>1, <2>2
<1>4. s * l2 <= s2 * l
  BY <1>3, MulNat, Cancel
<1>5. e * l2 <= e2 * l
  <2>1. l2 * e = e * l2 /\ l * e2 = e2 * l
    OBVIOUS
  <2> QED
    BY <2>1
<1> QED
  BY <1>4, <1>5, ProportionUndiluted

\* The LP units add up, none exist before the pool is opened, and from then on
\* the locked ones cannot be burned and neither reserve is empty.
LpInv ==
    /\ SumFunction(lpBalance) = totalLpSupply
    /\ ~poolOpen => totalLpSupply = 0
    /\ poolOpen => lpBalance[Locked] > 0 /\ ethReserve > 0 /\ shareReserve > 0

LpHolders == Users \cup {NoAccount}

ProvidersClaim(e2, s2, l2) == Undiluted(ethReserve, shareReserve, totalLpSupply, e2, s2, l2)

\* The pool's numbers at work: types, and what nobody can burn.
LEMMA LpFacts ==
    ASSUME IInv, LpInv
    PROVE  /\ IsFiniteSet(LpHolders) /\ Locked \in LpHolders /\ Locked \notin Users
           /\ lpBalance \in [LpHolders -> Nat] /\ IntOn(lpBalance, LpHolders)
           /\ SumFunctionOnSet(lpBalance, LpHolders) = totalLpSupply
           /\ ethReserve \in Nat /\ shareReserve \in Nat /\ totalLpSupply \in Nat
           /\ poolOpen \in BOOLEAN
           /\ poolOpen => totalLpSupply \in Nat \ {0}
           /\ \A u \in Users : poolOpen => lpBalance[u] < totalLpSupply
<1>1. /\ IsFiniteSet(LpHolders) /\ Locked \in LpHolders /\ Locked \notin Users
      /\ lpBalance \in [LpHolders -> Nat]
      /\ IntOn(lpBalance, LpHolders)
  BY PoolTypes, VaultAssumption, FS_AddElement DEF LpHolders, Locked, IntOn, Accounts
<1>2. SumFunctionOnSet(lpBalance, LpHolders) = totalLpSupply
  BY <1>1 DEF LpInv, SumFunction
<1>3. ASSUME NEW u \in Users, poolOpen PROVE lpBalance[u] < totalLpSupply
  <2> DEFINE rest == LpHolders \ {Locked}
  <2>1. totalLpSupply = lpBalance[Locked] + SumFunctionOnSet(lpBalance, rest)
    BY <1>1, <1>2, SumSplit
  <2>2. IsFiniteSet(rest) /\ u \in rest /\ \A x \in rest : lpBalance[x] \in Nat
    BY <1>1, SumSubset DEF LpHolders
  <2>3. lpBalance[u] <= SumFunctionOnSet(lpBalance, rest)
    BY <2>2, SumNatural
  <2>4. SumFunctionOnSet(lpBalance, rest) \in Nat
    BY <2>2, SumNatural
  <2> QED
    BY <1>1, <1>3, <2>1, <2>2, <2>3, <2>4 DEF LpInv
<1>4. poolOpen => totalLpSupply # 0
  <2> SUFFICES ASSUME poolOpen PROVE totalLpSupply # 0
    OBVIOUS
  <2>1. lpBalance[Locked] <= totalLpSupply
    BY <1>1, <1>2, SumNatural
  <2> QED
    BY <1>1, <2>1 DEF LpInv
<1> QED
  BY <1>1, <1>2, <1>3, <1>4, PoolTypes

\* One account's units change, the supply with them.
LEMMA LpMoves ==
    ASSUME IInv, LpInv, lpBalance' \in [LpHolders -> Nat], NEW u \in LpHolders,
           \A v \in LpHolders : v # u => lpBalance'[v] = lpBalance[v],
           lpBalance'[u] - lpBalance[u] = totalLpSupply' - totalLpSupply,
           totalLpSupply' \in Nat
    PROVE  SumFunction(lpBalance)' = totalLpSupply'
<1>1. IntOn(lpBalance', LpHolders)
  BY DEF IntOn
<1>2. SumFunctionOnSet(lpBalance', LpHolders)
        = SumFunctionOnSet(lpBalance, LpHolders) - lpBalance[u] + lpBalance'[u]
  BY <1>1, LpFacts, SumUpdate
<1>3. SumFunctionOnSet(lpBalance', LpHolders) = totalLpSupply'
  BY <1>2, LpFacts
<1> QED
  BY <1>3 DEF SumFunction

LEMMA TradesKeepPool ==
    ASSUME IInv, LpInv, NEW u \in Users, NEW m \in Floors,
           \/ \E v \in EthAmounts : buyShares(u, v, m)
           \/ \E s \in ShareAmounts : sellShares(u, s, m)
    PROVE  LpInv' /\ ProvidersClaim(ethReserve', shareReserve', totalLpSupply')
<1>0. /\ EthAmounts \subseteq Nat /\ ShareAmounts \subseteq Nat
      /\ ethReserve \in Nat /\ shareReserve \in Nat /\ totalLpSupply \in Nat
  BY VaultAssumption, LpFacts
<1>1. ASSUME NEW v \in EthAmounts, buyShares(u, v, m)
      PROVE  LpInv' /\ ProvidersClaim(ethReserve', shareReserve', totalLpSupply')
  <2> DEFINE out == AmountOut(v, ethReserve, shareReserve)
  <2>1. /\ shareReserve' = shareReserve - out /\ ethReserve' = ethReserve + v
        /\ UNCHANGED <<poolOpen, lpBalance, totalLpSupply>>
        /\ ethReserve \in Nat \ {0} /\ shareReserve \in Nat \ {0}
    BY <1>0, <1>1 DEF buyShares, PushShares, Receive, Tradable
  <2>2. /\ out \in 0..shareReserve - 1
        /\ (ethReserve + v) * (shareReserve - out) >= ethReserve * shareReserve
    BY <1>0, <2>1, TradeFacts
  <2> HIDE DEF out
  <2>3. LpInv'
    BY <1>0, <2>1, <2>2 DEF LpInv, Locked, SumFunction
  <2>4. ethReserve * shareReserve <= ethReserve' * shareReserve'
    BY <2>1, <2>2
  <2>5. ethReserve' \in Nat /\ shareReserve' \in Nat
    BY <1>0, <2>1, <2>2
  <2>6. ProvidersClaim(ethReserve', shareReserve', totalLpSupply)
    BY <1>0, <2>4, <2>5, TradeUndiluted DEF ProvidersClaim
  <2> QED
    BY <2>1, <2>3, <2>6
<1>2. ASSUME NEW s \in ShareAmounts, sellShares(u, s, m)
      PROVE  LpInv' /\ ProvidersClaim(ethReserve', shareReserve', totalLpSupply')
  <2> DEFINE out == AmountOut(s, shareReserve, ethReserve)
  <2>1. /\ shareReserve' = shareReserve + s /\ ethReserve' = ethReserve - out
        /\ UNCHANGED <<poolOpen, lpBalance, totalLpSupply>>
        /\ ethReserve \in Nat \ {0} /\ shareReserve \in Nat \ {0}
    BY <1>0, <1>2 DEF sellShares, PullShares, Send, Tradable
  <2>2. /\ out \in 0..ethReserve - 1
        /\ (shareReserve + s) * (ethReserve - out) >= shareReserve * ethReserve
    BY <1>0, <2>1, TradeFacts
  <2> HIDE DEF out
  <2>3. LpInv'
    BY <1>0, <2>1, <2>2 DEF LpInv, Locked, SumFunction
  <2>4. ethReserve * shareReserve <= ethReserve' * shareReserve'
    BY <1>0, <2>1, <2>2
  <2>5. ethReserve' \in Nat /\ shareReserve' \in Nat
    BY <1>0, <2>1, <2>2
  <2>6. ProvidersClaim(ethReserve', shareReserve', totalLpSupply)
    BY <1>0, <2>4, <2>5, TradeUndiluted DEF ProvidersClaim
  <2> QED
    BY <2>1, <2>3, <2>6
<1> QED
  BY <1>1, <1>2

\* Rounding up is rounding down what is one unit less than a whole more.
LEMMA CeilFacts ==
    ASSUME NEW a \in Nat, NEW d \in Nat \ {0}
    PROVE  ceilDiv(a, d) \in Nat /\ a <= ceilDiv(a, d) * d
<1> DEFINE n == a + d - 1
           q == n \div d
<1>1. n \in Nat
  OBVIOUS
<1> HIDE DEF n
<1>2. q \in Nat /\ q * d <= n /\ n < q * d + d
  BY <1>1
<1> HIDE DEF q
<1>3. q * d \in Nat
  BY <1>2
<1>4. a <= q * d
  BY <1>2, <1>3 DEF n
<1> QED
  BY <1>2, <1>4 DEF ceilDiv, q, n

LEMMA ContributionKeepsPool ==
    ASSUME IInv, LpInv, NEW u \in Users, NEW v \in EthAmounts, NEW x \in ShareAmounts,
           NEW m \in Floors, addLiquidity(u, v, x, m)
    PROVE  LpInv' /\ ProvidersClaim(ethReserve', shareReserve', totalLpSupply')
<1> DEFINE used == ceilDiv(v * shareReserve, ethReserve)
           lp == (v * totalLpSupply) \div ethReserve
<1>1. /\ ethReserve \in Nat \ {0} /\ v \in Nat /\ poolOpen
      /\ shareReserve \in Nat /\ totalLpSupply \in Nat
  BY VaultAssumption, LpFacts DEF addLiquidity
<1>2. used \in Nat /\ v * shareReserve <= used * ethReserve
  BY <1>1, MulNat, CeilFacts
<1>3. lp \in Nat /\ lp * ethReserve <= v * totalLpSupply
  <2>1. v * totalLpSupply \in Nat
    BY <1>1, MulNat
  <2> QED
    BY <1>1, <2>1
<1>4. /\ shareReserve' = shareReserve + used
      /\ ethReserve' = ethReserve + v
      /\ lpBalance' = [lpBalance EXCEPT ![u] = @ + lp]
      /\ totalLpSupply' = totalLpSupply + lp
      /\ poolOpen' = poolOpen
  BY DEF addLiquidity, PullShares, Receive, MintLp
<1> HIDE DEF used, lp
<1>5. SumFunction(lpBalance)' = totalLpSupply'
  <2>1. u \in LpHolders /\ lpBalance \in [LpHolders -> Nat]
    BY LpFacts DEF LpHolders
  <2>2. /\ lpBalance' \in [LpHolders -> Nat]
        /\ \A w \in LpHolders : w # u => lpBalance'[w] = lpBalance[w]
        /\ lpBalance'[u] - lpBalance[u] = totalLpSupply' - totalLpSupply
        /\ totalLpSupply' \in Nat
    BY <1>1, <1>3, <1>4, <2>1
  <2> QED
    BY <2>1, <2>2, LpMoves
<1>6. LpInv'
  <2>1. Locked # u /\ lpBalance'[Locked] = lpBalance[Locked]
    BY <1>4, LpFacts
  <2> QED
    BY <1>1, <1>2, <1>4, <1>5, <2>1 DEF LpInv, Locked
<1>7. shareReserve * ethReserve' <= shareReserve' * ethReserve
  <2>1. shareReserve * ethReserve' = shareReserve * ethReserve + v * shareReserve
    BY <1>1, <1>4
  <2>2. shareReserve' * ethReserve = shareReserve * ethReserve + used * ethReserve
    BY <1>1, <1>2, <1>4
  <2>3. shareReserve * ethReserve \in Int /\ v * shareReserve \in Int /\ used * ethReserve \in Int
    BY <1>1, <1>2
  <2> QED
    BY <1>2, <2>1, <2>2, <2>3
<1>8. totalLpSupply' * ethReserve <= totalLpSupply * ethReserve'
  <2>1. totalLpSupply * ethReserve' = totalLpSupply * ethReserve + v * totalLpSupply
    BY <1>1, <1>4
  <2>2. totalLpSupply' * ethReserve = totalLpSupply * ethReserve + lp * ethReserve
    BY <1>1, <1>3, <1>4
  <2>3. /\ totalLpSupply * ethReserve \in Int /\ v * totalLpSupply \in Int
        /\ lp * ethReserve \in Int
    BY <1>1, <1>3
  <2> QED
    BY <1>3, <2>1, <2>2, <2>3
<1>9. /\ ethReserve' \in Nat /\ shareReserve' \in Nat /\ totalLpSupply' \in Nat
      /\ ethReserve <= ethReserve'
  BY <1>1, <1>2, <1>3, <1>4
<1>10. ProvidersClaim(ethReserve', shareReserve', totalLpSupply')
  BY <1>1, <1>7, <1>8, <1>9, ContributionUndiluted DEF ProvidersClaim
<1> QED
  BY <1>6, <1>10

LEMMA WithdrawalKeepsPool ==
    ASSUME IInv, LpInv, NEW u \in Users, NEW x \in LpAmounts, NEW m \in Floors,
           NEW k \in Floors, removeLiquidity(u, x, m, k)
    PROVE  LpInv' /\ (poolOpen => ProvidersClaim(ethReserve', shareReserve', totalLpSupply'))
<1> DEFINE eOut == (x * ethReserve) \div totalLpSupply
           sOut == (x * shareReserve) \div totalLpSupply
<1>1. /\ x \in Nat /\ x # 0 /\ x <= totalLpSupply /\ x <= lpBalance[u]
      /\ ethReserve \in Nat /\ shareReserve \in Nat /\ totalLpSupply \in Nat \ {0}
  BY VaultAssumption, LpFacts DEF removeLiquidity
<1>2. poolOpen /\ x < totalLpSupply
  <2>1. poolOpen
    BY <1>1, LpFacts DEF LpInv
  <2>2. lpBalance[u] < totalLpSupply /\ lpBalance[u] \in Nat
    BY <2>1, LpFacts DEF LpHolders
  <2> QED
    BY <1>1, <2>1, <2>2
<1>3. /\ eOut \in 0..ethReserve /\ eOut < ethReserve
      /\ (ethReserve - eOut) * totalLpSupply >= ethReserve * (totalLpSupply - x)
  BY <1>1, <1>2, PartOfReserve DEF LpInv
<1>4. /\ sOut \in 0..shareReserve /\ sOut < shareReserve
      /\ (shareReserve - sOut) * totalLpSupply >= shareReserve * (totalLpSupply - x)
  BY <1>1, <1>2, PartOfReserve DEF LpInv
<1>5. /\ shareReserve' = shareReserve - sOut
      /\ ethReserve' = ethReserve - eOut
      /\ lpBalance' = [lpBalance EXCEPT ![u] = @ - x]
      /\ totalLpSupply' = totalLpSupply - x
      /\ poolOpen' = poolOpen
  BY DEF removeLiquidity, PushShares, Send
<1> HIDE DEF eOut, sOut
<1>6. SumFunction(lpBalance)' = totalLpSupply'
  <2>1. u \in LpHolders /\ lpBalance \in [LpHolders -> Nat]
    BY LpFacts DEF LpHolders
  <2>2. /\ lpBalance' \in [LpHolders -> Nat]
        /\ \A w \in LpHolders : w # u => lpBalance'[w] = lpBalance[w]
        /\ lpBalance'[u] - lpBalance[u] = totalLpSupply' - totalLpSupply
        /\ totalLpSupply' \in Nat
    BY <1>1, <1>5, <2>1
  <2> QED
    BY <2>1, <2>2, LpMoves
<1>7. LpInv'
  <2>1. Locked # u /\ lpBalance'[Locked] = lpBalance[Locked]
    BY <1>5, LpFacts
  <2> QED
    BY <1>1, <1>2, <1>3, <1>4, <1>5, <1>6, <2>1 DEF LpInv, Locked
<1>8. /\ ethReserve' \in Nat /\ shareReserve' \in Nat /\ totalLpSupply' \in Nat
      /\ ethReserve * totalLpSupply' <= ethReserve' * totalLpSupply
      /\ shareReserve * totalLpSupply' <= shareReserve' * totalLpSupply
  BY <1>1, <1>3, <1>4, <1>5
<1>9. ProvidersClaim(ethReserve', shareReserve', totalLpSupply')
  BY <1>1, <1>8, ProportionUndiluted DEF ProvidersClaim
<1> QED
  BY <1>7, <1>9

\* Opening locks the first units, all there are.
LEMMA OpeningKeepsPool ==
    ASSUME IInv, LpInv, openPool PROVE LpInv'
<1>1. /\ ~poolOpen /\ poolOpen' /\ UNCHANGED <<ethReserve, shareReserve>>
      /\ ethReserve > 0 /\ shareReserve > 0 /\ totalLpSupply = 0
  BY LpFacts DEF openPool, LpInv
<1>2. PICK l0 \in 0..ethReserve * shareReserve :
          /\ l0 > MIN_INITIAL_LIQUIDITY
          /\ lpBalance' = [lpBalance EXCEPT ![Locked] = l0]
          /\ totalLpSupply' = l0
  BY DEF openPool
<1> l0 \in Nat /\ l0 > 0
  BY <1>2, VaultAssumption
<1>3. Locked \in LpHolders /\ lpBalance \in [LpHolders -> Nat]
  BY LpFacts
<1>4. lpBalance[Locked] = 0
  <2>1. lpBalance[Locked] <= SumFunctionOnSet(lpBalance, LpHolders)
    BY LpFacts, SumNatural
  <2> QED
    BY <1>1, <1>3, <2>1, LpFacts
<1>5. /\ lpBalance' \in [LpHolders -> Nat]
      /\ \A v \in LpHolders : v # Locked => lpBalance'[v] = lpBalance[v]
      /\ lpBalance'[Locked] = l0
      /\ lpBalance'[Locked] - lpBalance[Locked] = totalLpSupply' - totalLpSupply
  BY <1>1, <1>2, <1>3, <1>4
<1>6. SumFunction(lpBalance)' = totalLpSupply'
  BY <1>2, <1>3, <1>5, LpMoves
<1> QED
  BY <1>1, <1>2, <1>5, <1>6 DEF LpInv, Locked

\* Seeding is over once the pool is open.
LEMMA SeedingKeepsPool ==
    ASSUME LpInv,
           \/ \E v \in EthAmounts : seedLiquidity(v)
           \/ \E x \in ShareAmounts, v \in EthAmounts \cup {0} : seedShares(x, v)
    PROVE  LpInv' /\ ~poolOpen
  BY DEF seedLiquidity, seedShares, PullShares, LpInv

\* The rest does not touch the pool.
LEMMA OthersKeepPool ==
    ASSUME LpInv, CustodyNext \/ ExternalNext \/ withdrawFees \/ UNCHANGED vars
    PROVE  UNCHANGED poolVars
<1>1. CASE CustodyNext
  BY <1>1 DEF CustodyNext, deposit, depositMany, TakeIn, requestRandomRedeem,
     pinPendingDraw, claimRandomRedeemFor, forfeitExpiredRedeem, redeemTarget,
     redeemTargetMany, RedeemNext
<1>2. CASE ExternalNext
  BY <1>2 DEF ExternalNext, TransferShares, TransferNft, ForceEth, TimePasses,
     RoundPublished, RoundRelayed, vaultVars
<1> QED
  BY <1>1, <1>2 DEF withdrawFees, vars, vaultVars

LEMMA StepKeepsPool ==
    ASSUME IInv, LpInv, [Next]_vars
    PROVE  LpInv' /\ (poolOpen => ProvidersClaim(ethReserve', shareReserve', totalLpSupply'))
<1>1. ASSUME UNCHANGED poolVars
      PROVE  LpInv' /\ ProvidersClaim(ethReserve', shareReserve', totalLpSupply')
  <2>1. LpInv'
    BY <1>1 DEF LpInv, Locked, poolVars, SumFunction
  <2>2. ethReserve * shareReserve <= ethReserve * shareReserve
    BY LpFacts
  <2>3. ProvidersClaim(ethReserve, shareReserve, totalLpSupply)
    BY <2>2, LpFacts, TradeUndiluted DEF ProvidersClaim
  <2> QED
    BY <1>1, <2>1, <2>3 DEF poolVars
<1>2. CASE PoolNext
  BY <1>1, <1>2, TradesKeepPool, ContributionKeepsPool, WithdrawalKeepsPool,
     OpeningKeepsPool, SeedingKeepsPool, OthersKeepPool DEF PoolNext, openPool
<1> QED
  BY <1>1, <1>2, OthersKeepPool DEF Next

\* Both ledgers of the contract add up, whatever it calls and whoever calls it.
LedgerInv ==
    /\ LpInv
    /\ SumFunction(balanceOf) = totalSupply

LEMMA LedgersInitially == Init => LedgerInv
<1> SUFFICES ASSUME Init PROVE LedgerInv
  OBVIOUS
<1>1. IsFiniteSet(Users \cup {NoAccount}) /\ IsFiniteSet(Accounts)
  BY VaultAssumption, FS_AddElement DEF Accounts
<1>2. SumFunction(lpBalance) = 0 /\ SumFunction(balanceOf) = 0
  <2>1. /\ DOMAIN lpBalance = Users \cup {NoAccount} /\ DOMAIN balanceOf = Accounts
        /\ \A x \in Users \cup {NoAccount} : lpBalance[x] = 0
        /\ \A x \in Accounts : balanceOf[x] = 0
    BY DEF Init
  <2> QED
    BY <1>1, <2>1, SumZero DEF SumFunction
<1> QED
  BY <1>2 DEF Init, LedgerInv, LpInv

\* The books of shares and LP units balance in every state (balanceOf, lpBalance and
\* their supplies).
THEOREM LedgerInvariance == Spec => [](IInv /\ LedgerInv)
<1>1. IInv /\ LedgerInv /\ [Next]_vars => LedgerInv'
  BY StepKeepsPool, StepMovesShares, SharesAddUp DEF LedgerInv, IInv, CustodyInv
<1> QED
  BY <1>1, LedgersInitially, Invariance, PTL DEF Spec

\* The sums of the balances are the supplies: no unit and no share appears or
\* disappears beside the books.
THEOREM LedgersBalance == Spec => []LedgersAddUp
<1>1. LedgerInv => LedgersAddUp
  BY DEF LedgerInv, LpInv, LedgersAddUp
<1> QED
  BY <1>1, LedgerInvariance, PTL

\* Once open, the pool cannot be bricked: rounding down leaves something in the
\* reserves, and the units locked at address(0) keep the supply above zero.
THEOREM PoolSurvives == Spec => []PoolNeverBricked
<1>1. IInv /\ LedgerInv => PoolNeverBricked
  BY LpFacts DEF LedgerInv, LpInv, PoolNeverBricked
<1> QED
  BY <1>1, LedgerInvariance, PTL

\* No trade, contribution or withdrawal lowers what an LP unit is worth, for
\* every fee, amount and state of the reserves.
THEOREM ProvidersKeepTheirClaim == Spec => PoolNeverDiluted
<1> DEFINE Kept == poolOpen =>
        ethReserve' * shareReserve' * totalLpSupply * totalLpSupply
          >= ethReserve * shareReserve * totalLpSupply' * totalLpSupply'
<1>1. IInv /\ LedgerInv /\ [Next]_vars => [Kept]_vars
  BY StepKeepsPool DEF LedgerInv, ProvidersClaim, Undiluted
<1>2. Spec => [][Kept]_vars
  BY <1>1, LedgerInvariance, PTL DEF Spec
<1> QED
  BY <1>2 DEF PoolNeverDiluted

-----------------------------------------------------------------------------
(* The vault implements CommitRevealDraw                                   *)

\* The menu and the drawn token as the refinement mapping reads them.
Menu ==
    IF PendingRequest.active /\ ~PendingRequest.pinned
    THEN SubSeq(heldTokenIds, 1, PendingRequest.frozenLen) ELSE <<>>

Drawn == IF PendingRequest.pinned THEN {PendingRequest.drawnTokenId} ELSE {}

Idle == pendingRequester = NoAccount

Undrawn == pendingRequester # NoAccount /\ ~PendingRequest.pinned

\* With nobody waiting the abstract state is free.
LEMMA IdleView ==
    ASSUME Idle
    PROVE  PendingRequest = NoRequest /\ Menu = <<>> /\ Drawn = {} /\ Draw!Free
  BY DEF Idle, PendingRequest, NoRequest, Menu, Drawn, Draw!Free

LEMMA PendingView ==
    ASSUME IInv, ~Idle
    PROVE  /\ pendingRequester \in Users
           /\ PendingRequest = redeemRequests[pendingRequester]
           /\ PendingRequest \in Requests
           /\ PendingRequest.active
  BY DEF IInv, CustodyInv, TypeOK, SlotCoherent, Idle, PendingRequest

\* The menu of a request not yet drawn is the frozen prefix of the slots.
FrozenMenu ==
    PendingRequest.frozenLen \in 1..Len(heldTokenIds)
      /\ Menu = SubSeq(heldTokenIds, 1, PendingRequest.frozenLen)

KeptHeld ==
    \A t \in {Menu[i] : i \in 1..Len(Menu)} \cup Drawn :
        t \in TokenIds /\ ownerOf[t] = Vault

LEMMA MenuView ==
    ASSUME IInv, Undrawn
    PROVE  /\ Drawn = {}
           /\ call.rest = <<>>
           /\ PendingRequest.frozenLen \in 1..Len(heldTokenIds)
           /\ Menu = SubSeq(heldTokenIds, 1, PendingRequest.frozenLen)
           /\ Len(Menu) = PendingRequest.frozenLen
           /\ \A i \in 1..Len(Menu) :
                 /\ i \in 1..Len(heldTokenIds)
                 /\ Menu[i] = heldTokenIds[i]
                 /\ Menu[i] \in TokenIds
                 /\ ownerOf[Menu[i]] = Vault
<1>1. /\ pendingRequester \in Users
      /\ PendingRequest = redeemRequests[pendingRequester]
      /\ PendingRequest.active
  BY PendingView DEF Undrawn, Idle
<1>2. /\ PendingRequest.frozenLen \in 1..Len(heldTokenIds)
      /\ call.rest = <<>>
  BY <1>1 DEF IInv, CustodyInv, DrawHonourable, Undrawn
<1>3. heldTokenIds \in Seq(TokenIds)
  BY DEF IInv, CustodyInv, TypeOK
<1>4. Menu = SubSeq(heldTokenIds, 1, PendingRequest.frozenLen) /\ Drawn = {}
  BY <1>1 DEF Menu, Drawn, Undrawn
<1> DEFINE len == PendingRequest.frozenLen
<1>5. len \in 1..Len(heldTokenIds) /\ Menu = SubSeq(heldTokenIds, 1, len)
  BY <1>2, <1>4
<1> HIDE DEF len
<1>6. /\ Len(Menu) = len
      /\ \A i \in 1..len : Menu[i] = heldTokenIds[i] /\ i \in 1..Len(heldTokenIds)
  BY <1>3, <1>5
<1>7. \A i \in 1..Len(heldTokenIds) :
        /\ heldTokenIds[i] \in TokenIds
        /\ heldTokenIndex[heldTokenIds[i]] = i
        /\ ownerOf[heldTokenIds[i]] = Vault
  <2>1. \A i \in 1..Len(heldTokenIds) :
          heldTokenIds[i] \in TokenIds /\ heldTokenIndex[heldTokenIds[i]] = i /\ i # 0
    BY <1>3 DEF IInv, CustodyInv, HeldCoherent
  <2> QED
    BY <2>1 DEF IInv, CustodyInv, HeldCoherent
<1> QED
  BY <1>2, <1>4, <1>6, <1>7 DEF len

\* The token of a request already drawn: in custody, in nobody's batch.
LEMMA DrawnView ==
    ASSUME IInv, ~Idle, PendingRequest.pinned
    PROVE  /\ Menu = <<>>
           /\ Drawn = {PendingRequest.drawnTokenId}
           /\ PendingRequest.drawnTokenId \in TokenIds
           /\ ownerOf[PendingRequest.drawnTokenId] = Vault
<1>1. /\ PendingRequest.drawnTokenId \in TokenIds
      /\ heldTokenIndex[PendingRequest.drawnTokenId] # 0
  BY PendingView DEF IInv, CustodyInv, DrawHonourable
<1> QED
  BY <1>1 DEF IInv, CustodyInv, HeldCoherent, Menu, Drawn

\* What somebody waits for is in custody.
LEMMA KeptInCustody ==
    ASSUME IInv
    PROVE  KeptHeld
<1> USE DEF KeptHeld
<1>1. CASE Idle
  BY <1>1, IdleView
<1>2. CASE ~Idle /\ PendingRequest.pinned
  BY <1>2, DrawnView
<1>3. CASE Undrawn
  BY <1>3, MenuView
<1> QED
  BY <1>1, <1>2, <1>3 DEF Idle, Undrawn

\* The two views as facts that hold of the next state as well.
LEMMA ViewsHold ==
    /\ IInv /\ Undrawn => FrozenMenu
    /\ IInv => KeptHeld
  BY MenuView, KeptInCustody DEF FrozenMenu

LEMMA ViewsHoldNext ==
    /\ IInv' /\ Undrawn' => FrozenMenu'
    /\ IInv' => KeptHeld'
  BY ViewsHold, PTL

\* Whatever leaves the pending request and its frozen prefix alone is no step of
\* the draw.
LEMMA NothingDrawn ==
    ASSUME IInv, IInv', Draw!Forward,
           UNCHANGED <<pendingRequester, PendingRequest>>,
           Undrawn => \A i \in 1..PendingRequest.frozenLen :
                         heldTokenIds'[i] = heldTokenIds[i]
    PROVE  Draw!Otherwise
<1>1. Menu' = Menu
  <2>1. CASE Undrawn
    <3>1. Undrawn'
      BY <2>1 DEF Undrawn
    <3> DEFINE len == PendingRequest.frozenLen
    <3>2. len = PendingRequest.frozenLen'
      OBVIOUS
    <3>3. /\ heldTokenIds \in Seq(TokenIds) /\ heldTokenIds' \in Seq(TokenIds)
      BY DEF IInv, CustodyInv, TypeOK
    <3>4. len \in 1..Len(heldTokenIds) /\ Menu = SubSeq(heldTokenIds, 1, len)
      BY <2>1, MenuView
    <3>5. len \in 1..Len(heldTokenIds') /\ Menu' = SubSeq(heldTokenIds', 1, len)
      BY <3>1, ViewsHoldNext DEF FrozenMenu
    <3>6. \A i \in 1..len : heldTokenIds'[i] = heldTokenIds[i]
      BY <2>1
    <3> HIDE DEF len
    <3> QED
      BY <3>3, <3>4, <3>5, <3>6
  <2>2. CASE ~Undrawn
    <3>1. CASE Idle
      BY <3>1, IdleView DEF Menu, NoRequest
    <3>2. CASE PendingRequest.pinned
      BY <3>2 DEF Menu
    <3> QED
      BY <2>2, <3>1, <3>2 DEF Undrawn, Idle
  <2> QED
    BY <2>1, <2>2
<1>2. Drawn' = Drawn
  BY DEF Drawn
<1>3. ownerOf' \in [TokenIds -> Accounts]
  BY DEF IInv, CustodyInv, TypeOK
<1>4. \A t \in {Menu[i] : i \in 1..Len(Menu)} \cup Drawn : ownerOf'[t] = Vault
  BY <1>1, <1>2, ViewsHoldNext DEF KeptHeld
<1> QED
  BY <1>1, <1>2, <1>3, <1>4
     DEF Draw!Otherwise, Draw!Kept, Draw!Owners, Menu, Drawn, Accounts

\* What the beacon knows stays, in every step.
LEMMA ForwardAlways ==
    ASSUME BeaconInv, [BeaconNext]_beaconVars
    PROVE  Draw!Forward
<1> USE BeaconAssumption DEF BeaconInv, BeaconTypeOK, Draw!Forward
<1>1. CASE Tick \/ PublishRound \/ UNCHANGED beaconVars
  BY <1>1 DEF Tick, PublishRound, beaconVars
<1>2. ASSUME NEW round \in 0..published + 1, NEW signature \in Signatures,
             SubmitRound(round, signature)
      PROVE  Draw!Forward
  <2>1. round \in DOMAIN randomness => randomnessOrZero(round) # NoRandomness
    BY DEF randomnessOrZero
  <2> QED
    BY <1>2, <2>1 DEF SubmitRound, Store
<1> QED
  BY <1>1, <1>2 DEF BeaconNext

\* A round is available iff it is in the cache.
LEMMA AvailableMeansStored ==
    ASSUME BeaconInv, NEW r
    PROVE  /\ isRoundAvailable(r) <=> r \in DOMAIN randomness
           /\ r \in DOMAIN randomness => randomnessOrZero(r) = randomness[r]
  BY BeaconAssumption DEF BeaconInv, BeaconTypeOK, isRoundAvailable, randomnessOrZero

\* The token the seed picks from the menu is the one _pinPendingDraw stores.
LEMMA PinDraws ==
    ASSUME IInv, BeaconInv, Pinnable
    PROVE  /\ Undrawn
           /\ PendingRequest.targetRound \in DOMAIN randomness
           /\ Draw!Outcome = AfterPin[pendingRequester].drawnTokenId
           /\ AfterPin[pendingRequester].pinned
           /\ AfterPin[pendingRequester].active
           /\ AfterPin[pendingRequester].targetRound = PendingRequest.targetRound
           /\ AfterPin[pendingRequester].drawnTokenId \in TokenIds
           /\ ownerOf[AfterPin[pendingRequester].drawnTokenId] = Vault
<1> USE VaultAssumption
<1> DEFINE p == pendingRequester
           r == redeemRequests[p].targetRound
           f == redeemRequests[p].frozenLen
           w == DrawWord(randomness[r], p)
<1>1. ~Idle
  BY DEF Pinnable, Idle
<1>2. /\ p \in Users /\ PendingRequest = redeemRequests[p] /\ redeemRequests[p].active
      /\ redeemRequests[p] \in Requests /\ redeemRequests \in [Users -> Requests]
  BY <1>1, PendingView DEF IInv, CustodyInv, TypeOK
<1>3. Undrawn
  BY <1>1, <1>2 DEF Pinnable, Undrawn, Idle
<1>4. r \in DOMAIN randomness /\ randomnessOrZero(r) = randomness[r]
  BY AvailableMeansStored DEF Pinnable
<1>5. w \in Nat
  BY <1>2, <1>4 DEF BeaconInv, BeaconTypeOK
<1>6. f \in 1..Len(heldTokenIds) /\ Len(Menu) = f
  BY <1>2, <1>3, MenuView
<1>7. w % f \in 0..f - 1
  <2>1. f \in Nat \ {0}
    BY <1>6 DEF IInv, CustodyInv, TypeOK
  <2> HIDE DEF f, w
  <2> QED
    BY <1>5, <2>1, ModBounds
<1>8. 1 + (w % f) \in 1..Len(Menu)
  <2>1. f \in Nat
    BY <1>6 DEF IInv, CustodyInv, TypeOK
  <2> HIDE DEF f, w
  <2> QED
    BY <1>6, <1>7, <2>1
<1>9. DrawnSlot(randomness[r], p) = 1 + (w % f)
  BY DEF DrawnSlot
<1>10. Menu[1 + (w % f)] = heldTokenIds[1 + (w % f)]
  BY <1>3, <1>8, MenuView
<1>11. Draw!Outcome = Menu[1 + (w % Len(Menu))]
  BY <1>2 DEF Draw!Outcome, Menu
<1>12. AfterPin = [redeemRequests EXCEPT ![p].pinned = TRUE,
                       ![p].drawnTokenId = heldTokenIds[DrawnSlot(randomness[r], p)]]
  BY <1>4 DEF AfterPin
<1>13. AfterPin[p] = [redeemRequests[p] EXCEPT !.pinned = TRUE,
                         !.drawnTokenId = heldTokenIds[DrawnSlot(randomness[r], p)]]
  BY <1>2, <1>12
<1>14. /\ AfterPin[p].pinned /\ AfterPin[p].active
       /\ AfterPin[p].targetRound = r
       /\ AfterPin[p].drawnTokenId = heldTokenIds[DrawnSlot(randomness[r], p)]
  BY <1>2, <1>13 DEF Requests
<1>15. AfterPin[p].drawnTokenId = Draw!Outcome
  BY <1>6, <1>9, <1>10, <1>11, <1>14
<1>16. /\ AfterPin[p].drawnTokenId \in TokenIds
       /\ heldTokenIndex[AfterPin[p].drawnTokenId] # 0
  BY <1>2, <1>14, PinFacts DEF IInv
<1>17. ownerOf[AfterPin[p].drawnTokenId] = Vault
  BY <1>16 DEF IInv, CustodyInv, HeldCoherent
<1> QED
  BY <1>2, <1>3, <1>4, <1>14, <1>15, <1>16, <1>17

\* _pinPendingDraw, wherever it is called from, is the reveal.
LEMMA PinReveals ==
    ASSUME IInv, IInv', BeaconInv, Pinnable, redeemRequests' = AfterPin,
           UNCHANGED <<pendingRequester, beaconVars>>
    PROVE  Draw!Reveal
<1> DEFINE p == pendingRequester
           d == AfterPin[pendingRequester].drawnTokenId
<1>1. /\ Undrawn /\ PendingRequest.targetRound \in DOMAIN randomness
      /\ Draw!Outcome = d
      /\ AfterPin[p].pinned /\ AfterPin[p].active
      /\ AfterPin[p].targetRound = PendingRequest.targetRound
  BY PinDraws
<1>2. pendingRequester # NoAccount /\ ~PendingRequest.pinned
  BY <1>1 DEF Undrawn
<1>3. PendingRequest' = AfterPin[p]
  BY <1>2 DEF PendingRequest
<1>4. Drawn' = {d} /\ Menu' = <<>> /\ Drawn = {}
  BY <1>1, <1>2, <1>3 DEF Drawn, Menu
<1>5. ownerOf'[d] = Vault
  <2>1. KeptHeld'
    BY ViewsHoldNext
  <2> QED
    BY <1>4, <2>1 DEF KeptHeld
<1> QED
  BY <1>1, <1>2, <1>3, <1>4, <1>5 DEF Draw!Reveal, Drawn, Menu, beaconVars

\* With nothing to pin, _pinPendingDraw leaves the pending request alone.
LEMMA NothingPinned ==
    ASSUME ~Pinnable
    PROVE  AfterPin = redeemRequests
  BY DEF AfterPin

LEMMA BeaconStill ==
    ASSUME BeaconInv, UNCHANGED beaconVars
    PROVE  Draw!Forward
  BY ForwardAlways

\* A step of the vault that pins what can be pinned is a reveal, or it must not
\* touch the menu.
LEMMA PinOrNothing ==
    ASSUME IInv, IInv', BeaconInv, redeemRequests' = AfterPin,
           UNCHANGED <<pendingRequester, beaconVars>>,
           Undrawn /\ ~Pinnable =>
              \A i \in 1..PendingRequest.frozenLen : heldTokenIds'[i] = heldTokenIds[i]
    PROVE  Draw!Reveal \/ Draw!Otherwise
<1>1. CASE Pinnable
  BY <1>1, PinReveals
<1>2. CASE ~Pinnable
  <2>1. redeemRequests' = redeemRequests
    BY <1>2, NothingPinned
  <2>2. UNCHANGED <<pendingRequester, PendingRequest>>
    BY <2>1 DEF PendingRequest
  <2> QED
    BY <1>2, <2>2, BeaconStill, NothingDrawn
<1> QED
  BY <1>1, <1>2

\* deposit and depositMany: new tokens come after the frozen prefix.
LEMMA TakeInDraws ==
    ASSUME IInv, IInv', BeaconInv, NEW u \in Users, NEW tokens \in Seq(TokenIds),
           TakeIn(u, tokens)
    PROVE  Draw!Reveal \/ Draw!Otherwise
<1>1. /\ redeemRequests' = AfterPin
      /\ UNCHANGED <<pendingRequester, beaconVars>>
      /\ heldTokenIds' = heldTokenIds \o tokens
  BY DEF TakeIn, AddHeldTokens
<1>2. ASSUME Undrawn, NEW i \in 1..PendingRequest.frozenLen
      PROVE  heldTokenIds'[i] = heldTokenIds[i]
  <2>1. heldTokenIds \in Seq(TokenIds)
    BY DEF IInv, CustodyInv, TypeOK
  <2>2. PendingRequest.frozenLen \in 1..Len(heldTokenIds)
    BY <1>2, MenuView
  <2>3. i \in 1..Len(heldTokenIds)
    BY <2>1, <2>2
  <2> QED
    BY <1>1, <2>1, <2>3
<1> QED
  BY <1>1, <1>2, PinOrNothing

\* redeemTarget and the head of redeemTargetMany wait for the draw to be pinned.
LEMMA TargetedDraws ==
    ASSUME IInv, IInv', BeaconInv, DrawSettled, redeemRequests' = AfterPin,
           UNCHANGED <<pendingRequester, beaconVars>>
    PROVE  Draw!Reveal \/ Draw!Otherwise
<1>1. ASSUME Undrawn, ~Pinnable PROVE FALSE
  <2>1. PendingRequest = redeemRequests[pendingRequester]
    BY <1>1, PendingView DEF Undrawn, Idle
  <2>2. AfterPin[pendingRequester].pinned
    BY <1>1 DEF DrawSettled, Undrawn
  <2> QED
    BY <1>1, <2>1, <2>2, NothingPinned DEF Undrawn
<1> QED
  BY <1>1, PinOrNothing

\* Steps that touch neither the slots nor the requests.
LEMMA ElsewhereDraws ==
    ASSUME IInv, IInv', BeaconInv, [BeaconNext]_beaconVars,
           UNCHANGED <<pendingRequester, redeemRequests, heldTokenIds>>
    PROVE  Draw!Otherwise
<1>1. UNCHANGED <<pendingRequester, PendingRequest>>
  BY DEF PendingRequest
<1> QED
  BY <1>1, ForwardAlways, NothingDrawn

\* The loop of redeemTargetMany runs only when nobody waits for a draw.
LEMMA RedeemNextDraws ==
    ASSUME IInv, IInv', BeaconInv, RedeemNext
    PROVE  Draw!Otherwise
<1>1. /\ call.rest # <<>>
      /\ UNCHANGED <<beaconVars, redeemRequests, pendingRequester>>
  BY DEF RedeemNext, slotVars
<1>2. ~Undrawn
  BY <1>1, MenuView
<1>3. UNCHANGED <<pendingRequester, PendingRequest>>
  BY <1>1 DEF PendingRequest
<1> QED
  BY <1>1, <1>2, <1>3, BeaconStill, NothingDrawn

\* What a transaction outside custody, and a callback, may not touch.
LEMMA PoolDraws ==
    ASSUME IInv, IInv', BeaconInv, PoolNext
    PROVE  Draw!Otherwise
<1>1. UNCHANGED <<pendingRequester, redeemRequests, heldTokenIds, beaconVars>>
  BY DEF PoolNext, buyShares, sellShares, addLiquidity, removeLiquidity, seedLiquidity,
         seedShares, openPool, withdrawFees, heldVars, slotVars
<1> QED
  BY <1>1, ElsewhereDraws

LEMMA ExternalDraws ==
    ASSUME IInv, IInv', BeaconInv, ExternalNext
    PROVE  Draw!Otherwise
<1>1. [BeaconNext]_beaconVars
  BY BeaconView DEF Next
<1>2. UNCHANGED <<pendingRequester, redeemRequests, heldTokenIds>>
  BY DEF ExternalNext, TransferShares, TransferNft, ForceEth, TimePasses, RoundPublished,
         RoundRelayed, vaultVars, heldVars, slotVars
<1> QED
  BY <1>1, <1>2, ElsewhereDraws

\* The round a request commits to has not been emitted, if the chain lags by at
\* most one period.
LEMMA FutureRound ==
    ASSUME BeaconInv, AfterGenesis(now), MaxLag <= period
    PROVE  TargetRound > published
<1>1. published < nextRoundAfter(now) + 1
  BY LeadFollows DEF LeadCoversLag
<1>2. published \in Nat /\ nextRoundAfter(now) \in Nat
  <2>1. now \in Nat /\ published \in Nat
    BY BeaconAssumption DEF BeaconInv, BeaconTypeOK
  <2>2. (now - genesisTimestamp) \div period \in Nat
    BY <2>1, BeaconAssumption, DivNat DEF AfterGenesis
  <2> QED
    BY <2>1, <2>2 DEF nextRoundAfter, currentRoundAt, AfterGenesis
<1> QED
  BY <1>1, <1>2, VaultAssumption DEF TargetRound

LEMMA IdleHolds == Idle => Draw!Free
  BY IdleView

LEMMA IdleHoldsNext == Idle' => Draw!Free'
  BY IdleHolds, PTL

\* A request commits: the round is in the future, the menu is what is in custody.
LEMMA RequestDraws ==
    ASSUME IInv, IInv', BeaconInv, MaxLag <= period, NEW u \in Users,
           requestRandomRedeem(u)
    PROVE  Draw!Commit
<1>1. /\ Idle /\ pendingRequester' = u /\ u # NoAccount
      /\ redeemRequests'[u] = [targetRound  |-> TargetRound,
                               frozenLen    |-> Len(heldTokenIds),
                               active       |-> TRUE,
                               pinned       |-> FALSE,
                               drawnTokenId |-> 0]
      /\ UNCHANGED <<beaconVars, heldVars>>
  BY VaultAssumption DEF requestRandomRedeem, Idle, IInv, CustodyInv, TypeOK, Accounts
<1>2. /\ PendingRequest'.targetRound = TargetRound
      /\ PendingRequest'.active /\ ~PendingRequest'.pinned
      /\ Undrawn'
  BY <1>1 DEF PendingRequest, Undrawn
<1>3. TargetRound > published
  BY FutureRound DEF requestRandomRedeem
<1>4. TargetRound \notin DOMAIN randomness
  <2>1. published \in Nat /\ \A r \in DOMAIN randomness : r \in 1..published
    BY DEF BeaconInv, BeaconTypeOK, OnlyEmittedStored
  <2> QED
    BY <1>3, <2>1
<1>5. FrozenMenu' /\ KeptHeld'
  BY <1>2, ViewsHoldNext
<1>6. Len(Menu') > 0
  <2> DEFINE len == PendingRequest.frozenLen'
  <2>1. heldTokenIds' \in Seq(TokenIds)
    BY DEF IInv, CustodyInv, TypeOK
  <2>2. len \in 1..Len(heldTokenIds') /\ Menu' = SubSeq(heldTokenIds', 1, len)
    BY <1>5 DEF FrozenMenu
  <2> HIDE DEF len
  <2> QED
    BY <2>1, <2>2
<1>7. \A i \in 1..Len(Menu') : ownerOf[Menu'[i]] = Vault
  BY <1>1, <1>5 DEF KeptHeld, heldVars
<1> QED
  BY <1>1, <1>2, <1>3, <1>4, <1>6, <1>7, IdleHolds
     DEF Draw!Commit, Menu, beaconVars, heldVars

\* A claim delivers the token drawn before, or drawn by this very call.
LEMMA ClaimDraws ==
    ASSUME IInv, BeaconInv, NEW u \in Users, claimRandomRedeemFor(u)
    PROVE  Draw!Deliver
<1> DEFINE d == AfterPin[u].drawnTokenId
<1>1. /\ pendingRequester = u /\ ~Idle
      /\ redeemRequests[u].active /\ PendingRequest = redeemRequests[u]
      /\ AfterPin[u].pinned
      /\ pendingRequester' = NoAccount
      /\ ownerOf' = [ownerOf EXCEPT ![d] = u]
      /\ UNCHANGED beaconVars
  <2>1. pendingRequester = u /\ ~Idle
    BY VaultAssumption DEF claimRandomRedeemFor, IInv, CustodyInv, SlotCoherent, Idle, Accounts
  <2> QED
    BY <2>1, PendingView DEF claimRandomRedeemFor, ReleaseSlot, TransferFrom
<1>2. Draw!Free'
  BY <1>1, IdleHoldsNext DEF Idle
<1>3. CASE Pinnable
  <2>1. /\ Undrawn /\ PendingRequest.targetRound \in DOMAIN randomness
        /\ Draw!Outcome = d /\ d \in TokenIds
    BY <1>1, <1>3, PinDraws
  <2>2. Drawn = {}
    BY <2>1 DEF Drawn, Undrawn
  <2> QED
    BY <1>1, <1>2, <2>1, <2>2 DEF Draw!Deliver, Drawn, Idle, beaconVars
<1>4. CASE ~Pinnable
  <2>1. AfterPin[u] = PendingRequest /\ PendingRequest.pinned
    BY <1>1, <1>4, NothingPinned
  <2>2. Drawn = {d} /\ d \in TokenIds
    BY <1>1, <2>1, DrawnView
  <2> QED
    BY <1>1, <1>2, <2>2 DEF Draw!Deliver, Drawn, Idle, beaconVars
<1> QED
  BY <1>3, <1>4

\* Only a request whose round was never relayed is forfeited.
LEMMA ForfeitDraws ==
    ASSUME IInv, BeaconInv, NEW u \in Users, forfeitExpiredRedeem(u)
    PROVE  Draw!Forfeit
<1>1. pendingRequester = u /\ ~Idle
  BY VaultAssumption DEF forfeitExpiredRedeem, IInv, CustodyInv, SlotCoherent, Idle, Accounts
<1>2. /\ PendingRequest = redeemRequests[u]
      /\ ~AfterPin[u].pinned
      /\ pendingRequester' = NoAccount
      /\ UNCHANGED <<beaconVars, heldVars>>
  BY <1>1, PendingView DEF forfeitExpiredRedeem, ReleaseSlot
<1>3. ~Pinnable
  BY <1>1, <1>2, PinDraws
<1>4. ~PendingRequest.pinned
  BY <1>2, <1>3, NothingPinned
<1>5. PendingRequest.targetRound \notin DOMAIN randomness
  BY <1>1, <1>2, <1>3, <1>4, AvailableMeansStored DEF Pinnable, Idle
<1>6. Draw!Free'
  BY <1>2, IdleHoldsNext DEF Idle
<1> QED
  BY <1>1, <1>2, <1>4, <1>5, <1>6 DEF Draw!Forfeit, Idle, beaconVars, heldVars

\* Every transaction, callback and outside event is a step of the draw.
LEMMA StepDraws ==
    ASSUME IInv, IInv', BeaconInv, MaxLag <= period, [Next]_vars
    PROVE  [Draw!DrawNext]_(Draw!drawVars)
<1> USE DEF Draw!DrawNext
<1>1. CASE CustodyNext
  <2>1. ASSUME NEW u \in Users, NEW t \in TokenIds, deposit(u, t) PROVE Draw!DrawNext
    <3>1. <<t>> \in Seq(TokenIds)
      OBVIOUS
    <3> QED
      BY <2>1, <3>1, TakeInDraws DEF deposit
  <2>2. ASSUME NEW u \in Users, NEW ts \in Batches, depositMany(u, ts) PROVE Draw!DrawNext
    BY <2>2, BatchIsSequence, TakeInDraws DEF depositMany
  <2>3. ASSUME NEW u \in Users, requestRandomRedeem(u) PROVE Draw!DrawNext
    BY <2>3, RequestDraws
  <2>4. ASSUME pinPendingDraw PROVE Draw!DrawNext
    BY <2>4, PinReveals DEF pinPendingDraw
  <2>5. ASSUME NEW u \in Users, claimRandomRedeemFor(u) PROVE Draw!DrawNext
    BY <2>5, ClaimDraws
  <2>6. ASSUME NEW u \in Users, forfeitExpiredRedeem(u) PROVE Draw!DrawNext
    BY <2>6, ForfeitDraws
  <2>7. ASSUME NEW u \in Users, NEW t \in TokenIds, redeemTarget(u, t) PROVE Draw!DrawNext
    BY <2>7, TargetedDraws DEF redeemTarget
  <2>8. ASSUME NEW u \in Users, NEW ts \in Batches, redeemTargetMany(u, ts)
        PROVE  Draw!DrawNext
    BY <2>8, TargetedDraws DEF redeemTargetMany
  <2>9. ASSUME RedeemNext PROVE Draw!DrawNext
    BY <2>9, RedeemNextDraws
  <2> HIDE DEF Draw!DrawNext
  <2> QED
    BY <1>1, <2>1, <2>2, <2>3, <2>4, <2>5, <2>6, <2>7, <2>8, <2>9 DEF CustodyNext
<1>2. CASE PoolNext
  BY <1>2, PoolDraws
<1>3. CASE ExternalNext
  BY <1>3, ExternalDraws
<1>4. CASE UNCHANGED vars
  <2>1. UNCHANGED <<pendingRequester, PendingRequest, beaconVars, heldTokenIds>>
    BY <1>4 DEF vars, vaultVars, heldVars, slotVars, PendingRequest
  <2>2. Draw!Otherwise
    BY <2>1, BeaconStill, NothingDrawn
  <2> QED
    BY <2>2
<1> QED
  BY <1>1, <1>2, <1>3, <1>4 DEF Next

\* The whole of commit-reveal, while the chain lags drand by at most one period:
\* the vault implements CommitRevealDraw, whatever fees, batches, trades, callbacks
\* and relayed rounds come in between.
THEOREM DrawRefined == MaxLag <= period => (Spec => DrawSpec)
<1> SUFFICES ASSUME MaxLag <= period PROVE Spec => DrawSpec
  OBVIOUS
<1>1. Init => Draw!DrawInit
  <2> SUFFICES ASSUME Init PROVE Draw!DrawInit
    OBVIOUS
  <2>1. Draw!Free
    BY IdleHolds DEF Init, Idle
  <2>2. DOMAIN randomness = {} /\ randomness = [r \in {} |-> NoRandomness]
    BY DEF Init, BeaconInit
  <2>3. randomness = [r \in {} |-> 0]
    BY <2>2
  <2> QED
    BY <2>1, <2>3 DEF Init, BeaconInit, Draw!DrawInit
<1>2. IInv /\ BeaconInv /\ IInv' /\ [Next]_vars => [Draw!DrawNext]_(Draw!drawVars)
  BY StepDraws
<1> QED
  BY <1>1, <1>2, Invariance, PTL DEF Spec, DrawSpec, Draw!DrawSpec

=============================================================================
