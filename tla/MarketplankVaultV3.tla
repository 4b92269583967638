------------------------- MODULE MarketplankVaultV3 -------------------------
(***************************************************************************)
(* contracts/MarketplankVaultV3.sol: an NFT vault.  One NFT in custody     *)
(* backs one share (an ERC20); a share is redeemed for a chosen NFT, or,   *)
(* by commit and reveal against a future drand round, for a random one;    *)
(* shares also trade against ETH in a constant-product pool.               *)
(*                                                                         *)
(* One action is one transaction: it commits whole or, when the code       *)
(* reverts, does not happen, so each revert is a guard.  Every function is *)
(* nonReentrant, hence atomic, except that redeemTargetMany calls out to   *)
(* its caller between two items: `call` is that running transaction, and   *)
(* what a callback may reach (share transfers, NFT transfers, the beacon)  *)
(* interleaves with it.  The run-time checks _assertSolvent and            *)
(* _assertEthBacked are NOT guards: Solvent and EthBacked below show that  *)
(* they never fire.                                                        *)
(***************************************************************************)
EXTENDS DrandBeacon, Sequences, FiniteSets, Functions

CONSTANTS
    Users,              \* accounts that send transactions
    treasury,           \* immutable: receives fees, seeds and opens the pool
    Vault,              \* address(this)
    NoAccount,          \* address(0)
    NonReceivers,       \* contracts that take neither ETH nor a safe NFT transfer
    TokenIds,           \* the collection
    MAX_UINT256,        \* type(uint256).max
    SHARE_UNIT,         \* one share, in the smallest unit of the ERC20
    mintFeeWei, redeemFeeWei, targetPremiumWei,
    swapFeeBps, BPS_DENOMINATOR,
    MIN_INITIAL_LIQUIDITY, MAX_BATCH, ROUND_LEAD, ROUND_EXPIRY,
    DrawWord(_, _),     \* keccak256(seed, requester) as an integer
    EthAmounts,         \* inputs: ETH sent to the pool
    ShareAmounts,       \* inputs: shares sold, seeded or transferred
    LpAmounts,          \* inputs: LP units burned
    Floors,             \* inputs: slippage floors
    MaxEth,             \* BOUND: the contract's ETH balance
    RequestHorizon      \* BOUND: the last time a random redemption is requested

Accounts == Users \cup {Vault}

ASSUME VaultAssumption ==
    /\ IsFiniteSet(Users)
    /\ treasury \in Users
    /\ Vault \notin Users
    /\ NoAccount \notin Accounts
    /\ NonReceivers \subseteq Users
    /\ TokenIds \subseteq Nat
    /\ MAX_UINT256 \in Nat
    /\ SHARE_UNIT \in Nat \ {0}
    /\ mintFeeWei \in Nat /\ redeemFeeWei \in Nat /\ targetPremiumWei \in Nat
    /\ BPS_DENOMINATOR \in Nat \ {0}
    /\ swapFeeBps \in 0..BPS_DENOMINATOR - 1
    /\ MIN_INITIAL_LIQUIDITY \in Nat
    /\ MAX_BATCH \in Nat
    /\ ROUND_LEAD \in Nat \ {0}
    /\ ROUND_EXPIRY \in Nat
    /\ \A s \in Signatures, u \in Users : DrawWord(Keccak(s), u) \in Nat
    /\ EthAmounts \subseteq Nat
    /\ ShareAmounts \subseteq Nat
    /\ LpAmounts \subseteq Nat
    /\ Floors \subseteq Nat
    /\ MaxEth \in Nat
    /\ RequestHorizon \in Nat

VARIABLES
    heldTokenIds,        \* tokens in custody, in slot order
    heldTokenIndex,      \* token -> its slot, 0 when not held
    poolOpen, ethReserve, shareReserve,
    accruedFees,
    lpBalance, totalLpSupply,
    redeemRequests,      \* requester -> its request
    pendingRedeemCount, pendingRequester,
    balanceOf, totalSupply,   \* the ERC20
    ownerOf,             \* the collection
    ethBalance,          \* address(this).balance
    call                 \* the redeemTargetMany in progress

poolVars    == <<poolOpen, ethReserve, shareReserve, lpBalance, totalLpSupply>>
shareVars   == <<balanceOf, totalSupply>>
heldVars    == <<heldTokenIds, heldTokenIndex, ownerOf>>
slotVars    == <<redeemRequests, pendingRedeemCount, pendingRequester>>
moneyVars   == <<accruedFees, ethBalance>>
vaultVars   == <<poolVars, shareVars, heldVars, slotVars, moneyVars, call>>
vars        == <<beaconVars, vaultVars>>

-----------------------------------------------------------------------------
(* Shared steps of the functions                                           *)

\* A deleted request, all of its fields zero.
NoRequest == [targetRound |-> 0, frozenLen |-> 0, active |-> FALSE,
              pinned |-> FALSE, drawnTokenId |-> 0]

NoCall == [sender |-> NoAccount, rest |-> <<>>]

\* nonReentrant: no vault function is running.
NotEntered == call = NoCall

\* msg.value reaches the contract's balance.
Receive(value) ==
    /\ ethBalance + value <= MaxEth
    /\ ethBalance' = ethBalance + value

\* Send ETH out; a recipient that refuses it makes the transaction revert.
Send(to, value) ==
    /\ to \notin NonReceivers
    /\ value <= ethBalance
    /\ ethBalance' = ethBalance - value

CollectFee(fee) ==
    /\ Receive(fee)
    /\ accruedFees' = accruedFees + fee

\* ERC20 _mint, _burn and _transfer.
Mint(to, amount) ==
    /\ balanceOf' = [balanceOf EXCEPT ![to] = @ + amount]
    /\ totalSupply' = totalSupply + amount

Burn(from, amount) ==
    /\ amount <= balanceOf[from]
    /\ balanceOf' = [balanceOf EXCEPT ![from] = @ - amount]
    /\ totalSupply' = totalSupply - amount

Transfer(from, to, amount) ==
    /\ amount <= balanceOf[from]
    /\ balanceOf' = [balanceOf EXCEPT ![from] = @ - amount, ![to] = @ + amount]
    /\ UNCHANGED totalSupply

\* The whole shares that n tokens stand for.
\* Bug: a batch counts for one share.
SharesForOne(n) == SHARE_UNIT

SharesFor(n) == SHARE_UNIT * n

\* The collection's transfers out of the vault.
SafeTransferFrom(to, tokenId) ==
    /\ to \notin NonReceivers
    /\ ownerOf' = [ownerOf EXCEPT ![tokenId] = to]

TransferFrom(to, tokenId) == ownerOf' = [ownerOf EXCEPT ![tokenId] = to]

\* Shares into and out of the pool.  Bug: the reserve is not told.
PushSharesUnrecorded(to, amount) ==
    /\ Transfer(Vault, to, amount)
    /\ UNCHANGED shareReserve

PushShares(to, amount) ==
    /\ Transfer(Vault, to, amount)
    /\ shareReserve' = shareReserve - amount

PullShares(from, amount) ==
    /\ Transfer(from, Vault, amount)
    /\ shareReserve' = shareReserve + amount

\* _addHeldToken for each token of a batch: append, index from 1.
AddHeldTokens(tokens) ==
    /\ \A i \in 1..Len(tokens) : heldTokenIndex[tokens[i]] = 0
    /\ heldTokenIds' = heldTokenIds \o tokens
    /\ heldTokenIndex' =
          [t \in TokenIds |->
              IF \E i \in 1..Len(tokens) : tokens[i] = t
              THEN Len(heldTokenIds) + (CHOOSE i \in 1..Len(tokens) : tokens[i] = t)
              ELSE heldTokenIndex[t]]

\* Bug: the moved token keeps its old index.
RemoveHeldTokenStaleIndex(tokenId) ==
    LET idx  == heldTokenIndex[tokenId]
        last == Len(heldTokenIds)
    IN  /\ idx # 0
        /\ heldTokenIds' = [i \in 1..last - 1 |->
                               IF i = idx THEN heldTokenIds[last] ELSE heldTokenIds[i]]
        /\ heldTokenIndex' = [heldTokenIndex EXCEPT ![tokenId] = 0]

\* _removeHeldToken: the last slot moves into the hole.
RemoveHeldToken(tokenId) ==
    LET idx  == heldTokenIndex[tokenId]
        last == Len(heldTokenIds)
    IN  /\ idx # 0
        /\ heldTokenIds' = [i \in 1..last - 1 |->
                               IF i = idx THEN heldTokenIds[last] ELSE heldTokenIds[i]]
        /\ heldTokenIndex' = [heldTokenIndex EXCEPT ![heldTokenIds[last]] = idx,
                                                    ![tokenId] = 0]

\* Whether _pinPendingDraw can resolve the pending draw now.
Pinnable ==
    /\ pendingRequester # NoAccount
    /\ ~redeemRequests[pendingRequester].pinned
    /\ isRoundAvailable(redeemRequests[pendingRequester].targetRound)

\* Bug: the draw is taken from the slots as they are when it is pinned.
DrawnSlotOfAll(seed, requester) ==
    1 + (DrawWord(seed, requester) % Len(heldTokenIds))

\* The slot a draw falls on: the seed and the requester, modulo the length
\* frozen at request time.
DrawnSlot(seed, requester) ==
    1 + (DrawWord(seed, requester) % redeemRequests[requester].frozenLen)

\* _pinPendingDraw: the requests as they stand after it.
AfterPin ==
    IF Pinnable
    THEN LET seed == randomnessOrZero(redeemRequests[pendingRequester].targetRound)
         IN  [redeemRequests EXCEPT
                ![pendingRequester].pinned = TRUE,
                ![pendingRequester].drawnTokenId =
                    heldTokenIds[DrawnSlot(seed, pendingRequester)]]
    ELSE redeemRequests

\* _roundExpired
RoundExpired(targetRound) == currentRoundAt(now) > targetRound + ROUND_EXPIRY

\* Bug: the count of pending redemptions is not brought back.
ReleaseSlotKeepsCount(requester) ==
    /\ redeemRequests' = [redeemRequests EXCEPT ![requester] = NoRequest]
    /\ pendingRequester' = NoAccount
    /\ UNCHANGED pendingRedeemCount

\* Clear the vault-wide slot: delete the request, free pendingRequester.
ReleaseSlot(requester) ==
    /\ redeemRequests' = [redeemRequests EXCEPT ![requester] = NoRequest]
    /\ pendingRequester' = NoAccount
    /\ pendingRedeemCount' = pendingRedeemCount - 1

-----------------------------------------------------------------------------
(* Deposits                                                                *)

\* Tokens come in, whole shares are minted for them.  A token listed twice, or
\* already in custody, is not the sender's any more when its turn comes.
TakeIn(u, tokens) ==
    /\ NotEntered
    /\ \A i, j \in 1..Len(tokens) : tokens[i] = tokens[j] => i = j
    /\ \A i \in 1..Len(tokens) : ownerOf[tokens[i]] = u
    /\ CollectFee(mintFeeWei * Len(tokens))
    /\ redeemRequests' = AfterPin
    /\ ownerOf' = [t \in TokenIds |->
                      IF \E i \in 1..Len(tokens) : tokens[i] = t THEN Vault ELSE ownerOf[t]]
    /\ AddHeldTokens(tokens)
    /\ Mint(u, SharesFor(Len(tokens)))
    /\ UNCHANGED <<beaconVars, poolVars, pendingRedeemCount, pendingRequester, call>>

deposit(u, tokenId) == TakeIn(u, <<tokenId>>)

Batches == UNION {[1..n -> TokenIds] : n \in 1..MAX_BATCH}

depositMany(u, tokens) ==
    /\ Len(tokens) \in 1..MAX_BATCH
    /\ TakeIn(u, tokens)

-----------------------------------------------------------------------------
(* Random redemption                                                       *)

\* The round a request commits to.
TargetRound == nextRoundAfter(now) + ROUND_LEAD

\* One pending request for the whole vault; the burned share leaves one held
\* NFT unclaimed, which the draw will be taken from.
requestRandomRedeem(u) ==
    /\ NotEntered
    /\ now <= RequestHorizon
    /\ pendingRequester = NoAccount
    /\ Len(heldTokenIds) > pendingRedeemCount
    /\ AfterGenesis(now)
    /\ CollectFee(redeemFeeWei)
    /\ Burn(u, SHARE_UNIT)
    /\ pendingRedeemCount' = pendingRedeemCount + 1
    /\ pendingRequester' = u
    /\ redeemRequests' = [redeemRequests EXCEPT
          ![u] = [targetRound  |-> TargetRound,
                  frozenLen    |-> Len(heldTokenIds),
                  active       |-> TRUE,
                  pinned       |-> FALSE,
                  drawnTokenId |-> 0]]
    /\ UNCHANGED <<beaconVars, poolVars, heldVars, call>>

\* Reverts when there is a draw and it cannot be pinned; with nothing to pin it
\* does nothing, which is no step.
pinPendingDraw ==
    /\ NotEntered
    /\ Pinnable
    /\ redeemRequests' = AfterPin
    /\ UNCHANGED <<beaconVars, poolVars, shareVars, heldVars, moneyVars, call,
                   pendingRedeemCount, pendingRequester>>

\* _settle, for claimRandomRedeem and claimRandomRedeemFor: anybody may push it.
\* transferFrom, not safeTransferFrom: NonReceivers get their token too.
claimRandomRedeemFor(requester) ==
    LET req == AfterPin[requester] IN
    /\ NotEntered
    /\ redeemRequests[requester].active
    /\ req.pinned
    /\ ReleaseSlot(requester)
    /\ RemoveHeldToken(req.drawnTokenId)
    /\ TransferFrom(requester, req.drawnTokenId)
    /\ UNCHANGED <<beaconVars, poolVars, shareVars, moneyVars, call>>

\* A request whose round was never relayed in time: the share goes to the
\* treasury.  A draw that can still be pinned cannot be forfeited.
forfeitExpiredRedeem(requester) ==
    /\ NotEntered
    /\ redeemRequests[requester].active
    /\ ~AfterPin[requester].pinned
    /\ RoundExpired(redeemRequests[requester].targetRound)
    /\ ReleaseSlot(requester)
    /\ Mint(treasury, SHARE_UNIT)
    /\ UNCHANGED <<beaconVars, poolVars, heldVars, moneyVars, call>>

-----------------------------------------------------------------------------
(* Targeted redemption                                                     *)

\* While a request is pending, nobody picks a token until its draw is pinned.
DrawSettled == pendingRequester # NoAccount => AfterPin[pendingRequester].pinned

\* Bug: the token drawn for the pending request is up for grabs.
NothingReserved(tokenId) == FALSE

\* The token the pending request owns, out of everybody's reach.
Reserved(tokenId) ==
    /\ pendingRequester # NoAccount
    /\ AfterPin[pendingRequester].drawnTokenId = tokenId

redeemTarget(u, tokenId) ==
    /\ NotEntered
    /\ CollectFee(redeemFeeWei + targetPremiumWei)
    /\ DrawSettled
    /\ ~Reserved(tokenId)
    /\ redeemRequests' = AfterPin
    /\ Len(heldTokenIds) > pendingRedeemCount
    /\ Burn(u, SHARE_UNIT)
    /\ RemoveHeldToken(tokenId)
    /\ SafeTransferFrom(u, tokenId)
    /\ UNCHANGED <<beaconVars, poolVars, pendingRedeemCount, pendingRequester, call>>

\* The head of redeemTargetMany, up to its loop.  A batch with a token that is
\* not held, is listed twice or is reserved reverts in its loop as a whole, so
\* it never starts; nothing of what the loop checks can change during it.
redeemTargetMany(u, tokens) ==
    /\ NotEntered
    /\ Len(tokens) \in 1..MAX_BATCH
    /\ CollectFee((redeemFeeWei + targetPremiumWei) * Len(tokens))
    /\ DrawSettled
    /\ redeemRequests' = AfterPin
    /\ Len(heldTokenIds) >= pendingRedeemCount + Len(tokens)
    /\ Burn(u, SharesFor(Len(tokens)))
    /\ u \notin NonReceivers
    /\ \A i, j \in 1..Len(tokens) : tokens[i] = tokens[j] => i = j
    /\ \A i \in 1..Len(tokens) : /\ heldTokenIndex[tokens[i]] # 0
                                 /\ ~Reserved(tokens[i])
                                 /\ pendingRequester = NoAccount => tokens[i] # MAX_UINT256
    /\ call' = [sender |-> u, rest |-> tokens]
    /\ UNCHANGED <<beaconVars, poolVars, heldVars, pendingRedeemCount, pendingRequester>>

\* One turn of the loop: the token goes to the caller, whose callback runs; after
\* the last one the lock is released.
RedeemNext ==
    LET tokenId == Head(call.rest) IN
    /\ call.rest # <<>>
    /\ RemoveHeldToken(tokenId)
    /\ SafeTransferFrom(call.sender, tokenId)
    /\ call' = IF Len(call.rest) = 1 THEN NoCall ELSE [call EXCEPT !.rest = Tail(@)]
    /\ UNCHANGED <<beaconVars, poolVars, shareVars, slotVars, moneyVars>>

-----------------------------------------------------------------------------
(* The constant-product pool                                               *)

Tradable == poolOpen /\ shareReserve # 0 /\ ethReserve # 0

\* What an input is priced at, and what it buys: the fee stays in the reserve.
NetOfFee(amount) == (amount * (BPS_DENOMINATOR - swapFeeBps)) \div BPS_DENOMINATOR

AmountOut(amountIn, reserveIn, reserveOut) ==
    (NetOfFee(amountIn) * reserveOut) \div (reserveIn + NetOfFee(amountIn))

buyShares(u, value, minSharesOut) ==
    LET sharesOut == AmountOut(value, ethReserve, shareReserve) IN
    /\ NotEntered
    /\ Tradable
    /\ sharesOut # 0 /\ sharesOut >= minSharesOut
    /\ Receive(value)
    /\ ethReserve' = ethReserve + value
    /\ PushShares(u, sharesOut)
    /\ UNCHANGED <<beaconVars, heldVars, slotVars, accruedFees, poolOpen, lpBalance,
                   totalLpSupply, call>>

sellShares(u, sharesIn, minEthOut) ==
    LET ethOut == AmountOut(sharesIn, shareReserve, ethReserve) IN
    /\ NotEntered
    /\ Tradable
    /\ sharesIn # 0
    /\ ethOut # 0 /\ ethOut >= minEthOut
    /\ PullShares(u, sharesIn)
    /\ ethReserve' = ethReserve - ethOut
    /\ Send(u, ethOut)
    /\ UNCHANGED <<beaconVars, heldVars, slotVars, accruedFees, poolOpen, lpBalance,
                   totalLpSupply, call>>

\* Bug: the pulled side rounded in the provider's favour.
floorDiv(a, b) == a \div b

ceilDiv(a, b) == (a + b - 1) \div b

\* Bug: an assignment where an addition was meant.
MintLpOverwrites(u, amount) ==
    /\ lpBalance' = [lpBalance EXCEPT ![u] = amount]
    /\ totalLpSupply' = totalLpSupply + amount

MintLp(u, amount) ==
    /\ lpBalance' = [lpBalance EXCEPT ![u] = @ + amount]
    /\ totalLpSupply' = totalLpSupply + amount

\* The shares to match `value` are pulled, rounded up; the LP units rounded down.
\* Dividing by an empty reserve would revert.
addLiquidity(u, value, maxSharesIn, minLpOut) ==
    LET sharesUsed == ceilDiv(value * shareReserve, ethReserve)
        lpMinted   == (value * totalLpSupply) \div ethReserve
    IN  /\ NotEntered
        /\ poolOpen
        /\ value # 0 /\ ethReserve # 0
        /\ sharesUsed # 0 /\ sharesUsed <= maxSharesIn
        /\ lpMinted # 0 /\ lpMinted >= minLpOut
        /\ Receive(value)
        /\ PullShares(u, sharesUsed)
        /\ ethReserve' = ethReserve + value
        /\ MintLp(u, lpMinted)
        /\ UNCHANGED <<beaconVars, heldVars, slotVars, accruedFees, poolOpen, call>>

\* A pro-rata slice of both reserves, both sides rounded down.  Checked arithmetic
\* reverts if lpIn exceeds the total supply.
removeLiquidity(u, lpIn, minEthOut, minSharesOut) ==
    LET ethOut    == (lpIn * ethReserve) \div totalLpSupply
        sharesOut == (lpIn * shareReserve) \div totalLpSupply
    IN  /\ NotEntered
        /\ lpIn # 0
        /\ lpIn <= lpBalance[u] /\ lpIn <= totalLpSupply
        /\ ethOut # 0 /\ sharesOut # 0
        /\ ethOut >= minEthOut /\ sharesOut >= minSharesOut
        /\ lpBalance' = [lpBalance EXCEPT ![u] = @ - lpIn]
        /\ totalLpSupply' = totalLpSupply - lpIn
        /\ ethReserve' = ethReserve - ethOut
        /\ PushShares(u, sharesOut)
        /\ Send(u, ethOut)
        /\ UNCHANGED <<beaconVars, heldVars, slotVars, accruedFees, poolOpen, call>>

-----------------------------------------------------------------------------
(* Bootstrap and fees                                                      *)

\* msg.sender is the treasury and the pool has not been opened: the seed is
\* donated, no LP units are minted for it.
seedLiquidity(value) ==
    /\ NotEntered
    /\ ~poolOpen
    /\ Receive(value)
    /\ ethReserve' = ethReserve + value
    /\ UNCHANGED <<beaconVars, shareVars, heldVars, slotVars, accruedFees, poolOpen,
                   shareReserve, lpBalance, totalLpSupply, call>>

seedShares(shares, value) ==
    /\ NotEntered
    /\ ~poolOpen
    /\ shares # 0
    /\ PullShares(treasury, shares)
    /\ Receive(value)
    /\ ethReserve' = ethReserve + value
    /\ UNCHANGED <<beaconVars, heldVars, slotVars, accruedFees, poolOpen, lpBalance,
                   totalLpSupply, call>>

\* Where the LP units of the seed go.  Bug: to somebody who can burn them.
LockedForTreasury == treasury

Locked == NoAccount

\* Math.sqrt rounds down; the minted units are locked at address(0) for good.
openPool ==
    /\ NotEntered
    /\ ~poolOpen
    /\ ethReserve # 0 /\ shareReserve # 0
    /\ \E l0 \in 0..ethReserve * shareReserve :
          /\ l0 * l0 <= ethReserve * shareReserve
          /\ ethReserve * shareReserve < (l0 + 1) * (l0 + 1)
          /\ l0 > MIN_INITIAL_LIQUIDITY
          /\ lpBalance' = [lpBalance EXCEPT ![Locked] = l0]
          /\ totalLpSupply' = l0
    /\ poolOpen' = TRUE
    /\ UNCHANGED <<beaconVars, shareVars, heldVars, slotVars, moneyVars, ethReserve,
                   shareReserve, call>>

\* Bug: the fees stay on the books after they were paid.
withdrawFeesKeepsBooks ==
    /\ NotEntered
    /\ accruedFees # 0
    /\ Send(treasury, accruedFees)
    /\ UNCHANGED <<beaconVars, poolVars, shareVars, heldVars, slotVars, accruedFees, call>>

withdrawFees ==
    /\ NotEntered
    /\ accruedFees # 0
    /\ accruedFees' = 0
    /\ Send(treasury, accruedFees)
    /\ UNCHANGED <<beaconVars, poolVars, shareVars, heldVars, slotVars, call>>

-----------------------------------------------------------------------------
(* What reaches the contract without calling it                            *)

\* An ERC20 transfer of shares, to the vault itself included: no reserve moves.
TransferShares(from, to, amount) ==
    /\ amount # 0
    /\ Transfer(from, to, amount)
    /\ UNCHANGED <<beaconVars, poolVars, heldVars, slotVars, moneyVars, call>>

\* A plain NFT transfer, to the vault itself included: never put in custody.
TransferNft(from, to, tokenId) ==
    /\ ownerOf[tokenId] = from
    /\ ownerOf' = [ownerOf EXCEPT ![tokenId] = to]
    /\ UNCHANGED <<beaconVars, poolVars, shareVars, heldTokenIds, heldTokenIndex,
                   slotVars, moneyVars, call>>

\* ETH can be forced on any contract; the code must not count it as a reserve.
ForceEth ==
    /\ Receive(1)
    /\ UNCHANGED <<beaconVars, poolVars, shareVars, heldVars, slotVars, accruedFees, call>>

\* Block time does not pass within a transaction.
TimePasses ==
    /\ NotEntered
    /\ Tick
    /\ UNCHANGED vaultVars

\* The drand network and whoever relays it, callbacks included.
RoundPublished == PublishRound /\ UNCHANGED vaultVars

RoundRelayed(round, signature) ==
    /\ SubmitRound(round, signature)
    /\ UNCHANGED vaultVars

-----------------------------------------------------------------------------
Init ==
    /\ BeaconInit
    /\ heldTokenIds = <<>>
    /\ heldTokenIndex = [t \in TokenIds |-> 0]
    /\ poolOpen = FALSE
    /\ ethReserve = 0 /\ shareReserve = 0
    /\ accruedFees = 0
    /\ lpBalance = [a \in Users \cup {NoAccount} |-> 0]
    /\ totalLpSupply = 0
    /\ redeemRequests = [u \in Users |-> NoRequest]
    /\ pendingRedeemCount = 0
    /\ pendingRequester = NoAccount
    /\ balanceOf = [a \in Accounts |-> 0]
    /\ totalSupply = 0
    /\ ownerOf \in [TokenIds -> Users]
    /\ ethBalance = 0
    /\ call = NoCall

CustodyNext ==
    \/ \E u \in Users, t \in TokenIds : deposit(u, t)
    \/ \E u \in Users, ts \in Batches : depositMany(u, ts)
    \/ \E u \in Users : requestRandomRedeem(u)
    \/ pinPendingDraw
    \/ \E u \in Users : claimRandomRedeemFor(u)
    \/ \E u \in Users : forfeitExpiredRedeem(u)
    \/ \E u \in Users, t \in TokenIds : redeemTarget(u, t)
    \/ \E u \in Users, ts \in Batches : redeemTargetMany(u, ts)
    \/ RedeemNext

PoolNext ==
    \/ \E u \in Users, v \in EthAmounts, m \in Floors : buyShares(u, v, m)
    \/ \E u \in Users, s \in ShareAmounts, m \in Floors : sellShares(u, s, m)
    \/ \E u \in Users, v \in EthAmounts, s \in ShareAmounts, m \in Floors :
          addLiquidity(u, v, s, m)
    \/ \E u \in Users, l \in LpAmounts, m, n \in Floors : removeLiquidity(u, l, m, n)
    \/ \E v \in EthAmounts : seedLiquidity(v)
    \/ \E s \in ShareAmounts, v \in EthAmounts \cup {0} : seedShares(s, v)
    \/ openPool
    \/ withdrawFees

ExternalNext ==
    \/ \E u \in Users, a \in Accounts, s \in ShareAmounts : TransferShares(u, a, s)
    \/ \E u \in Users, a \in Accounts, t \in TokenIds : TransferNft(u, a, t)
    \/ ForceEth
    \/ TimePasses
    \/ RoundPublished
    \/ \E round \in 0..published + 1, signature \in Signatures :
          RoundRelayed(round, signature)

Next == CustodyNext \/ PoolNext \/ ExternalNext

Spec == Init /\ [][Next]_vars

-----------------------------------------------------------------------------
(* Correctness                                                             *)

Requests == [targetRound : Nat, frozenLen : Nat, active : BOOLEAN,
             pinned : BOOLEAN, drawnTokenId : Nat]

\* The type of the contract's storage and of the ledgers it uses.
TypeOK ==
    /\ BeaconTypeOK
    /\ heldTokenIds \in Seq(TokenIds)
    /\ heldTokenIndex \in [TokenIds -> Nat]
    /\ poolOpen \in BOOLEAN
    /\ ethReserve \in Nat /\ shareReserve \in Nat
    /\ accruedFees \in Nat
    /\ lpBalance \in [Users \cup {NoAccount} -> Nat]
    /\ totalLpSupply \in Nat
    /\ redeemRequests \in [Users -> Requests]
    /\ pendingRedeemCount \in 0..1
    /\ pendingRequester \in Users \cup {NoAccount}
    /\ balanceOf \in [Accounts -> Nat]
    /\ totalSupply \in Nat
    /\ ownerOf \in [TokenIds -> Accounts]
    /\ ethBalance \in 0..MaxEth
    /\ call \in [sender : Users \cup {NoAccount}, rest : Seq(TokenIds)]

\* Header invariant 1, which _assertSolvent checks at run time: every share that
\* exists, and every share burned for a draw not yet delivered, is backed by
\* exactly one held NFT.  Inside redeemTargetMany the difference is exactly the
\* items still to be delivered.
Solvent ==
    totalSupply + (pendingRedeemCount + Len(call.rest)) * SHARE_UNIT
        = Len(heldTokenIds) * SHARE_UNIT

\* Header invariant 2, which _assertEthBacked checks at run time: the reserve
\* and the unpaid fees never exceed the ETH the contract really has.
EthBacked == ethReserve + accruedFees <= ethBalance

\* The share side of the pool is really there: the reserve kept in storage never
\* exceeds the shares the vault holds, whatever anybody transfers to it.
ShareBacked == shareReserve <= balanceOf[Vault]

\* redeemRequests, pendingRequester and pendingRedeemCount, written in separate
\* statements of several functions, always tell the same story: at most one
\* active request, the one pendingRequester names, and no leftovers.
SlotCoherent ==
    /\ \A u \in Users : redeemRequests[u].active <=> pendingRequester = u
    /\ \A u \in Users : ~redeemRequests[u].active => redeemRequests[u] = NoRequest
    /\ pendingRedeemCount = IF pendingRequester = NoAccount THEN 0 ELSE 1

\* The slots and their index stay inverse under swap-and-pop, and every token in
\* a slot is the vault's own.
HeldCoherent ==
    /\ \A i \in 1..Len(heldTokenIds) : heldTokenIndex[heldTokenIds[i]] = i
    /\ \A t \in TokenIds : heldTokenIndex[t] # 0 =>
          /\ heldTokenIndex[t] \in 1..Len(heldTokenIds)
          /\ heldTokenIds[heldTokenIndex[t]] = t
          /\ ownerOf[t] = Vault

\* A pending request can always be honoured: before the draw the slots it will
\* fall on exist, after it the drawn token is still in custody and in nobody
\* else's batch.
DrawHonourable ==
    \A u \in Users : redeemRequests[u].active =>
        IF redeemRequests[u].pinned
        THEN /\ redeemRequests[u].drawnTokenId \in TokenIds
             /\ heldTokenIndex[redeemRequests[u].drawnTokenId] # 0
             /\ \A i \in 1..Len(call.rest) :
                   call.rest[i] # redeemRequests[u].drawnTokenId
        ELSE /\ redeemRequests[u].frozenLen \in 1..Len(heldTokenIds)
             /\ call.rest = <<>>

\* After opening, neither reserve can be emptied by any sequence of trades and
\* withdrawals (removeLiquidity: "the pool cannot be bricked").
PoolNeverBricked ==
    poolOpen => ethReserve > 0 /\ shareReserve > 0 /\ totalLpSupply > 0

\* The two ledgers add up: LP units to totalLpSupply, shares to totalSupply.
LedgersAddUp ==
    /\ SumFunction(lpBalance) = totalLpSupply
    /\ SumFunction(balanceOf) = totalSupply

\* One LP unit's claim on the pool, sqrt(ethReserve*shareReserve)/totalLpSupply,
\* never falls: no trade, contribution or withdrawal takes value from the other
\* providers, in spite of all the rounding.
PoolNeverDiluted ==
    [][poolOpen =>
        ethReserve' * shareReserve' * totalLpSupply * totalLpSupply
          >= ethReserve * shareReserve * totalLpSupply' * totalLpSupply']_vars

\* The commit half of commit-reveal: when a request is stored, the drand network
\* has not emitted its round, even if the chain clock lags by a whole period.
RequestTargetsFuture ==
    [][(pendingRequester = NoAccount /\ pendingRequester' # NoAccount /\ MaxLag <= period)
        => redeemRequests'[pendingRequester'].targetRound > published]_vars

\* The whole of commit-reveal: the vault implements CommitRevealDraw.  The menu
\* is the frozen prefix of the slots, so that prefix may not move before the
\* draw; what is drawn is what anybody could compute from the commitment.
PendingRequest ==
    IF pendingRequester = NoAccount THEN NoRequest ELSE redeemRequests[pendingRequester]

Draw == INSTANCE CommitRevealDraw WITH
    requester <- pendingRequester,
    round     <- PendingRequest.targetRound,
    menu      <- IF PendingRequest.active /\ ~PendingRequest.pinned
                 THEN SubSeq(heldTokenIds, 1, PendingRequest.frozenLen) ELSE <<>>,
    drawn     <- IF PendingRequest.pinned THEN {PendingRequest.drawnTokenId} ELSE {},
    seeds     <- randomness

DrawSpec == Draw!DrawSpec

=============================================================================
