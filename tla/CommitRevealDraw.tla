-------------------------- MODULE CommitRevealDraw --------------------------
(***************************************************************************)
(* What the vault promises about a random redemption, without fees,        *)
(* shares, slots or batches.  A requester commits to a round nobody has    *)
(* seen; the menu of tokens to draw from is frozen at that moment; the     *)
(* round's seed, once known, fixes the one token that is drawn; that token *)
(* goes to the requester and to nobody else.  Only a request whose seed    *)
(* was never relayed can end with nothing.                                 *)
(***************************************************************************)
EXTENDS Integers, Sequences

CONSTANTS Users, Vault, NoAccount, TokenIds, DrawWord(_, _)

VARIABLES
    requester,   \* who has committed, or NoAccount
    round,       \* the round committed to
    menu,        \* the tokens the draw is taken from, frozen at the commitment
    drawn,       \* {} or the singleton of the drawn token
    seeds,       \* the seeds known so far, a function on rounds
    published,   \* the latest round the drand network has emitted
    ownerOf      \* who owns each token

drawVars == <<requester, round, menu, drawn, seeds, published, ownerOf>>

Owners == Users \cup {Vault}

Free == requester = NoAccount /\ round = 0 /\ menu = <<>> /\ drawn = {}

\* The token the seed picks from the menu.
Outcome == menu[1 + (DrawWord(seeds[round], requester) % Len(menu))]

\* Tokens spoken for: the menu before the draw, the drawn token after it.
Kept == {menu[i] : i \in 1..Len(menu)} \cup drawn

\* Known seeds stay, the network only moves forward.
Forward ==
    /\ \A r \in DOMAIN seeds : r \in DOMAIN seeds' /\ seeds'[r] = seeds[r]
    /\ published' >= published

Commit ==
    /\ Free
    /\ requester' \in Users
    /\ round' > published
    /\ round' \notin DOMAIN seeds
    /\ Len(menu') > 0
    /\ \A i \in 1..Len(menu') : ownerOf[menu'[i]] = Vault
    /\ drawn' = {}
    /\ UNCHANGED <<seeds, published, ownerOf>>

\* The seed is known: it decides.  Other tokens may move in the same step.
Reveal ==
    /\ requester # NoAccount
    /\ drawn = {}
    /\ round \in DOMAIN seeds
    /\ drawn' = {Outcome}
    /\ ownerOf'[Outcome] = Vault
    /\ menu' = <<>>
    /\ UNCHANGED <<requester, round, seeds, published>>

\* The drawn token, drawn earlier or in this very step, goes to the requester.
Deliver ==
    /\ requester # NoAccount
    /\ \E t \in TokenIds :
          /\ \/ drawn = {t}
             \/ drawn = {} /\ round \in DOMAIN seeds /\ t = Outcome
          /\ ownerOf' = [ownerOf EXCEPT ![t] = requester]
    /\ Free'
    /\ UNCHANGED <<seeds, published>>

Forfeit ==
    /\ requester # NoAccount
    /\ drawn = {}
    /\ round \notin DOMAIN seeds
    /\ Free'
    /\ UNCHANGED <<seeds, published, ownerOf>>

\* Everything else: seeds become known, tokens nobody waits for change hands.
Otherwise ==
    /\ Forward
    /\ ownerOf' \in [TokenIds -> Owners]
    /\ \A t \in Kept : ownerOf'[t] = Vault
    /\ UNCHANGED <<requester, round, menu, drawn>>

DrawInit ==
    /\ Free
    /\ seeds = [r \in {} |-> 0]
    /\ published = 0
    /\ ownerOf \in [TokenIds -> Users]

DrawNext == Commit \/ Reveal \/ Deliver \/ Forfeit \/ Otherwise

DrawSpec == DrawInit /\ [][DrawNext]_drawVars

=============================================================================
