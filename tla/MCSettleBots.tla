---------------------------- MODULE MCSettleBots ----------------------------
(* Instances of the settlement bots for TLC. *)
EXTENDS SettleBots

MCSignatures == 0..1
MCSignatureOf(round) == round % 2
MCKeccak(s) == 10 + s
MCDrawWord(seed, account) == seed
=============================================================================
