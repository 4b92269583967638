---------------------------- MODULE MCCasinoMoney ---------------------------
(* Instances of the casino for TLC.                                           *)
EXTENDS CasinoMoney

MCSignatures == 1..14
MCSignatureOf(r) == r
MCKeccak(s) == 100 + s
PlayersSymmetry == Permutations(Players)
=============================================================================
