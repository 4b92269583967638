--------------------------- MODULE MCKingOfTheHill --------------------------
(* An instance of the contest for TLC: a sale settled in WETH and a dearer  *)
(* one settled in ETH.                                                     *)
EXTENDS KingOfTheHill

MCIsSale(l) == TRUE
MCPrice(l) == IF l = "weth" THEN 1 ELSE 2
MCSent(l) == IF l = "weth" THEN 0 ELSE 2
=============================================================================
