--------------------------- MODULE MCChainIndexer ---------------------------
(* An instance of the indexer for TLC: one sale settled in WETH, and one in *)
(* a foreign token, whose price nobody can tell.                            *)
EXTENDS ChainIndexer

MCIsSale(l) == TRUE
MCPrice(l) == IF l = "weth" THEN 2 ELSE 0
MCSent(l) == 0
=============================================================================
