------------------------ MODULE MCMarketplankVaultV3 ------------------------
(* Instances of the vault for TLC: signatures, hash and draws as small      *)
(* numbers, so that requests made at different times draw different slots.  *)
EXTENDS MarketplankVaultV3

MCSignatures == 0..2
MCSignatureOf(round) == round % 3
MCKeccak(s) == 10 + s
MCDrawWord(seed, account) == IF account = treasury THEN seed + 1 ELSE seed
=============================================================================
