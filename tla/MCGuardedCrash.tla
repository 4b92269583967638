--------------------------- MODULE MCGuardedCrash ---------------------------
(* Instance of the guarded crash game for TLC.                              *)
EXTENDS PlankGuardedCrash

MCSignatures == 1..14
MCSignatureOf(r) == r
MCKeccak(s) == 100 + s
=============================================================================
