------------------------------- MODULE MCDPoS -------------------------------
(* A small instance of DPoS: three addresses.                                *)
EXTENDS DPoS, TLC

CONSTANTS a, b, c

MCAddrRank == a :> 1 @@ b :> 2 @@ c :> 3
=============================================================================
