------------------------- MODULE MCTokenManagerClient -------------------------
(* Instances of TokenManagerClient for TLC.                                *)
EXTENDS TokenManagerClient, TLC

ThreadSymmetry == Permutations(Threads)
==============================================================================
