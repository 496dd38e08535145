------------------------------ MODULE MCBinderMap ------------------------------
(* Instances of BinderMap for TLC.  Binders are as many as can be in use   *)
(* at once: one per interface and one per thread that destroys or reads.   *)
EXTENDS BinderMap, TLC

Symmetry ==
    Permutations(Threads) \union Permutations(Ifaces) \union Permutations(Binders)
==============================================================================
