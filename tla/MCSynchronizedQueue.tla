------------------------ MODULE MCSynchronizedQueue ------------------------
(* An instance of SynchronizedQueue for TLC: two producers, two consumers,  *)
(* and a queue that can be empty, half full and full.  A liveness property  *)
(* is checked, so there is no symmetry.                                     *)
EXTENDS SynchronizedQueue
============================================================================
