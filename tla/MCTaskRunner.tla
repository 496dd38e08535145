----------------------------- MODULE MCTaskRunner -----------------------------
(* Instances of TaskRunner for TLC: clients and the worker itself push.    *)
(* Liveness properties are checked, so there is no symmetry.               *)
EXTENDS TaskRunner
==============================================================================
