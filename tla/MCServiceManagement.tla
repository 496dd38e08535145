------------------------- MODULE MCServiceManagement -------------------------
(* An instance of ServiceManagement for TLC.  Liveness properties are      *)
(* checked, so there is no symmetry.                                       *)
EXTENDS ServiceManagement
==============================================================================
