-------------------------- MODULE MCHybridInterface ---------------------------
(* The two halves of HybridInterface.h, which share no state: a behaviour  *)
(* is one of the death links of a converter, or of proxies being made.     *)
EXTENDS H2BConverter, HpInterface

VARIABLE half

hybridVars == <<half, obituaryVars, proxyVars>>

MCInit == half \in {"converter", "proxy"} /\ ObituaryInit /\ ProxyInit

MCNext ==
    /\ \/ half = "converter" /\ ObituaryNext /\ UNCHANGED proxyVars
       \/ half = "proxy" /\ ProxyNext /\ UNCHANGED obituaryVars
    /\ UNCHANGED half

(* The binder driver delivers every death notice.                          *)
MCSpec ==
    /\ MCInit /\ [][MCNext]_hybridVars
    /\ \A id \in Ids : WF_hybridVars(serviceDied(id) /\ UNCHANGED <<half, proxyVars>>)
==============================================================================
