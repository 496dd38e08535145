----------------------------- MODULE HpInterface ------------------------------
(***************************************************************************)
(* How a client gets at the HAL behind a hybrid interface (token/1.0/utils *)
(* HybridInterface.h): asInterface() makes an HpInterface, whose           *)
(* constructor asks the server's H2BConverter for a token of the HAL,      *)
(* fetches the HAL with it from the token manager, wraps it in a converter *)
(* of its own and deletes the token.                                       *)
(*                                                                         *)
(* Any call to another process can fail, before or after it took effect;   *)
(* the token manager can be restarted, and forgets its tokens; the client  *)
(* can die.  A token is named after the proxy it was made for.  The calls  *)
(* of the token API are those of TokenManagerClient.                       *)
(***************************************************************************)

CONSTANTS Proxies   \* HpInterface objects

VARIABLES pc,       \* where the constructor of a proxy is
          token,    \* the reply held a token, and not an empty one
          mHal,     \* what castFrom() made of the HAL, "null" for nullptr
          mBase,    \* the implementation a proxy delegates to
          tokens,   \* tokens the manager keeps
          failed    \* history: proxies a call of which has failed

proxyVars == <<pc, token, mHal, mBase, tokens, failed>>

ProxyInit ==
    /\ pc = [p \in Proxies |-> "none"]
    /\ token = [p \in Proxies |-> FALSE]
    /\ mHal = [p \in Proxies |-> "null"]
    /\ mBase = [p \in Proxies |-> "null"]
    /\ tokens = {}
    /\ failed = {}

(* The HALs a token can stand for: of the type wanted or not, and          *)
(* reachable by interfaceChain() or not.  All of them are proxies.         *)
Hals == [rightType : BOOLEAN, reachable : BOOLEAN, remote : {TRUE}]

(* Plausible bugs, used only to show that the properties can fail.         *)
DeleteIfCast(p, hal) == IF hal = "null" THEN "done" ELSE "delete"

-----------------------------------------------------------------------------
canCastInterface(interface, emitError) ==
    IF ~interface.reachable THEN IF emitError THEN "error" ELSE "false"
    ELSE IF interface.rightType THEN "true" ELSE "false"

(* castInterface(): with emitError the error is passed on by StatusOf().   *)
castInterface(parent, emitError) ==
    LET canCast == canCastInterface(parent, emitError)
    IN  CASE canCast = "error" -> "error"
          [] canCast = "false" -> "null"
          [] canCast = "true"  -> IF parent.remote THEN "BpChild" ELSE "same object"

(* asInterface() of an object with a local interface, and an HpInterface   *)
(* of an object that is not remote.                                        *)
asInterface(p, base) ==
    /\ pc[p] = "none"
    /\ base \in {"local interface", "mBp"}
    /\ pc' = [pc EXCEPT ![p] = "done"]
    /\ mBase' = [mBase EXCEPT ![p] = base]
    /\ UNCHANGED <<token, mHal, tokens, failed>>

(* GET_HAL_TOKEN, with H2BConverter::onTransact() and createHalToken() in  *)
(* the server.  made: the manager has registered a token; told: the client *)
(* receives a reply, with the token unless the manager made none.          *)
GetHalToken(p, made, told) ==
    /\ pc[p] = "none"
    /\ mBase' = [mBase EXCEPT ![p] = "mBp"]
    /\ tokens' = IF made THEN tokens \union {p} ELSE tokens
    /\ token' = [token EXCEPT ![p] = made /\ told]
    /\ pc' = [pc EXCEPT ![p] = IF told THEN "retrieve" ELSE "done"]
    /\ failed' = IF told THEN failed ELSE failed \union {p}
    /\ UNCHANGED mHal

(* What follows the attempt to use the token: it is deleted in any case.   *)
AfterRetrieve(p, hal) == "delete"

(* retrieveHalInterface(), castFrom() and the converter.                   *)
Retrieve(p) ==
    /\ pc[p] = "retrieve"
    /\ \/ /\ token[p] /\ p \in tokens
          /\ \E h \in Hals :
                /\ mHal' = [mHal EXCEPT ![p] = castInterface(h, FALSE)]
                /\ mBase' = IF castInterface(h, FALSE) = "null" THEN mBase
                            ELSE [mBase EXCEPT ![p] = "converter"]
                /\ pc' = [pc EXCEPT ![p] = AfterRetrieve(p, castInterface(h, FALSE))]
       \/ /\ pc' = [pc EXCEPT ![p] = AfterRetrieve(p, "null")]
          /\ UNCHANGED <<mHal, mBase>>
    /\ UNCHANGED <<token, tokens, failed>>

(* deleteHalToken(), whose result is ignored.                              *)
DeleteHalToken(p, ok) ==
    /\ pc[p] = "delete"
    /\ pc' = [pc EXCEPT ![p] = "done"]
    /\ tokens' = IF ok /\ token[p] THEN tokens \ {p} ELSE tokens
    /\ failed' = IF ok THEN failed ELSE failed \union {p}
    /\ UNCHANGED <<token, mHal, mBase>>

ClientDies(p) ==
    /\ pc[p] \in {"retrieve", "delete"}
    /\ pc' = [pc EXCEPT ![p] = "dead"]
    /\ failed' = failed \union {p}
    /\ UNCHANGED <<token, mHal, mBase, tokens>>

ManagerRestarts ==
    /\ tokens' = {}
    /\ UNCHANGED <<pc, token, mHal, mBase, failed>>

ProxyNext ==
    \/ ManagerRestarts
    \/ \E p \in Proxies :
          \/ Retrieve(p) \/ ClientDies(p)
          \/ \E base \in {"local interface", "mBp"} : asInterface(p, base)
          \/ \E made, told \in BOOLEAN : GetHalToken(p, made, told)
          \/ \E ok \in BOOLEAN : DeleteHalToken(p, ok)

ProxySpec == ProxyInit /\ [][ProxyNext]_proxyVars

-----------------------------------------------------------------------------
(***************************************************************************)
(* No token, and with it no strong pointer to the HAL in the token         *)
(* manager, outlives the constructor it was made for, be the HAL missing   *)
(* or of the wrong type: what is left over is left by a call that failed   *)
(* or a client that died.                                                  *)
(***************************************************************************)
TokenReleased == \A p \in tokens : pc[p] \in {"retrieve", "delete"} \/ p \in failed
==============================================================================
