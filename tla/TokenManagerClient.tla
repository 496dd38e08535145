-------------------------- MODULE TokenManagerClient --------------------------
(***************************************************************************)
(* The client side of the HIDL token manager,                              *)
(* transport/token/1.0/utils/HybridInterface.cpp: a proxy to ITokenManager *)
(* cached in gTokenManager under gTokenManagerLock, dropped when the       *)
(* manager dies (serviceDied) or a transaction with it fails.              *)
(*                                                                         *)
(* retrieveHalInterface() and deleteHalToken() look at the result of their *)
(* transaction inside the lock, createHalToken() after it.                 *)
(*                                                                         *)
(* The manager is a service in another process: it dies and is restarted,  *)
(* each time as a new incarnation.  A death reaches the client as one      *)
(* serviceDied() call per link, at any later time.  A transaction may fail *)
(* with a live manager too.  Accesses to the pointer gTokenManager are     *)
(* atomic here: what an unsynchronised access to an sp<> can tear is not   *)
(* modelled.                                                               *)
(***************************************************************************)
EXTENDS Naturals

CONSTANTS Threads,
          Calls,             \* the API calls made: "create", "get", "unregister"
          MaxIncarnations,   \* bound on restarts of the manager
          MaxLinks,          \* bound on death links of one incarnation
          NoThread           \* nobody holds gTokenManagerLock

ASSUME TokenAssumption ==
    /\ Calls \subseteq {"create", "get", "unregister"}
    /\ MaxIncarnations \in Nat \ {0}
    /\ MaxLinks \in Nat
    /\ NoThread \notin Threads

Managers == 1..MaxIncarnations

VARIABLES gTokenManagerLock,   \* the thread inside the lock, or NoThread
          gTokenManager,       \* the incarnation cached, 0 for nullptr
          pc, call,            \* where a thread is, and in which call
          service,             \* the incarnation running, 0 for none
          incarnation,         \* the latest incarnation started
          links,               \* death links the client has on an incarnation
          notices,             \* serviceDied() calls under way, per incarnation
          crashed,             \* the process has dereferenced a null pointer
          unlockedFailure      \* history: a failure was handled outside the lock

fate == <<crashed, unlockedFailure>>

vars == <<gTokenManagerLock, gTokenManager, pc, call, service, incarnation,
          links, notices, fate>>

manager == <<service, incarnation>>

Init ==
    /\ gTokenManagerLock = NoThread
    /\ gTokenManager = 0
    /\ pc = [t \in Threads |-> "idle"]
    /\ call = [t \in Threads |-> "none"]
    /\ service = 1
    /\ incarnation = 1
    /\ links = [m \in Managers |-> 0]
    /\ notices = [m \in Managers |-> 0]
    /\ crashed = FALSE
    /\ unlockedFailure = FALSE

(* The call returns and releases the lock.                                 *)
Return(t) ==
    /\ gTokenManagerLock' = NoThread
    /\ pc' = [pc EXCEPT ![t] = "idle"]
    /\ call' = [call EXCEPT ![t] = "none"]

-----------------------------------------------------------------------------
(***************************************************************************)
(* Plausible bugs, used only to show that the properties can fail.         *)
(***************************************************************************)
LinkForgotten(t) ==
    /\ pc[t] = "link"
    /\ pc' = [pc EXCEPT ![t] = "transact"]
    /\ UNCHANGED <<gTokenManagerLock, gTokenManager, call, manager, links,
                   notices, fate>>

FailOutsideLock(t) ==
    /\ pc[t] = "transact"
    /\ gTokenManagerLock' = NoThread
    /\ pc' = [pc EXCEPT ![t] = "failed"]
    /\ UNCHANGED <<gTokenManager, call, manager, links, notices, fate>>

NoticeIgnored(m) ==
    /\ notices[m] > 0
    /\ gTokenManagerLock = NoThread
    /\ notices' = [notices EXCEPT ![m] = @ - 1]
    /\ UNCHANGED <<gTokenManagerLock, gTokenManager, pc, call, manager, links, fate>>

-----------------------------------------------------------------------------
(* unlinkToDeath(gTokenManagerDeathRecipient): one link less, if any.      *)
Unlink(m) == links' = [links EXCEPT ![m] = IF @ = 0 THEN 0 ELSE @ - 1]

(* A call begins: lock, and use the cached manager if there is one.        *)
Begin(t, c) ==
    /\ pc[t] = "idle"
    /\ gTokenManagerLock = NoThread
    /\ gTokenManagerLock' = t
    /\ call' = [call EXCEPT ![t] = c]
    /\ pc' = [pc EXCEPT ![t] = IF gTokenManager # 0 THEN "transact" ELSE "getService"]
    /\ UNCHANGED <<gTokenManager, manager, links, notices, fate>>

(* isBadTokenManager: ITokenManager::getService(); no service, no result.  *)
GetService(t) ==
    /\ pc[t] = "getService"
    /\ service # 0
    /\ gTokenManager' = service
    /\ pc' = [pc EXCEPT ![t] = "link"]
    /\ UNCHANGED <<gTokenManagerLock, call, manager, links, notices, fate>>

GetServiceFails(t) ==
    /\ pc[t] = "getService"
    /\ service = 0
    /\ Return(t)
    /\ UNCHANGED <<gTokenManager, manager, links, notices, fate>>

(* isBadTokenManager: linkToDeath().  Only the transport's verdict is      *)
(* looked at; that a link to a dead manager returns false goes unnoticed.  *)
LinkToDeath(t) ==
    /\ pc[t] = "link"
    /\ gTokenManager # 0
    /\ IF service = gTokenManager
         THEN /\ links[gTokenManager] < MaxLinks
              /\ links' = [links EXCEPT ![gTokenManager] = @ + 1]
         ELSE UNCHANGED links
    /\ pc' = [pc EXCEPT ![t] = "transact"]
    /\ UNCHANGED <<gTokenManagerLock, gTokenManager, call, manager, notices, fate>>

LinkToDeathFails(t) ==
    /\ pc[t] = "link"
    /\ gTokenManager # 0
    /\ gTokenManager' = 0
    /\ Return(t)
    /\ UNCHANGED <<manager, links, notices, fate>>

(* The transaction with the manager succeeds.                              *)
Transact(t) ==
    /\ pc[t] = "transact"
    /\ gTokenManager # 0
    /\ service = gTokenManager
    /\ Return(t)
    /\ UNCHANGED <<gTokenManager, manager, links, notices, fate>>

(* It fails, and isBadTransaction runs inside the lock.                    *)
TransactFails(t) ==
    /\ pc[t] = "transact"
    /\ gTokenManager # 0
    /\ call[t] # "create"
    /\ Unlink(gTokenManager)
    /\ gTokenManager' = 0
    /\ Return(t)
    /\ UNCHANGED <<manager, notices, fate>>

(* It fails in createHalToken: the lock is released first.                 *)
CreateFails(t) ==
    /\ pc[t] = "transact"
    /\ gTokenManager # 0
    /\ call[t] = "create"
    /\ gTokenManagerLock' = NoThread
    /\ pc' = [pc EXCEPT ![t] = "failed"]
    /\ unlockedFailure' = TRUE
    /\ UNCHANGED <<gTokenManager, call, manager, links, notices, crashed>>

(* isBadTransaction outside the lock: gTokenManager->unlinkToDeath(), on   *)
(* whatever gTokenManager is by now.                                       *)
UnlinkUnlocked(t) ==
    /\ pc[t] = "failed"
    /\ gTokenManager # 0
    /\ Unlink(gTokenManager)
    /\ pc' = [pc EXCEPT ![t] = "clear"]
    /\ UNCHANGED <<gTokenManagerLock, gTokenManager, call, manager, notices, fate>>

(* gTokenManager->linkToDeath(), a transaction or unlinkToDeath() with     *)
(* gTokenManager set to null meanwhile.                                    *)
NullDereference(t) ==
    /\ pc[t] \in {"link", "transact", "failed"}
    /\ gTokenManager = 0
    /\ crashed' = TRUE
    /\ UNCHANGED <<gTokenManagerLock, gTokenManager, pc, call, manager, links,
                   notices, unlockedFailure>>

(* isBadTransaction outside the lock: gTokenManager = nullptr.             *)
ClearUnlocked(t) ==
    /\ pc[t] = "clear"
    /\ gTokenManager' = 0
    /\ pc' = [pc EXCEPT ![t] = "idle"]
    /\ call' = [call EXCEPT ![t] = "none"]
    /\ UNCHANGED <<gTokenManagerLock, manager, links, notices, fate>>

(* TokenManagerDeathRecipient::serviceDied, on a binder thread: it does    *)
(* not look at which manager has died.                                     *)
ServiceDied(m) ==
    /\ notices[m] > 0
    /\ gTokenManagerLock = NoThread
    /\ notices' = [notices EXCEPT ![m] = @ - 1]
    /\ gTokenManager' = 0
    /\ UNCHANGED <<gTokenManagerLock, pc, call, manager, links, fate>>

(* The manager's process dies; every link becomes a notice.                *)
Die ==
    /\ service # 0
    /\ service' = 0
    /\ notices' = [notices EXCEPT ![service] = links[service]]
    /\ links' = [links EXCEPT ![service] = 0]
    /\ UNCHANGED <<gTokenManagerLock, gTokenManager, pc, call, incarnation, fate>>

Restart ==
    /\ service = 0
    /\ incarnation < MaxIncarnations
    /\ incarnation' = incarnation + 1
    /\ service' = incarnation + 1
    /\ UNCHANGED <<gTokenManagerLock, gTokenManager, pc, call, links, notices, fate>>

(* A step of thread t inside a call.                                       *)
Step(t) ==
    \/ GetService(t) \/ GetServiceFails(t)
    \/ LinkToDeath(t) \/ LinkToDeathFails(t)
    \/ Transact(t) \/ TransactFails(t)
    \/ CreateFails(t) \/ UnlinkUnlocked(t) \/ ClearUnlocked(t)
    \/ NullDereference(t)

Next ==
    /\ ~crashed
    /\ \/ \E t \in Threads, c \in Calls : Begin(t, c)
       \/ \E t \in Threads : Step(t)
       \/ \E m \in Managers : ServiceDied(m)
       \/ Die \/ Restart

(* A thread inside a call runs until it returns, and the binder driver     *)
(* delivers death notices.  Nobody owes a call, and the manager neither a  *)
(* death nor a restart.                                                    *)
Fairness ==
    /\ \A t \in Threads : WF_vars(~crashed /\ Step(t))
    /\ \A m \in Managers : WF_vars(~crashed /\ ServiceDied(m))

Spec == Init /\ [][Next]_vars

FairSpec == Spec /\ Fairness

-----------------------------------------------------------------------------
(* The variables hold values of their types.                               *)
TypeOK ==
    /\ gTokenManagerLock \in Threads \union {NoThread}
    /\ gTokenManager \in Managers \union {0}
    /\ pc \in [Threads -> {"idle", "getService", "link", "transact", "failed", "clear"}]
    /\ call \in [Threads -> Calls \union {"none"}]
    /\ service \in Managers \union {0}
    /\ incarnation \in Nat
    /\ links \in [Managers -> Nat]
    /\ notices \in [Managers -> Nat]
    /\ crashed \in BOOLEAN
    /\ unlockedFailure \in BOOLEAN

(* No call of the token API dereferences a null gTokenManager.             *)
NoNullDereference == ~crashed

(* createHalToken() is the only hole: as long as no failed transaction was *)
(* handled after the lock was released, every dereference of gTokenManager *)
(* in any interleaving of calls, deaths and restarts finds it non-null.    *)
CrashOnlyAfterUnlockedFailure == crashed => unlockedFailure

(* While nobody is in the middle of replacing it, the cached manager is    *)
(* one whose death the client will hear of: it is linked, or the notice    *)
(* of its death is under way.  Without this a dead manager would stay      *)
(* cached until a call happened to fail on it.                             *)
CachedManagerObserved ==
    (/\ gTokenManager # 0
     /\ gTokenManagerLock = NoThread
     /\ \A t \in Threads : pc[t] \notin {"failed", "clear"})
        => links[gTokenManager] + notices[gTokenManager] > 0

(* A dead manager does not stay cached, even if no further call is made.   *)
DeadManagerForgotten ==
    \A m \in Managers :
        (gTokenManager = m /\ service # m) ~> (gTokenManager # m \/ crashed)
==============================================================================
