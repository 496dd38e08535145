--------------------------- MODULE ServiceManagement ---------------------------
(***************************************************************************)
(* waitForHwService() of transport/ServiceManagement.cpp: threads of one   *)
(* process wait until a service is registered with hwservicemanager, each  *)
(* through a Waiter of its own that subscribes to notifications.           *)
(* defaultServiceManager1_1() gives them the process's only proxy to       *)
(* hwservicemanager, made on first use under gDefaultServiceManagerLock,   *)
(* which the maker holds until hwservicemanager is ready.                  *)
(*                                                                         *)
(* hwservicemanager and the service are other processes.  The proxy names  *)
(* whichever process is hwservicemanager; a call made through it may fail  *)
(* at any time, with or without having taken effect there, and does while  *)
(* there is none.  onRegistration() is oneway: it is delivered at any      *)
(* later time, also after the Waiter has unsubscribed.  Waiter::wait()     *)
(* looks at mRegistered again at least every second, so what the condition *)
(* variable adds is only latency and is left out.                          *)
(*                                                                         *)
(* A thread's Waiter is the one of its latest call that made one.  It is   *)
(* followed after that call has returned, until the thread makes another.  *)
(***************************************************************************)
EXTENDS Naturals, FiniteSets

CONSTANTS Threads,
          MaxRegistrations,   \* bound on registrations of the service
          MaxRestarts,        \* bound on restarts of hwservicemanager
          NoThread            \* nobody holds gDefaultServiceManagerLock

ASSUME ServiceAssumption ==
    /\ MaxRegistrations \in Nat
    /\ MaxRestarts \in Nat
    /\ NoThread \notin Threads

VARIABLES hwbinder,        \* access("/dev/hwbinder") succeeds
          managerUp,       \* hwservicemanager runs and has set its property
          restarts,        \* how often it was restarted
          gDefaultServiceManagerLock,
          proxies,         \* proxies to hwservicemanager ever made
          gDefaultServiceManager,   \* the one in use, 0 for NULL
          pc,
          mRegistered,     \* of the Waiter of a thread's call
          subscribers,     \* threads whose Waiter hwservicemanager knows
          unsure,          \* history: threads whose Waiter was registered by
                           \* a call whose reply was lost, or which they
                           \* failed to unregister
          notices,         \* onRegistration() calls under way to a Waiter
          serviceUp,       \* the service is registered
          registrations,   \* how often it was registered
          seen             \* history: it was registered at some time since
                           \* the thread's call subscribed

vars == <<hwbinder, managerUp, restarts, gDefaultServiceManagerLock, proxies,
          gDefaultServiceManager, pc, mRegistered, subscribers, unsure,
          notices, serviceUp, registrations, seen>>

environment == <<hwbinder, managerUp, restarts, serviceUp, registrations>>
singleton   == <<gDefaultServiceManagerLock, proxies, gDefaultServiceManager>>
waiters     == <<mRegistered, subscribers, unsure, notices, seen>>

Init ==
    /\ hwbinder \in BOOLEAN
    /\ managerUp = FALSE
    /\ restarts = 0
    /\ gDefaultServiceManagerLock = NoThread
    /\ proxies = 0
    /\ gDefaultServiceManager = 0
    /\ pc = [t \in Threads |-> "idle"]
    /\ mRegistered = [t \in Threads |-> FALSE]
    /\ subscribers = {}
    /\ unsure = {}
    /\ notices = [t \in Threads |-> 0]
    /\ serviceUp = FALSE
    /\ registrations = 0
    /\ seen = [t \in Threads |-> FALSE]

Goto(t, label) == pc' = [pc EXCEPT ![t] = label]

-----------------------------------------------------------------------------
(***************************************************************************)
(* Plausible bugs, used only to show that the properties can fail.         *)
(***************************************************************************)
MakeManagerUnlocked(t) ==
    /\ pc[t] = "getManager"
    /\ gDefaultServiceManager = 0
    /\ hwbinder
    /\ Goto(t, "waitReady")
    /\ UNCHANGED <<environment, singleton, waiters>>

SubscribeOldWaiter(t) ==
    /\ pc[t] = "subscribe"
    /\ managerUp
    /\ subscribers' = subscribers \union {t}
    /\ mRegistered' = mRegistered
    /\ unsure' = unsure \ {t}
    /\ notices' = [notices EXCEPT ![t] = IF serviceUp THEN 1 ELSE 0]
    /\ seen' = [seen EXCEPT ![t] = serviceUp]
    /\ Goto(t, "wait")
    /\ UNCHANGED <<environment, singleton>>

NoUnsubscribe(t) ==
    /\ pc[t] = "unsubscribe"
    /\ Goto(t, "idle")
    /\ UNCHANGED <<environment, singleton, waiters>>

OnRegistrationInverted(t) ==
    /\ notices[t] > 0
    /\ notices' = [notices EXCEPT ![t] = @ - 1]
    /\ UNCHANGED <<environment, singleton, pc, mRegistered, subscribers, unsure, seen>>

ReadyKeepsLock(t) ==
    /\ pc[t] = "waitReady"
    /\ managerUp
    /\ proxies' = proxies + 1
    /\ gDefaultServiceManager' = proxies + 1
    /\ Goto(t, "subscribe")
    /\ UNCHANGED <<environment, gDefaultServiceManagerLock, waiters>>

-----------------------------------------------------------------------------
(* waitForHwService() is called.                                           *)
Call(t) ==
    /\ pc[t] = "idle"
    /\ Goto(t, "getManager")
    /\ UNCHANGED <<environment, singleton, waiters>>

(* defaultServiceManager1_1(): the proxy exists.                           *)
ManagerCached(t) ==
    /\ pc[t] = "getManager"
    /\ gDefaultServiceManagerLock = NoThread
    /\ gDefaultServiceManager # 0
    /\ Goto(t, "subscribe")
    /\ UNCHANGED <<environment, singleton, waiters>>

(* No hwbinder device: there is no manager, and the call returns.          *)
NoHwBinder(t) ==
    /\ pc[t] = "getManager"
    /\ gDefaultServiceManagerLock = NoThread
    /\ gDefaultServiceManager = 0
    /\ ~hwbinder
    /\ Goto(t, "idle")
    /\ UNCHANGED <<environment, singleton, waiters>>

(* No proxy yet: go on to make it with the lock held.                      *)
MakeManager(t) ==
    /\ pc[t] = "getManager"
    /\ gDefaultServiceManagerLock = NoThread
    /\ gDefaultServiceManager = 0
    /\ hwbinder
    /\ gDefaultServiceManagerLock' = t
    /\ Goto(t, "waitReady")
    /\ UNCHANGED <<environment, proxies, gDefaultServiceManager, waiters>>

(* waitForHwServiceManager() returns and the context object is fetched;    *)
(* a null one is fetched again a second later.                             *)
ManagerReady(t) ==
    /\ pc[t] = "waitReady"
    /\ managerUp
    /\ proxies' = proxies + 1
    /\ gDefaultServiceManager' = proxies + 1
    /\ gDefaultServiceManagerLock' = NoThread
    /\ Goto(t, "subscribe")
    /\ UNCHANGED <<environment, waiters>>

(* A new Waiter; hwservicemanager, once it knows it, sends a notification  *)
(* at once if the service is there already.                                *)
NewWaiter(t, known) ==
    /\ subscribers' = IF known THEN subscribers \union {t} ELSE subscribers \ {t}
    /\ mRegistered' = [mRegistered EXCEPT ![t] = FALSE]
    /\ notices' = [notices EXCEPT ![t] = IF known /\ serviceUp THEN 1 ELSE 0]
    /\ seen' = [seen EXCEPT ![t] = known /\ serviceUp]
    /\ UNCHANGED <<environment, singleton>>

(* registerForNotifications() succeeds.                                    *)
Subscribe(t) ==
    /\ pc[t] = "subscribe"
    /\ managerUp
    /\ NewWaiter(t, TRUE)
    /\ unsure' = unsure \ {t}
    /\ Goto(t, "wait")

(* It fails without effect, or hwservicemanager refuses: the call returns. *)
SubscribeFails(t) ==
    /\ pc[t] = "subscribe"
    /\ NewWaiter(t, FALSE)
    /\ unsure' = unsure \ {t}
    /\ Goto(t, "idle")

(* It takes effect and its reply is lost: the call returns all the same,   *)
(* and unregisters nothing.                                                *)
SubscribeLosesReply(t) ==
    /\ pc[t] = "subscribe"
    /\ managerUp
    /\ NewWaiter(t, TRUE)
    /\ unsure' = unsure \union {t}
    /\ Goto(t, "idle")

(* Waiter::wait() finds mRegistered set.                                   *)
WaitReturns(t) ==
    /\ pc[t] = "wait"
    /\ mRegistered[t]
    /\ Goto(t, "unsubscribe")
    /\ UNCHANGED <<environment, singleton, waiters>>

(* The Waiter is unregistered, and destroyed.                              *)
Unsubscribe(t) ==
    /\ pc[t] = "unsubscribe"
    /\ managerUp
    /\ subscribers' = subscribers \ {t}
    /\ Goto(t, "idle")
    /\ UNCHANGED <<environment, singleton, mRegistered, unsure, notices, seen>>

(* A failure is only logged: hwservicemanager keeps the Waiter, or it has  *)
(* forgotten it and the reply was lost.                                    *)
UnsubscribeFails(t) ==
    /\ pc[t] = "unsubscribe"
    /\ \/ unsure' = unsure \union {t} /\ UNCHANGED subscribers
       \/ managerUp /\ subscribers' = subscribers \ {t} /\ UNCHANGED unsure
    /\ Goto(t, "idle")
    /\ UNCHANGED <<environment, singleton, mRegistered, notices, seen>>

(* Waiter::onRegistration(), on a binder thread.                           *)
OnRegistration(t) ==
    /\ notices[t] > 0
    /\ notices' = [notices EXCEPT ![t] = @ - 1]
    /\ mRegistered' = [mRegistered EXCEPT ![t] = TRUE]
    /\ UNCHANGED <<environment, singleton, pc, subscribers, unsure, seen>>

(* The service registers itself: every subscriber is sent a notification.  *)
ServiceRegisters ==
    /\ managerUp
    /\ ~serviceUp
    /\ registrations < MaxRegistrations
    /\ registrations' = registrations + 1
    /\ serviceUp' = TRUE
    /\ notices' = [t \in Threads |->
                      IF t \in subscribers THEN notices[t] + 1 ELSE notices[t]]
    /\ seen' = [t \in Threads |-> seen[t] \/ t \in subscribers]
    /\ UNCHANGED <<hwbinder, managerUp, restarts, singleton, pc, mRegistered,
                   subscribers, unsure>>

ServiceDies ==
    /\ serviceUp
    /\ serviceUp' = FALSE
    /\ UNCHANGED <<hwbinder, managerUp, restarts, registrations, singleton, pc, waiters>>

ManagerStarts ==
    /\ ~managerUp
    /\ managerUp' = TRUE
    /\ UNCHANGED <<hwbinder, restarts, serviceUp, registrations, singleton, pc, waiters>>

(* hwservicemanager dies and forgets services and subscribers.             *)
ManagerDies ==
    /\ managerUp
    /\ restarts < MaxRestarts
    /\ restarts' = restarts + 1
    /\ managerUp' = FALSE
    /\ serviceUp' = FALSE
    /\ subscribers' = {} /\ unsure' = {}
    /\ UNCHANGED <<hwbinder, registrations, singleton, pc, mRegistered, notices, seen>>

(* A step of thread t inside waitForHwService().                           *)
Step(t) ==
    \/ ManagerCached(t) \/ NoHwBinder(t) \/ MakeManager(t) \/ ManagerReady(t)
    \/ Subscribe(t) \/ SubscribeFails(t) \/ SubscribeLosesReply(t)
    \/ WaitReturns(t) \/ Unsubscribe(t) \/ UnsubscribeFails(t)

Next ==
    \/ \E t \in Threads : Call(t) \/ Step(t) \/ OnRegistration(t)
    \/ ServiceRegisters \/ ServiceDies \/ ManagerStarts \/ ManagerDies

(* Threads inside a call run, the binder driver delivers notifications,    *)
(* and init starts hwservicemanager.  Nobody owes a registration.          *)
Fairness ==
    /\ \A t \in Threads : WF_vars(Step(t)) /\ WF_vars(OnRegistration(t))
    /\ WF_vars(ManagerStarts)

Spec == Init /\ [][Next]_vars

FairSpec == Spec /\ Fairness

-----------------------------------------------------------------------------
(* The variables hold values of their types.                               *)
TypeOK ==
    /\ gDefaultServiceManagerLock \in Threads \union {NoThread}
    /\ gDefaultServiceManager \in 0..proxies
    /\ pc \in [Threads -> {"idle", "getManager", "waitReady", "subscribe",
                           "wait", "unsubscribe"}]
    /\ mRegistered \in [Threads -> BOOLEAN]
    /\ subscribers \subseteq Threads /\ unsure \subseteq Threads
    /\ notices \in [Threads -> Nat]
    /\ hwbinder \in BOOLEAN /\ managerUp \in BOOLEAN /\ serviceUp \in BOOLEAN
    /\ restarts \in 0..MaxRestarts /\ registrations \in 0..MaxRegistrations
    /\ proxies \in Nat
    /\ seen \in [Threads -> BOOLEAN]

(* The process makes one proxy to hwservicemanager, however many threads   *)
(* ask for it at once and however long it takes to become ready.           *)
OneProxy == proxies <= 1

(* A wait ends only because of a registration that its own call could see: *)
(* never because of one that an earlier call of the thread was told of.    *)
WaitIsHonest == \A t \in Threads : pc[t] = "unsubscribe" => seen[t]

(* When a call has returned, hwservicemanager knows its Waiter only if the *)
(* reply to registering that Waiter was lost or unregistering it failed    *)
(* (waitForHwService() returns from both without another attempt): any     *)
(* other way out of the call unsubscribes, whatever was registered, died   *)
(* or restarted meanwhile.                                                 *)
NoLeakedSubscription ==
    \A t \in subscribers : pc[t] \in {"wait", "unsubscribe"} \/ t \in unsure

(* Every caller gets past defaultServiceManager1_1(): the first one waits  *)
(* for hwservicemanager with the lock held, the others for the first one.  *)
ManagerObtained ==
    \A t \in Threads : (pc[t] = "getManager") ~> (pc[t] \in {"idle", "subscribe"})

(* A thread whose Waiter is subscribed while the service is registered     *)
(* returns, also when the registration came before the wait began, or the  *)
(* service or hwservicemanager has died since.  (A Waiter that a restart   *)
(* of hwservicemanager has made unknown is never subscribed again, and     *)
(* Waiter::wait() has no other way out.)                                   *)
WaiterReturns ==
    \A t \in Threads :
        (pc[t] = "wait" /\ t \in subscribers /\ serviceUp) ~> (pc[t] = "idle")
==============================================================================
