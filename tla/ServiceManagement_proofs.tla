----------------------- MODULE ServiceManagement_proofs -----------------------
(***************************************************************************)
(* waitForHwService for any number of threads, registrations and restarts  *)
(* of hwservicemanager: one proxy, honest waits, no registration missed    *)
(* and no subscription left behind.                                        *)
(***************************************************************************)
EXTENDS ServiceManagement, TLAPS

(* Between steps the lock is held by the thread that makes the proxy and   *)
(* by nobody else, and then there is no proxy yet.                         *)
MakerAlone ==
    \A t \in Threads :
        /\ pc[t] = "waitReady" <=> gDefaultServiceManagerLock = t
        /\ pc[t] = "waitReady" => proxies = 0

(* The proxy in use is the only one made.                                  *)
ProxyInUse == proxies = gDefaultServiceManager

(* What a Waiter has been told, or is being told, is a registration that   *)
(* its own call could see.                                                 *)
ToldWhatWasSeen ==
    \A t \in Threads : notices[t] > 0 \/ mRegistered[t] => seen[t]

(* A subscriber has seen the registration of a service that is up.         *)
SubscriberHasSeen == \A t \in subscribers : serviceUp => seen[t]

(* What WaiterReturns rests on: a registration that a waiting call could   *)
(* see has been told to its Waiter, or is on its way, whatever died since. *)
NoticeNotLost ==
    \A t \in Threads : pc[t] = "wait" /\ seen[t] => notices[t] > 0 \/ mRegistered[t]

IInv ==
    /\ TypeOK
    /\ OneProxy
    /\ MakerAlone
    /\ ProxyInUse
    /\ ToldWhatWasSeen
    /\ WaitIsHonest
    /\ NoLeakedSubscription
    /\ SubscriberHasSeen
    /\ NoticeNotLost

-----------------------------------------------------------------------------
(* The call starts with nothing.                                           *)
LEMMA CallPreserves ==
    ASSUME IInv, NEW t \in Threads, Call(t)
    PROVE  IInv'
<1> USE ServiceAssumption DEF IInv, TypeOK, environment, singleton, waiters, Goto,
       Call
<1>1. TypeOK'
  OBVIOUS
<1>2. OneProxy' /\ MakerAlone' /\ ProxyInUse'
  BY DEF OneProxy, MakerAlone, ProxyInUse
<1>3. ToldWhatWasSeen'
  BY DEF ToldWhatWasSeen
<1>4. WaitIsHonest'
  BY DEF WaitIsHonest, ToldWhatWasSeen
<1>5. NoLeakedSubscription'
  BY DEF NoLeakedSubscription
<1>6. SubscriberHasSeen' /\ NoticeNotLost'
  BY DEF SubscriberHasSeen, NoticeNotLost
<1> QED BY <1>1, <1>2, <1>3, <1>4, <1>5, <1>6

(* The proxy was made before.                                              *)
LEMMA ManagerCachedPreserves ==
    ASSUME IInv, NEW t \in Threads, ManagerCached(t)
    PROVE  IInv'
<1> USE ServiceAssumption DEF IInv, TypeOK, environment, singleton, waiters, Goto,
       ManagerCached
<1>1. TypeOK'
  OBVIOUS
<1>2. OneProxy' /\ MakerAlone' /\ ProxyInUse'
  BY DEF OneProxy, MakerAlone, ProxyInUse
<1>3. ToldWhatWasSeen'
  BY DEF ToldWhatWasSeen
<1>4. WaitIsHonest'
  BY DEF WaitIsHonest, ToldWhatWasSeen
<1>5. NoLeakedSubscription'
  BY DEF NoLeakedSubscription
<1>6. SubscriberHasSeen' /\ NoticeNotLost'
  BY DEF SubscriberHasSeen, NoticeNotLost
<1> QED BY <1>1, <1>2, <1>3, <1>4, <1>5, <1>6

(* No proxy is made.                                                       *)
LEMMA NoHwBinderPreserves ==
    ASSUME IInv, NEW t \in Threads, NoHwBinder(t)
    PROVE  IInv'
<1> USE ServiceAssumption DEF IInv, TypeOK, environment, singleton, waiters, Goto,
       NoHwBinder
<1>1. TypeOK'
  OBVIOUS
<1>2. OneProxy' /\ MakerAlone' /\ ProxyInUse'
  BY DEF OneProxy, MakerAlone, ProxyInUse
<1>3. ToldWhatWasSeen'
  BY DEF ToldWhatWasSeen
<1>4. WaitIsHonest'
  BY DEF WaitIsHonest, ToldWhatWasSeen
<1>5. NoLeakedSubscription'
  BY DEF NoLeakedSubscription
<1>6. SubscriberHasSeen' /\ NoticeNotLost'
  BY DEF SubscriberHasSeen, NoticeNotLost
<1> QED BY <1>1, <1>2, <1>3, <1>4, <1>5, <1>6

(* The lock was free, and there is no proxy.                               *)
LEMMA MakeManagerPreserves ==
    ASSUME IInv, NEW t \in Threads, MakeManager(t)
    PROVE  IInv'
<1> USE ServiceAssumption DEF IInv, TypeOK, environment, singleton, waiters, Goto,
       MakeManager
<1>1. TypeOK'
  OBVIOUS
<1>2. OneProxy' /\ MakerAlone' /\ ProxyInUse'
  BY DEF OneProxy, MakerAlone, ProxyInUse
<1>3. ToldWhatWasSeen'
  BY DEF ToldWhatWasSeen
<1>4. WaitIsHonest'
  BY DEF WaitIsHonest, ToldWhatWasSeen
<1>5. NoLeakedSubscription'
  BY DEF NoLeakedSubscription
<1>6. SubscriberHasSeen' /\ NoticeNotLost'
  BY DEF SubscriberHasSeen, NoticeNotLost
<1> QED BY <1>1, <1>2, <1>3, <1>4, <1>5, <1>6

(* The holder of the lock makes the proxy.                                 *)
LEMMA ManagerReadyPreserves ==
    ASSUME IInv, NEW t \in Threads, ManagerReady(t)
    PROVE  IInv'
<1> USE ServiceAssumption DEF IInv, TypeOK, environment, singleton, waiters, Goto,
       ManagerReady
<1>1. TypeOK'
  <2>1. proxies' = 1 /\ gDefaultServiceManager' = 1
    BY DEF MakerAlone
  <2> QED BY <2>1
<1>2. OneProxy' /\ MakerAlone' /\ ProxyInUse'
  BY DEF OneProxy, MakerAlone, ProxyInUse
<1>3. ToldWhatWasSeen'
  BY DEF ToldWhatWasSeen
<1>4. WaitIsHonest'
  BY DEF WaitIsHonest, ToldWhatWasSeen
<1>5. NoLeakedSubscription'
  BY DEF NoLeakedSubscription
<1>6. SubscriberHasSeen' /\ NoticeNotLost'
  BY DEF SubscriberHasSeen, NoticeNotLost
<1> QED BY <1>1, <1>2, <1>3, <1>4, <1>5, <1>6

(* The new Waiter has heard only what it is told now.                      *)
LEMMA SubscribePreserves ==
    ASSUME IInv, NEW t \in Threads, Subscribe(t)
    PROVE  IInv'
<1> USE ServiceAssumption DEF IInv, TypeOK, environment, singleton, waiters, Goto,
       NewWaiter, Subscribe
<1>1. TypeOK'
  OBVIOUS
<1>2. OneProxy' /\ MakerAlone' /\ ProxyInUse'
  BY DEF OneProxy, MakerAlone, ProxyInUse
<1>3. ToldWhatWasSeen'
  BY DEF ToldWhatWasSeen
<1>4. WaitIsHonest'
  BY DEF WaitIsHonest, ToldWhatWasSeen
<1>5. NoLeakedSubscription'
  BY DEF NoLeakedSubscription
<1>6. SubscriberHasSeen' /\ NoticeNotLost'
  BY DEF SubscriberHasSeen, NoticeNotLost
<1> QED BY <1>1, <1>2, <1>3, <1>4, <1>5, <1>6

(* The manager does not know the Waiter.                                   *)
LEMMA SubscribeFailsPreserves ==
    ASSUME IInv, NEW t \in Threads, SubscribeFails(t)
    PROVE  IInv'
<1> USE ServiceAssumption DEF IInv, TypeOK, environment, singleton, waiters, Goto,
       NewWaiter, SubscribeFails
<1>1. TypeOK'
  OBVIOUS
<1>2. OneProxy' /\ MakerAlone' /\ ProxyInUse'
  BY DEF OneProxy, MakerAlone, ProxyInUse
<1>3. ToldWhatWasSeen'
  BY DEF ToldWhatWasSeen
<1>4. WaitIsHonest'
  BY DEF WaitIsHonest, ToldWhatWasSeen
<1>5. NoLeakedSubscription'
  BY DEF NoLeakedSubscription
<1>6. SubscriberHasSeen' /\ NoticeNotLost'
  BY DEF SubscriberHasSeen, NoticeNotLost
<1> QED BY <1>1, <1>2, <1>3, <1>4, <1>5, <1>6

(* The manager knows the Waiter, and the thread cannot tell.               *)
LEMMA SubscribeLosesReplyPreserves ==
    ASSUME IInv, NEW t \in Threads, SubscribeLosesReply(t)
    PROVE  IInv'
<1> USE ServiceAssumption DEF IInv, TypeOK, environment, singleton, waiters, Goto,
       NewWaiter, SubscribeLosesReply
<1>1. TypeOK'
  OBVIOUS
<1>2. OneProxy' /\ MakerAlone' /\ ProxyInUse'
  BY DEF OneProxy, MakerAlone, ProxyInUse
<1>3. ToldWhatWasSeen'
  BY DEF ToldWhatWasSeen
<1>4. WaitIsHonest'
  BY DEF WaitIsHonest, ToldWhatWasSeen
<1>5. NoLeakedSubscription'
  BY DEF NoLeakedSubscription
<1>6. SubscriberHasSeen' /\ NoticeNotLost'
  BY DEF SubscriberHasSeen, NoticeNotLost
<1> QED BY <1>1, <1>2, <1>3, <1>4, <1>5, <1>6

(* What set mRegistered was a registration seen.                           *)
LEMMA WaitReturnsPreserves ==
    ASSUME IInv, NEW t \in Threads, WaitReturns(t)
    PROVE  IInv'
<1> USE ServiceAssumption DEF IInv, TypeOK, environment, singleton, waiters, Goto,
       WaitReturns
<1>1. TypeOK'
  OBVIOUS
<1>2. OneProxy' /\ MakerAlone' /\ ProxyInUse'
  BY DEF OneProxy, MakerAlone, ProxyInUse
<1>3. ToldWhatWasSeen'
  BY DEF ToldWhatWasSeen
<1>4. WaitIsHonest'
  BY DEF WaitIsHonest, ToldWhatWasSeen
<1>5. NoLeakedSubscription'
  BY DEF NoLeakedSubscription
<1>6. SubscriberHasSeen' /\ NoticeNotLost'
  BY DEF SubscriberHasSeen, NoticeNotLost
<1> QED BY <1>1, <1>2, <1>3, <1>4, <1>5, <1>6

(* The manager forgets the Waiter.                                         *)
LEMMA UnsubscribePreserves ==
    ASSUME IInv, NEW t \in Threads, Unsubscribe(t)
    PROVE  IInv'
<1> USE ServiceAssumption DEF IInv, TypeOK, environment, singleton, waiters, Goto,
       Unsubscribe
<1>1. TypeOK'
  OBVIOUS
<1>2. OneProxy' /\ MakerAlone' /\ ProxyInUse'
  BY DEF OneProxy, MakerAlone, ProxyInUse
<1>3. ToldWhatWasSeen'
  BY DEF ToldWhatWasSeen
<1>4. WaitIsHonest'
  BY DEF WaitIsHonest, ToldWhatWasSeen
<1>5. NoLeakedSubscription'
  BY DEF NoLeakedSubscription
<1>6. SubscriberHasSeen' /\ NoticeNotLost'
  BY DEF SubscriberHasSeen, NoticeNotLost
<1> QED BY <1>1, <1>2, <1>3, <1>4, <1>5, <1>6

(* The manager may know the Waiter, and the thread cannot tell.            *)
LEMMA UnsubscribeFailsPreserves ==
    ASSUME IInv, NEW t \in Threads, UnsubscribeFails(t)
    PROVE  IInv'
<1> USE ServiceAssumption DEF IInv, TypeOK, environment, singleton, waiters, Goto,
       UnsubscribeFails
<1>1. TypeOK'
  OBVIOUS
<1>2. OneProxy' /\ MakerAlone' /\ ProxyInUse'
  BY DEF OneProxy, MakerAlone, ProxyInUse
<1>3. ToldWhatWasSeen'
  BY DEF ToldWhatWasSeen
<1>4. WaitIsHonest'
  BY DEF WaitIsHonest, ToldWhatWasSeen
<1>5. NoLeakedSubscription'
  BY DEF NoLeakedSubscription
<1>6. SubscriberHasSeen' /\ NoticeNotLost'
  BY DEF SubscriberHasSeen, NoticeNotLost
<1> QED BY <1>1, <1>2, <1>3, <1>4, <1>5, <1>6

(* The notice under way is of a registration seen.                         *)
LEMMA OnRegistrationPreserves ==
    ASSUME IInv, NEW t \in Threads, OnRegistration(t)
    PROVE  IInv'
<1> USE ServiceAssumption DEF IInv, TypeOK, environment, singleton, waiters, Goto,
       OnRegistration
<1>1. TypeOK'
  OBVIOUS
<1>2. OneProxy' /\ MakerAlone' /\ ProxyInUse'
  BY DEF OneProxy, MakerAlone, ProxyInUse
<1>3. ToldWhatWasSeen'
  BY DEF ToldWhatWasSeen
<1>4. WaitIsHonest'
  BY DEF WaitIsHonest, ToldWhatWasSeen
<1>5. NoLeakedSubscription'
  BY DEF NoLeakedSubscription
<1>6. SubscriberHasSeen' /\ NoticeNotLost'
  BY DEF SubscriberHasSeen, NoticeNotLost
<1> QED BY <1>1, <1>2, <1>3, <1>4, <1>5, <1>6

(* Every subscriber is told, and has seen it.                              *)
LEMMA ServiceRegistersPreserves ==
    ASSUME IInv, ServiceRegisters
    PROVE  IInv'
<1> USE ServiceAssumption DEF IInv, TypeOK, environment, singleton, waiters, Goto,
       ServiceRegisters
<1>1. TypeOK'
  <2>1. notices' \in [Threads -> Nat]
    OBVIOUS
  <2>2. seen' \in [Threads -> BOOLEAN]
    BY Zenon
  <2>3. registrations' \in 0..MaxRegistrations
    OBVIOUS
  <2>4. serviceUp' \in BOOLEAN
    BY Zenon
  <2> QED BY <2>1, <2>2, <2>3, <2>4
<1>2. OneProxy' /\ MakerAlone' /\ ProxyInUse'
  BY DEF OneProxy, MakerAlone, ProxyInUse
<1>3. ToldWhatWasSeen'
  BY DEF ToldWhatWasSeen
<1>4. WaitIsHonest'
  BY DEF WaitIsHonest, ToldWhatWasSeen
<1>5. NoLeakedSubscription'
  BY DEF NoLeakedSubscription
<1>6. SubscriberHasSeen' /\ NoticeNotLost'
  <2>1. \A x \in subscribers : seen'[x]
    BY Zenon
  <2>2. \A x \in Threads \ subscribers : seen'[x] = seen[x]
    BY Zenon
  <2>3. \A x \in subscribers : notices'[x] > 0
    OBVIOUS
  <2>4. \A x \in Threads \ subscribers : notices'[x] = notices[x]
    OBVIOUS
  <2>5. SubscriberHasSeen'
    BY <2>1 DEF SubscriberHasSeen
  <2>6. UNCHANGED <<pc, mRegistered, subscribers>>
    OBVIOUS
  <2> HIDE DEF TypeOK, ServiceRegisters
  <2>7. NoticeNotLost'
    BY <2>2, <2>3, <2>4, <2>6 DEF NoticeNotLost
  <2> QED BY <2>5, <2>7
<1> QED BY <1>1, <1>2, <1>3, <1>4, <1>5, <1>6

(* Nothing a Waiter knows changes.                                         *)
LEMMA ServiceDiesPreserves ==
    ASSUME IInv, ServiceDies
    PROVE  IInv'
<1> USE ServiceAssumption DEF IInv, TypeOK, environment, singleton, waiters, Goto,
       ServiceDies
<1>1. TypeOK'
  OBVIOUS
<1>2. OneProxy' /\ MakerAlone' /\ ProxyInUse'
  BY DEF OneProxy, MakerAlone, ProxyInUse
<1>3. ToldWhatWasSeen'
  BY DEF ToldWhatWasSeen
<1>4. WaitIsHonest'
  BY DEF WaitIsHonest, ToldWhatWasSeen
<1>5. NoLeakedSubscription'
  BY DEF NoLeakedSubscription
<1>6. SubscriberHasSeen' /\ NoticeNotLost'
  BY DEF SubscriberHasSeen, NoticeNotLost
<1> QED BY <1>1, <1>2, <1>3, <1>4, <1>5, <1>6

(* Nothing a Waiter knows changes.                                         *)
LEMMA ManagerStartsPreserves ==
    ASSUME IInv, ManagerStarts
    PROVE  IInv'
<1> USE ServiceAssumption DEF IInv, TypeOK, environment, singleton, waiters, Goto,
       ManagerStarts
<1>1. TypeOK'
  OBVIOUS
<1>2. OneProxy' /\ MakerAlone' /\ ProxyInUse'
  BY DEF OneProxy, MakerAlone, ProxyInUse
<1>3. ToldWhatWasSeen'
  BY DEF ToldWhatWasSeen
<1>4. WaitIsHonest'
  BY DEF WaitIsHonest, ToldWhatWasSeen
<1>5. NoLeakedSubscription'
  BY DEF NoLeakedSubscription
<1>6. SubscriberHasSeen' /\ NoticeNotLost'
  BY DEF SubscriberHasSeen, NoticeNotLost
<1> QED BY <1>1, <1>2, <1>3, <1>4, <1>5, <1>6

(* The manager knows nobody any more.                                      *)
LEMMA ManagerDiesPreserves ==
    ASSUME IInv, ManagerDies
    PROVE  IInv'
<1> USE ServiceAssumption DEF IInv, TypeOK, environment, singleton, waiters, Goto,
       ManagerDies
<1>1. TypeOK'
  <2>1. restarts' \in 0..MaxRestarts
    OBVIOUS
  <2>2. managerUp' \in BOOLEAN /\ serviceUp' \in BOOLEAN
    BY Zenon
  <2>3. subscribers' \subseteq Threads /\ unsure' \subseteq Threads
    OBVIOUS
  <2> QED BY <2>1, <2>2, <2>3
<1>2. OneProxy' /\ MakerAlone' /\ ProxyInUse'
  BY DEF OneProxy, MakerAlone, ProxyInUse
<1>3. ToldWhatWasSeen'
  BY DEF ToldWhatWasSeen
<1>4. WaitIsHonest'
  BY DEF WaitIsHonest, ToldWhatWasSeen
<1>5. NoLeakedSubscription'
  BY DEF NoLeakedSubscription
<1>6. SubscriberHasSeen' /\ NoticeNotLost'
  BY DEF SubscriberHasSeen, NoticeNotLost
<1> QED BY <1>1, <1>2, <1>3, <1>4, <1>5, <1>6

-----------------------------------------------------------------------------
(* IInv holds in the initial states.                                       *)
LEMMA InitEstablishes == Init => IInv
<1> SUFFICES ASSUME Init PROVE IInv
  OBVIOUS
<1> USE ServiceAssumption DEF Init
<1>1. TypeOK
  <2>1. pc \in [Threads -> {"idle"}] /\ notices \in [Threads -> Nat]
    OBVIOUS
  <2>2. mRegistered \in [Threads -> BOOLEAN] /\ seen \in [Threads -> BOOLEAN]
    BY Zenon
  <2>3. 0 \in 0..MaxRestarts /\ 0 \in 0..MaxRegistrations /\ 0 \in 0..0
    OBVIOUS
  <2> QED BY <2>1, <2>2, <2>3 DEF TypeOK
<1>2. OneProxy /\ MakerAlone /\ ProxyInUse
  BY DEF OneProxy, MakerAlone, ProxyInUse
<1>3. ToldWhatWasSeen /\ WaitIsHonest /\ NoLeakedSubscription
  BY DEF ToldWhatWasSeen, WaitIsHonest, NoLeakedSubscription
<1>4. SubscriberHasSeen /\ NoticeNotLost
  BY DEF SubscriberHasSeen, NoticeNotLost
<1> QED BY <1>1, <1>2, <1>3, <1>4 DEF IInv

(* IInv is preserved by every step.                                        *)
LEMMA NextPreserves == IInv /\ [Next]_vars => IInv'
<1> SUFFICES ASSUME IInv, [Next]_vars PROVE IInv'
  OBVIOUS
<1>1. CASE Next
  <2>1. ASSUME NEW t \in Threads, Call(t) PROVE IInv'
    BY <2>1, CallPreserves
  <2>2. ASSUME NEW t \in Threads, ManagerCached(t) PROVE IInv'
    BY <2>2, ManagerCachedPreserves
  <2>3. ASSUME NEW t \in Threads, NoHwBinder(t) PROVE IInv'
    BY <2>3, NoHwBinderPreserves
  <2>4. ASSUME NEW t \in Threads, MakeManager(t) PROVE IInv'
    BY <2>4, MakeManagerPreserves
  <2>5. ASSUME NEW t \in Threads, ManagerReady(t) PROVE IInv'
    BY <2>5, ManagerReadyPreserves
  <2>6. ASSUME NEW t \in Threads, Subscribe(t) PROVE IInv'
    BY <2>6, SubscribePreserves
  <2>7. ASSUME NEW t \in Threads, SubscribeFails(t) PROVE IInv'
    BY <2>7, SubscribeFailsPreserves
  <2>8. ASSUME NEW t \in Threads, WaitReturns(t) PROVE IInv'
    BY <2>8, WaitReturnsPreserves
  <2>9. ASSUME NEW t \in Threads, Unsubscribe(t) PROVE IInv'
    BY <2>9, UnsubscribePreserves
  <2>10. ASSUME NEW t \in Threads, UnsubscribeFails(t) PROVE IInv'
    BY <2>10, UnsubscribeFailsPreserves
  <2>11. ASSUME NEW t \in Threads, OnRegistration(t) PROVE IInv'
    BY <2>11, OnRegistrationPreserves
  <2>12. ASSUME NEW t \in Threads, SubscribeLosesReply(t) PROVE IInv'
    BY <2>12, SubscribeLosesReplyPreserves
  <2>13. CASE ServiceRegisters
    BY <2>13, ServiceRegistersPreserves
  <2>14. CASE ServiceDies
    BY <2>14, ServiceDiesPreserves
  <2>15. CASE ManagerStarts
    BY <2>15, ManagerStartsPreserves
  <2>16. CASE ManagerDies
    BY <2>16, ManagerDiesPreserves
  <2> QED
    BY <1>1, <2>1, <2>2, <2>3, <2>4, <2>5, <2>6, <2>7, <2>8,
       <2>9, <2>10, <2>11, <2>12, <2>13, <2>14, <2>15, <2>16 DEF Next, Step
<1>2. CASE UNCHANGED vars
  BY <1>2 DEF vars, IInv, TypeOK, OneProxy, MakerAlone, ProxyInUse, ToldWhatWasSeen,
     WaitIsHonest, NoLeakedSubscription, SubscriberHasSeen, NoticeNotLost
<1> QED BY <1>1, <1>2

(* The inductive invariant holds throughout.                               *)
THEOREM ServiceInvariant == Spec => []IInv
<1>1. Init => IInv
  BY InitEstablishes
<1>2. IInv /\ [Next]_vars => IInv'
  BY NextPreserves
<1> QED BY <1>1, <1>2, PTL DEF Spec

(***************************************************************************)
(* However many threads race into defaultServiceManager1_1 while           *)
(* hwservicemanager comes up, the process makes one proxy.                 *)
(***************************************************************************)
THEOREM ProxyIsUnique == Spec => []OneProxy
<1>1. IInv => OneProxy
  BY DEF IInv
<1> QED BY <1>1, ServiceInvariant, PTL

(***************************************************************************)
(* waitForHwService returns only for a registration that happened while    *)
(* its own Waiter was subscribed, or was there when it subscribed.         *)
(***************************************************************************)
THEOREM WaitsAreHonest == Spec => []WaitIsHonest
<1>1. IInv => WaitIsHonest
  BY DEF IInv
<1> QED BY <1>1, ServiceInvariant, PTL

(***************************************************************************)
(* A Waiter that hwservicemanager knows belongs to a call that is still    *)
(* waiting, unless the reply to registering it was lost or unregistering   *)
(* it failed.                                                              *)
(***************************************************************************)
THEOREM SubscriptionsEnd == Spec => []NoLeakedSubscription
<1>1. IInv => NoLeakedSubscription
  BY DEF IInv
<1> QED BY <1>1, ServiceInvariant, PTL

(***************************************************************************)
(* The safety half of WaiterReturns: in the state it starts from, a call   *)
(* waiting with a subscribed Waiter while the service is registered, the   *)
(* Waiter has been told or onRegistration() is on its way; and that stays  *)
(* so until the wait ends, though service or hwservicemanager may die.     *)
(***************************************************************************)
THEOREM RegistrationNotMissed == Spec => [](SubscriberHasSeen /\ NoticeNotLost)
<1>1. IInv => SubscriberHasSeen /\ NoticeNotLost
  BY DEF IInv
<1> QED BY <1>1, ServiceInvariant, PTL

(***************************************************************************)
(* The safety half of ManagerObtained: gDefaultServiceManagerLock is held  *)
(* only by a thread that waits for hwservicemanager to be ready, so the    *)
(* others in defaultServiceManager1_1() wait for nothing but that.         *)
(***************************************************************************)
THEOREM LockHeldOnlyToMake == Spec => []MakerAlone
<1>1. IInv => MakerAlone
  BY DEF IInv
<1> QED BY <1>1, ServiceInvariant, PTL
==============================================================================
