----------------------- MODULE TokenManagerClient_proofs -----------------------
(***************************************************************************)
(* The token manager's client for any number of threads, restarts of the   *)
(* manager and links: where its null dereference can come from, and why a  *)
(* cached manager is always one whose death will be heard of.              *)
(***************************************************************************)
EXTENDS TokenManagerClient, TLAPS

(* A thread is between lock and unlock of gTokenManagerLock.               *)
InLock(t) == pc[t] \in {"getService", "link", "transact"}

(* gTokenManagerLock excludes: only its holder is between the two.         *)
LockHeld == \A t \in Threads : InLock(t) => gTokenManagerLock = t

(* Before a failure is handled outside the lock, nobody is outside it with *)
(* gTokenManager in hand, and who is about to use the pointer has tested   *)
(* it.                                                                     *)
PointerTested ==
    ~unlockedFailure =>
        /\ ~crashed
        /\ \A t \in Threads :
              /\ pc[t] \notin {"failed", "clear"}
              /\ pc[t] \in {"link", "transact"} => gTokenManager # 0

(* Managers are numbered in the order they are started.                    *)
Numbered ==
    /\ incarnation <= MaxIncarnations
    /\ service <= incarnation
    /\ gTokenManager <= incarnation

(* Only a manager that has died has notices of its death.                  *)
NoticesOfDead ==
    \A m \in Managers : notices[m] > 0 => m <= incarnation /\ m # service

(* The holder of the lock has still to link to the manager, or will find   *)
(* that its transaction fails because the manager has died.                *)
BeingReplaced ==
    \E t \in Threads :
        /\ gTokenManagerLock = t
        /\ \/ pc[t] = "link"
           \/ pc[t] = "transact" /\ service # gTokenManager

(* CachedManagerObserved, and what replaces it while the lock is held.     *)
Observed ==
    (gTokenManager # 0 /\ \A t \in Threads : pc[t] \notin {"failed", "clear"})
        => links[gTokenManager] + notices[gTokenManager] > 0 \/ BeingReplaced

IInv ==
    /\ TypeOK
    /\ LockHeld
    /\ PointerTested
    /\ Numbered
    /\ NoticesOfDead
    /\ Observed

-----------------------------------------------------------------------------
(* The call finds the pointer null or, with the lock free, observed.       *)
LEMMA BeginPreserves ==
    ASSUME IInv, ~crashed, NEW t \in Threads, NEW c \in Calls, Begin(t, c)
    PROVE  IInv'
<1> USE TokenAssumption DEF IInv, TypeOK, Managers, manager, fate, InLock,
       Begin
<1>1. TypeOK'
  BY DEF Numbered
<1>2. LockHeld'
  BY DEF LockHeld
<1>3. PointerTested'
  BY DEF PointerTested, LockHeld
<1>4. Numbered'
  BY DEF Numbered
<1>5. NoticesOfDead'
  BY DEF NoticesOfDead, Numbered
<1>6. Observed'
  BY DEF Observed, BeingReplaced, LockHeld, Numbered, NoticesOfDead
<1> QED BY <1>1, <1>2, <1>3, <1>4, <1>5, <1>6

(* The holder of the lock has still to link to the new manager.            *)
LEMMA GetServicePreserves ==
    ASSUME IInv, ~crashed, NEW t \in Threads, GetService(t)
    PROVE  IInv'
<1> USE TokenAssumption DEF IInv, TypeOK, Managers, manager, fate, InLock,
       GetService
<1>1. TypeOK'
  BY DEF Numbered
<1>2. LockHeld'
  BY DEF LockHeld
<1>3. PointerTested'
  BY DEF PointerTested, LockHeld
<1>4. Numbered'
  BY DEF Numbered
<1>5. NoticesOfDead'
  BY DEF NoticesOfDead, Numbered
<1>6. Observed'
  BY DEF Observed, BeingReplaced, LockHeld, Numbered, NoticesOfDead
<1> QED BY <1>1, <1>2, <1>3, <1>4, <1>5, <1>6

(* The pointer stays null.                                                 *)
LEMMA GetServiceFailsPreserves ==
    ASSUME IInv, ~crashed, NEW t \in Threads, GetServiceFails(t)
    PROVE  IInv'
<1> USE TokenAssumption DEF IInv, TypeOK, Managers, manager, fate, InLock,
       GetServiceFails, Return
<1>1. TypeOK'
  BY DEF Numbered
<1>2. LockHeld'
  BY DEF LockHeld
<1>3. PointerTested'
  BY DEF PointerTested, LockHeld
<1>4. Numbered'
  BY DEF Numbered
<1>5. NoticesOfDead'
  BY DEF NoticesOfDead, Numbered
<1>6. Observed'
  BY DEF Observed, BeingReplaced, LockHeld, Numbered, NoticesOfDead
<1> QED BY <1>1, <1>2, <1>3, <1>4, <1>5, <1>6

(* The manager is linked, or dead: then the transaction will fail.         *)
LEMMA LinkToDeathPreserves ==
    ASSUME IInv, ~crashed, NEW t \in Threads, LinkToDeath(t)
    PROVE  IInv'
<1> USE TokenAssumption DEF IInv, TypeOK, Managers, manager, fate, InLock,
       LinkToDeath
<1>1. TypeOK'
  <2>1. gTokenManager \in Managers
    OBVIOUS
  <2>2. links' \in [Managers -> Nat]
    <3>1. CASE service = gTokenManager
      <4>1. links[gTokenManager] + 1 \in Nat
        BY <2>1
      <4> QED BY <2>1, <3>1, <4>1
    <3>2. CASE service # gTokenManager
      BY <3>2
    <3> QED BY <3>1, <3>2
  <2> QED BY <2>2
<1>2. LockHeld'
  BY DEF LockHeld
<1>3. PointerTested'
  BY DEF PointerTested, LockHeld
<1>4. Numbered'
  BY DEF Numbered
<1>5. NoticesOfDead'
  BY DEF NoticesOfDead, Numbered
<1>6. Observed'
  BY DEF Observed, BeingReplaced, LockHeld, Numbered, NoticesOfDead
<1> QED BY <1>1, <1>2, <1>3, <1>4, <1>5, <1>6

(* The pointer is null again.                                              *)
LEMMA LinkToDeathFailsPreserves ==
    ASSUME IInv, ~crashed, NEW t \in Threads, LinkToDeathFails(t)
    PROVE  IInv'
<1> USE TokenAssumption DEF IInv, TypeOK, Managers, manager, fate, InLock,
       LinkToDeathFails, Return
<1>1. TypeOK'
  BY DEF Numbered
<1>2. LockHeld'
  BY DEF LockHeld
<1>3. PointerTested'
  BY DEF PointerTested, LockHeld
<1>4. Numbered'
  BY DEF Numbered
<1>5. NoticesOfDead'
  BY DEF NoticesOfDead, Numbered
<1>6. Observed'
  BY DEF Observed, BeingReplaced, LockHeld, Numbered, NoticesOfDead
<1> QED BY <1>1, <1>2, <1>3, <1>4, <1>5, <1>6

(* The transaction succeeded, so the manager was alive.                    *)
LEMMA TransactPreserves ==
    ASSUME IInv, ~crashed, NEW t \in Threads, Transact(t)
    PROVE  IInv'
<1> USE TokenAssumption DEF IInv, TypeOK, Managers, manager, fate, InLock,
       Transact, Return
<1>1. TypeOK'
  BY DEF Numbered
<1>2. LockHeld'
  BY DEF LockHeld
<1>3. PointerTested'
  BY DEF PointerTested, LockHeld
<1>4. Numbered'
  BY DEF Numbered
<1>5. NoticesOfDead'
  BY DEF NoticesOfDead, Numbered
<1>6. Observed'
  BY DEF Observed, BeingReplaced, LockHeld, Numbered, NoticesOfDead
<1> QED BY <1>1, <1>2, <1>3, <1>4, <1>5, <1>6

(* unlinkToDeath() leaves a number of links.                               *)
LEMMA UnlinkType ==
    ASSUME TypeOK, gTokenManager # 0, Unlink(gTokenManager)
    PROVE  links' \in [Managers -> Nat]
<1>1. gTokenManager \in Managers /\ links \in [Managers -> Nat]
  BY DEF TypeOK
<1>2. links[gTokenManager] \in Nat
  BY <1>1
<1>3. CASE links[gTokenManager] > 0
  <2>1. links[gTokenManager] - 1 \in Nat
    BY <1>2, <1>3
  <2> QED BY <1>1, <1>2, <2>1 DEF Unlink
<1>4. CASE ~(links[gTokenManager] > 0)
  BY <1>1, <1>2, <1>4 DEF Unlink
<1> QED BY <1>3, <1>4

(* The pointer is set to null inside the lock.                             *)
LEMMA TransactFailsPreserves ==
    ASSUME IInv, ~crashed, NEW t \in Threads, TransactFails(t)
    PROVE  IInv'
<1> USE TokenAssumption DEF IInv, TypeOK, Managers, manager, fate, InLock,
       TransactFails, Return, Unlink
<1>1. TypeOK'
  <2>1. links' \in [Managers -> Nat]
    BY UnlinkType
  <2>2. pc' \in [Threads -> {"idle", "getService", "link", "transact", "failed", "clear"}]
    OBVIOUS
  <2>3. call' \in [Threads -> Calls \union {"none"}]
    OBVIOUS
  <2> QED BY <2>1, <2>2, <2>3
<1>2. LockHeld'
  BY DEF LockHeld
<1>3. PointerTested'
  BY DEF PointerTested, LockHeld
<1>4. Numbered'
  BY DEF Numbered
<1>5. NoticesOfDead'
  BY DEF NoticesOfDead, Numbered
<1>6. Observed'
  BY DEF Observed, BeingReplaced, LockHeld, Numbered, NoticesOfDead
<1> QED BY <1>1, <1>2, <1>3, <1>4, <1>5, <1>6

(* From here on a failure is handled outside the lock.                     *)
LEMMA CreateFailsPreserves ==
    ASSUME IInv, ~crashed, NEW t \in Threads, CreateFails(t)
    PROVE  IInv'
<1> USE TokenAssumption DEF IInv, TypeOK, Managers, manager, fate, InLock,
       CreateFails
<1>1. TypeOK'
  BY DEF Numbered
<1>2. LockHeld'
  BY DEF LockHeld
<1>3. PointerTested'
  BY DEF PointerTested, LockHeld
<1>4. Numbered'
  BY DEF Numbered
<1>5. NoticesOfDead'
  BY DEF NoticesOfDead, Numbered
<1>6. Observed'
  BY DEF Observed, BeingReplaced, LockHeld, Numbered, NoticesOfDead
<1> QED BY <1>1, <1>2, <1>3, <1>4, <1>5, <1>6

(* The unlocked failure happened before.                                   *)
LEMMA UnlinkUnlockedPreserves ==
    ASSUME IInv, ~crashed, NEW t \in Threads, UnlinkUnlocked(t)
    PROVE  IInv'
<1> USE TokenAssumption DEF IInv, TypeOK, Managers, manager, fate, InLock,
       UnlinkUnlocked, Unlink
<1>1. TypeOK'
  <2>1. links' \in [Managers -> Nat]
    BY UnlinkType
  <2>2. pc' \in [Threads -> {"idle", "getService", "link", "transact", "failed", "clear"}]
    OBVIOUS
  <2>3. call' \in [Threads -> Calls \union {"none"}]
    OBVIOUS
  <2> QED BY <2>1, <2>2, <2>3
<1>2. LockHeld'
  BY DEF LockHeld
<1>3. PointerTested'
  BY DEF PointerTested, LockHeld
<1>4. Numbered'
  BY DEF Numbered
<1>5. NoticesOfDead'
  BY DEF NoticesOfDead, Numbered
<1>6. Observed'
  BY DEF Observed, BeingReplaced, LockHeld, Numbered, NoticesOfDead
<1> QED BY <1>1, <1>2, <1>3, <1>4, <1>5, <1>6

(* Nobody gets here before an unlocked failure.                            *)
LEMMA NullDereferencePreserves ==
    ASSUME IInv, ~crashed, NEW t \in Threads, NullDereference(t)
    PROVE  IInv'
<1> USE TokenAssumption DEF IInv, TypeOK, Managers, manager, fate, InLock,
       NullDereference
<1>1. TypeOK'
  BY DEF Numbered
<1>2. LockHeld'
  BY DEF LockHeld
<1>3. PointerTested'
  BY DEF PointerTested, LockHeld
<1>4. Numbered'
  BY DEF Numbered
<1>5. NoticesOfDead'
  BY DEF NoticesOfDead, Numbered
<1>6. Observed'
  BY DEF Observed, BeingReplaced, LockHeld, Numbered, NoticesOfDead
<1> QED BY <1>1, <1>2, <1>3, <1>4, <1>5, <1>6

(* The pointer is null.                                                    *)
LEMMA ClearUnlockedPreserves ==
    ASSUME IInv, ~crashed, NEW t \in Threads, ClearUnlocked(t)
    PROVE  IInv'
<1> USE TokenAssumption DEF IInv, TypeOK, Managers, manager, fate, InLock,
       ClearUnlocked
<1>1. TypeOK'
  BY DEF Numbered
<1>2. LockHeld'
  BY DEF LockHeld
<1>3. PointerTested'
  BY DEF PointerTested, LockHeld
<1>4. Numbered'
  BY DEF Numbered
<1>5. NoticesOfDead'
  BY DEF NoticesOfDead, Numbered
<1>6. Observed'
  BY DEF Observed, BeingReplaced, LockHeld, Numbered, NoticesOfDead
<1> QED BY <1>1, <1>2, <1>3, <1>4, <1>5, <1>6

(* The pointer is null, with nobody inside the lock.                       *)
LEMMA ServiceDiedPreserves ==
    ASSUME IInv, ~crashed, NEW m \in Managers, ServiceDied(m)
    PROVE  IInv'
<1> USE TokenAssumption DEF IInv, TypeOK, Managers, manager, fate, InLock,
       ServiceDied
<1>1. TypeOK'
  <2>1. /\ UNCHANGED <<gTokenManagerLock, pc, call, service, incarnation, links, crashed,
                       unlockedFailure>>
        /\ gTokenManager' = 0
    OBVIOUS
  <2>2. notices' \in [Managers -> Nat]
    <3>1. notices[m] \in Nat /\ notices[m] - 1 \in Nat
      OBVIOUS
    <3> QED BY <3>1
  <2> QED BY <2>1, <2>2
<1>2. LockHeld'
  BY DEF LockHeld
<1>3. PointerTested'
  BY DEF PointerTested, LockHeld
<1>4. Numbered'
  BY DEF Numbered
<1>5. NoticesOfDead'
  BY DEF NoticesOfDead, Numbered
<1>6. Observed'
  BY DEF Observed, BeingReplaced, LockHeld, Numbered, NoticesOfDead
<1> QED BY <1>1, <1>2, <1>3, <1>4, <1>5, <1>6

(* Links become notices; the manager had none before.                      *)
LEMMA DiePreserves ==
    ASSUME IInv, ~crashed, Die
    PROVE  IInv'
<1> USE TokenAssumption DEF IInv, TypeOK, Managers, manager, fate, InLock,
       Die
<1>1. TypeOK'
  BY DEF Numbered
<1>2. LockHeld'
  BY DEF LockHeld
<1>3. PointerTested'
  BY DEF PointerTested, LockHeld
<1>4. Numbered'
  BY DEF Numbered
<1>5. NoticesOfDead'
  BY DEF NoticesOfDead, Numbered
<1>6. Observed'
  BY DEF Observed, BeingReplaced, LockHeld, Numbered, NoticesOfDead
<1> QED BY <1>1, <1>2, <1>3, <1>4, <1>5, <1>6

(* The new manager has a number nobody knows.                              *)
LEMMA RestartPreserves ==
    ASSUME IInv, ~crashed, Restart
    PROVE  IInv'
<1> USE TokenAssumption DEF IInv, TypeOK, Managers, manager, fate, InLock,
       Restart
<1>1. TypeOK'
  BY DEF Numbered
<1>2. LockHeld'
  BY DEF LockHeld
<1>3. PointerTested'
  BY DEF PointerTested, LockHeld
<1>4. Numbered'
  BY DEF Numbered
<1>5. NoticesOfDead'
  BY DEF NoticesOfDead, Numbered
<1>6. Observed'
  BY DEF Observed, BeingReplaced, LockHeld, Numbered, NoticesOfDead
<1> QED BY <1>1, <1>2, <1>3, <1>4, <1>5, <1>6

-----------------------------------------------------------------------------
(* IInv holds in the initial state.                                        *)
LEMMA InitEstablishes == Init => IInv
<1> SUFFICES ASSUME Init PROVE IInv
  OBVIOUS
<1> USE TokenAssumption DEF Init, Managers
<1>1. TypeOK
  <2>1. 1 \in Managers
    OBVIOUS
  <2>2. links \in [Managers -> Nat] /\ notices \in [Managers -> Nat]
    OBVIOUS
  <2>3. pc \in [Threads -> {"idle"}] /\ call \in [Threads -> {"none"}]
    OBVIOUS
  <2> QED BY <2>1, <2>2, <2>3 DEF TypeOK
<1>2. LockHeld /\ PointerTested
  BY DEF LockHeld, InLock, PointerTested
<1>3. Numbered /\ NoticesOfDead /\ Observed
  BY DEF Numbered, NoticesOfDead, Observed
<1> QED BY <1>1, <1>2, <1>3 DEF IInv

(* IInv is preserved by every step.                                        *)
LEMMA NextPreserves == IInv /\ [Next]_vars => IInv'
<1> SUFFICES ASSUME IInv, [Next]_vars PROVE IInv'
  OBVIOUS
<1>1. CASE Next
  <2>1. ~crashed
    BY <1>1 DEF Next
  <2>2. ASSUME NEW t \in Threads, NEW c \in Calls, Begin(t, c) PROVE IInv'
    BY <2>1, <2>2, BeginPreserves
  <2>3. ASSUME NEW t \in Threads, GetService(t) PROVE IInv'
    BY <2>1, <2>3, GetServicePreserves
  <2>4. ASSUME NEW t \in Threads, GetServiceFails(t) PROVE IInv'
    BY <2>1, <2>4, GetServiceFailsPreserves
  <2>5. ASSUME NEW t \in Threads, LinkToDeath(t) PROVE IInv'
    BY <2>1, <2>5, LinkToDeathPreserves
  <2>6. ASSUME NEW t \in Threads, LinkToDeathFails(t) PROVE IInv'
    BY <2>1, <2>6, LinkToDeathFailsPreserves
  <2>7. ASSUME NEW t \in Threads, Transact(t) PROVE IInv'
    BY <2>1, <2>7, TransactPreserves
  <2>8. ASSUME NEW t \in Threads, TransactFails(t) PROVE IInv'
    BY <2>1, <2>8, TransactFailsPreserves
  <2>9. ASSUME NEW t \in Threads, CreateFails(t) PROVE IInv'
    BY <2>1, <2>9, CreateFailsPreserves
  <2>10. ASSUME NEW t \in Threads, UnlinkUnlocked(t) PROVE IInv'
    BY <2>1, <2>10, UnlinkUnlockedPreserves
  <2>11. ASSUME NEW t \in Threads, NullDereference(t) PROVE IInv'
    BY <2>1, <2>11, NullDereferencePreserves
  <2>12. ASSUME NEW t \in Threads, ClearUnlocked(t) PROVE IInv'
    BY <2>1, <2>12, ClearUnlockedPreserves
  <2>13. ASSUME NEW m \in Managers, ServiceDied(m) PROVE IInv'
    BY <2>1, <2>13, ServiceDiedPreserves
  <2>14. CASE Die
    BY <2>1, <2>14, DiePreserves
  <2>15. CASE Restart
    BY <2>1, <2>15, RestartPreserves
  <2> QED
    BY <1>1, <2>2, <2>3, <2>4, <2>5, <2>6, <2>7, <2>8,
       <2>9, <2>10, <2>11, <2>12, <2>13, <2>14, <2>15 DEF Next, Step
<1>2. CASE UNCHANGED vars
  BY <1>2 DEF vars, fate, IInv, TypeOK, Managers, LockHeld, InLock, PointerTested,
     Numbered, NoticesOfDead, Observed, BeingReplaced
<1> QED BY <1>1, <1>2

(* The inductive invariant holds throughout.                               *)
THEOREM TokenInvariant == Spec => []IInv
<1>1. Init => IInv
  BY InitEstablishes
<1>2. IInv /\ [Next]_vars => IInv'
  BY NextPreserves
<1> QED BY <1>1, <1>2, PTL DEF Spec

(***************************************************************************)
(* The client dereferences a null gTokenManager only after createHalToken  *)
(* has handled a failed transaction outside gTokenManagerLock: with no     *)
(* such failure every use of the pointer, in every interleaving of any     *)
(* number of threads with deaths and restarts, finds it set.               *)
(***************************************************************************)
THEOREM CrashNeedsUnlockedFailure == Spec => []CrashOnlyAfterUnlockedFailure
<1>1. IInv => CrashOnlyAfterUnlockedFailure
  BY DEF IInv, PointerTested, CrashOnlyAfterUnlockedFailure
<1> QED BY <1>1, TokenInvariant, PTL

(***************************************************************************)
(* A cached manager nobody is replacing is linked, or the notice of its    *)
(* death is on its way: serviceDied will drop it.                          *)
(***************************************************************************)
THEOREM CachedIsObserved == Spec => []CachedManagerObserved
<1>1. IInv => CachedManagerObserved
  BY TokenAssumption DEF IInv, Observed, BeingReplaced, CachedManagerObserved
<1> QED BY <1>1, TokenInvariant, PTL
==============================================================================
