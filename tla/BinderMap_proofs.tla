--------------------------- MODULE BinderMap_proofs ---------------------------
(***************************************************************************)
(* BinderMap for every set of threads, interfaces and binders.             *)
(*                                                                         *)
(* Canonical follows from Findable.  Findable is not inductive alone: an   *)
(* insertion may replace an entry only because that entry's binder can no  *)
(* longer be promoted, which is known from the lookup made under the same  *)
(* lock; LookupFresh carries it from the lookup to the insertion.          *)
(***************************************************************************)
EXTENDS BinderMap, TLAPS

(* gBnMap's mutex is held exactly by the thread inside toBinder().         *)
Mutex == \A t \in Threads : InToBinder(t) <=> mMutex = t

(* What toBinder() read from the map is still what the map holds, and a    *)
(* promote() that failed cannot have become possible again.                *)
LookupFresh ==
    \A t \in Threads :
        /\ InToBinder(t) => /\ ifacePtr[t] \in Ifaces
                            /\ bn[t] = gBnMap[ifacePtr[t]]
        /\ pc[t] = "construct" => bn[t] = None \/ ~Strong(bn[t])

(* A binder under destruction is still allocated.                          *)
Dying ==
    \A t \in Threads :
        pc[t] = "destructor" => bn[t] \in Binders /\ impl[bn[t]] \in Ifaces

IInv == /\ TypeOK /\ Mutex /\ LookupFresh /\ Dying
        /\ Findable /\ NoStaleEntry /\ DestroyedOnce

USE BinderMapAssumption DEF BinderMapAssumption

LEMMA InitIInv == Init => IInv
BY DEF Init, IInv, TypeOK, Mutex, InToBinder, LookupFresh, Dying, Findable,
       NoStaleEntry, DestroyedOnce, Strong

LEMMA RegisterStep ==
    ASSUME IInv, NEW i \in Ifaces, Register(i)
    PROVE  IInv'
BY DEF Register, IInv, TypeOK, Mutex, InToBinder, LookupFresh, Dying, Findable,
       NoStaleEntry, DestroyedOnce, Strong

LEMMA LookupStep ==
    ASSUME IInv, NEW t \in Threads, NEW i \in Ifaces, Lookup(t, i)
    PROVE  IInv'
<1>. USE DEF IInv, TypeOK, Lookup
<1>1. TypeOK' OBVIOUS
<1>2. Mutex' BY DEF Mutex, InToBinder
<1>3. LookupFresh' BY DEF LookupFresh, InToBinder, Strong
<1>4. Dying' BY DEF Dying
<1>5. Findable' BY DEF Findable, Strong
<1>6. NoStaleEntry' BY DEF NoStaleEntry
<1>7. DestroyedOnce' BY DEF DestroyedOnce, Strong
<1>. QED BY <1>1, <1>2, <1>3, <1>4, <1>5, <1>6, <1>7

LEMMA PromoteStep ==
    ASSUME IInv, NEW t \in Threads, Promote(t)
    PROVE  IInv'
<1>. USE DEF IInv, TypeOK, Promote, Return
<1>0. \A b \in Binders : Strong(b)' <=> Strong(b) BY DEF Strong
<1>1. TypeOK' OBVIOUS
<1>2. Mutex' BY DEF Mutex, InToBinder
<1>3. LookupFresh' BY <1>0 DEF LookupFresh, InToBinder
<1>4. Dying' BY DEF Dying
<1>5. Findable' BY <1>0 DEF Findable
<1>6. NoStaleEntry' BY DEF NoStaleEntry
<1>7. DestroyedOnce' BY <1>0 DEF DestroyedOnce, Dying
<1>. QED BY <1>1, <1>2, <1>3, <1>4, <1>5, <1>6, <1>7

LEMMA PromoteFailsStep ==
    ASSUME IInv, NEW t \in Threads, PromoteFails(t)
    PROVE  IInv'
<1>. USE DEF IInv, TypeOK, PromoteFails
<1>1. TypeOK' OBVIOUS
<1>2. Mutex' BY DEF Mutex, InToBinder
<1>3. LookupFresh' BY DEF LookupFresh, InToBinder, Strong
<1>4. Dying' /\ Findable' /\ NoStaleEntry'
  BY DEF Dying, Findable, NoStaleEntry, Strong
<1>5. DestroyedOnce' BY DEF DestroyedOnce, Strong
<1>. QED BY <1>1, <1>2, <1>3, <1>4, <1>5

LEMMA NoConstructorStep ==
    ASSUME IInv, NEW t \in Threads, NoConstructor(t)
    PROVE  IInv'
<1>. USE DEF IInv, TypeOK, NoConstructor, Return
<1>1. TypeOK' OBVIOUS
<1>2. Mutex' BY DEF Mutex, InToBinder
<1>3. LookupFresh' BY DEF LookupFresh, InToBinder, Strong
<1>4. Dying' /\ Findable' /\ NoStaleEntry'
  BY DEF Dying, Findable, NoStaleEntry, Strong
<1>5. DestroyedOnce' BY DEF DestroyedOnce, Strong
<1>. QED BY <1>1, <1>2, <1>3, <1>4, <1>5

LEMMA ConstructStep ==
    ASSUME IInv, NEW t \in Threads, NEW b \in Binders, Construct(t, b)
    PROVE  IInv'
<1>. USE DEF IInv, TypeOK, Construct, Return
<1>0. /\ InToBinder(t) /\ ifacePtr[t] \in Ifaces
      /\ bn[t] = gBnMap[ifacePtr[t]] /\ (bn[t] = None \/ ~Strong(bn[t]))
  BY DEF LookupFresh, InToBinder
<1>1. \A c \in Binders : Strong(c)' <=> Strong(c) \/ c = b
  BY DEF Strong
<1>2. impl[b] = None /\ \A i \in Ifaces : gBnMap[i] # b
  BY DEF InUse
<1>3. \A u \in Threads : bn[u] # b BY DEF InUse
<1>4. \A u \in Threads \ {t} : ~InToBinder(u)' /\ ~InToBinder(u)
  BY <1>0 DEF Mutex, InToBinder
<1>5. TypeOK' BY <1>0
<1>6. Mutex' BY <1>0, <1>4 DEF Mutex, InToBinder
<1>7. LookupFresh' BY <1>4 DEF LookupFresh, InToBinder
<1>8. Dying'
  <2>1. \A u \in Threads : pc'[u] = "destructor" =>
            u # t /\ pc[u] = "destructor" /\ bn'[u] = bn[u]
    OBVIOUS
  <2>. QED BY <1>3, <2>1 DEF Dying
<1>9. Findable'
  <2>. SUFFICES ASSUME NEW c \in Binders, Strong(c)'
                PROVE  impl'[c] # None /\ gBnMap'[impl'[c]] = c
    BY DEF Findable
  <2>1. CASE c = b BY <1>0, <2>1
  <2>2. CASE c # b
    <3>1. Strong(c) /\ impl'[c] = impl[c] BY <1>1, <2>2
    <3>2. impl[c] # None /\ gBnMap[impl[c]] = c BY <3>1 DEF Findable
    <3>3. impl[c] # ifacePtr[t] BY <1>0, <3>1, <3>2
    <3>. QED BY <3>1, <3>2, <3>3
  <2>. QED BY <2>1, <2>2
<1>10. NoStaleEntry' BY <1>0, <1>2 DEF NoStaleEntry
<1>11. DestroyedOnce'
  <2>1. \A u \in Threads : pc'[u] = "destructor" =>
            pc[u] = "destructor" /\ bn'[u] = bn[u] /\ bn[u] \in Binders /\ bn[u] # b
    BY <1>3 DEF Dying
  <2>. QED BY <1>1, <2>1 DEF DestroyedOnce
<1>. QED BY <1>5, <1>6, <1>7, <1>8, <1>9, <1>10, <1>11

LEMMA ShareStep ==
    ASSUME IInv, NEW t \in Threads, NEW u \in Threads, NEW b \in Binders,
           Share(t, u, b)
    PROVE  IInv'
<1>. USE DEF IInv, TypeOK, Share
<1>0. \A c \in Binders : Strong(c)' <=> Strong(c) BY DEF Strong
<1>1. TypeOK' OBVIOUS
<1>2. Mutex' /\ Dying' /\ NoStaleEntry'
  BY DEF Mutex, InToBinder, Dying, NoStaleEntry
<1>3. LookupFresh' BY <1>0 DEF LookupFresh, InToBinder
<1>4. Findable' BY <1>0 DEF Findable
<1>5. DestroyedOnce' BY <1>0 DEF DestroyedOnce, Dying
<1>. QED BY <1>1, <1>2, <1>3, <1>4, <1>5

LEMMA ReleaseStep ==
    ASSUME IInv, NEW t \in Threads, NEW b \in Binders, Release(t, b)
    PROVE  IInv'
<1>. USE DEF IInv, TypeOK, Release
<1>0. /\ \A c \in Binders : Strong(c)' => Strong(c)
      /\ Strong(b) /\ impl[b] \in Ifaces
  BY DEF Strong, Findable
<1>1. CASE \E u \in Threads \ {t} : b \in held[u]
  <2>1. \A c \in Binders : Strong(c)' <=> Strong(c) BY <1>1 DEF Strong
  <2>2. TypeOK' BY <1>1
  <2>3. Mutex' /\ Dying' /\ NoStaleEntry'
    BY <1>1 DEF Mutex, InToBinder, Dying, NoStaleEntry
  <2>4. LookupFresh' BY <1>1, <2>1 DEF LookupFresh, InToBinder
  <2>5. Findable' BY <1>1, <2>1 DEF Findable
  <2>6. DestroyedOnce' BY <1>1, <2>1 DEF DestroyedOnce, Dying
  <2>. QED BY <2>2, <2>3, <2>4, <2>5, <2>6
<1>2. CASE ~\E u \in Threads \ {t} : b \in held[u]
  <2>1. pc' = [pc EXCEPT ![t] = "destructor"] /\ bn' = [bn EXCEPT ![t] = b]
    BY <1>2
  <2>2. ~Strong(b)' BY <1>2 DEF Strong
  <2>3. TypeOK' BY <2>1
  <2>4. Mutex' BY <2>1 DEF Mutex, InToBinder
  <2>5. LookupFresh' BY <1>0, <2>1 DEF LookupFresh, InToBinder
  <2>6. Dying' BY <1>0, <2>1 DEF Dying
  <2>7. Findable' BY <1>0 DEF Findable
  <2>8. NoStaleEntry' BY DEF NoStaleEntry
  <2>9. DestroyedOnce'
    <3>1. \A u \in Threads : pc[u] = "destructor" => bn[u] # b /\ bn[u] \in Binders
      BY <1>0 DEF DestroyedOnce, Dying
    <3>. QED BY <1>0, <2>1, <2>2, <3>1 DEF DestroyedOnce
  <2>. QED BY <2>3, <2>4, <2>5, <2>6, <2>7, <2>8, <2>9
<1>. QED BY <1>1, <1>2

LEMMA DestroyStep ==
    ASSUME IInv, NEW t \in Threads, Destroy(t)
    PROVE  IInv'
<1>. USE DEF IInv, TypeOK, Destroy
<1>0. bn[t] \in Binders /\ impl[bn[t]] \in Ifaces /\ ~Strong(bn[t])
  BY DEF Dying, DestroyedOnce
<1>1. \A c \in Binders : Strong(c)' <=> Strong(c) BY DEF Strong
<1>2. \A u \in Threads : ~InToBinder(u) /\ ~InToBinder(u)'
  BY DEF Mutex, InToBinder
<1>3. /\ \A i \in Ifaces : gBnMap'[i] = IF gBnMap[i] = bn[t] THEN None ELSE gBnMap[i]
      /\ gBnMap' \in [Ifaces -> Binders \union {None}]
  BY <1>0 DEF NoStaleEntry
<1>4. TypeOK' BY <1>0, <1>3
<1>5. Mutex' BY <1>2 DEF Mutex
<1>6. LookupFresh' BY <1>2 DEF LookupFresh, InToBinder
<1>7. Dying' BY <1>0 DEF Dying, DestroyedOnce
<1>8. Findable' BY <1>0, <1>1, <1>3 DEF Findable
<1>9. NoStaleEntry' BY <1>0, <1>3 DEF NoStaleEntry
<1>10. DestroyedOnce' BY <1>1 DEF DestroyedOnce, Dying
<1>. QED BY <1>4, <1>5, <1>6, <1>7, <1>8, <1>9, <1>10

(* The inductive invariant holds in every reachable state.                 *)
THEOREM Inductive == Spec => []IInv
<1>1. IInv /\ [Next]_vars => IInv'
  <2>. SUFFICES ASSUME IInv, [Next]_vars PROVE IInv'
    OBVIOUS
  <2>1. CASE UNCHANGED vars
    BY <2>1 DEF vars, IInv, TypeOK, Mutex, InToBinder, LookupFresh, Dying,
                Findable, NoStaleEntry, DestroyedOnce, Strong
  <2>. QED
    BY <2>1, RegisterStep, LookupStep, PromoteStep, PromoteFailsStep,
       NoConstructorStep, ConstructStep, ShareStep, ReleaseStep, DestroyStep
    DEF Next
<1>. QED BY <1>1, InitIInv, PTL DEF Spec

(* The map always leads to the binder in use, through every interleaving   *)
(* of toBinder() with the destruction of the previous binder.              *)
THEOREM MapFindsBinder == Spec => []Findable
<1>1. IInv => Findable BY DEF IInv
<1>. QED BY <1>1, Inductive, PTL

(* One binder in use per interface object.                                 *)
THEOREM OneBinderPerInterface == Spec => []Canonical
<1>1. IInv => Canonical BY DEF IInv, Findable, Canonical
<1>. QED BY <1>1, Inductive, PTL

(* No entry of the map outlives its binder.                                *)
THEOREM MapHasNoStaleEntry == Spec => []NoStaleEntry
<1>1. IInv => NoStaleEntry BY DEF IInv
<1>. QED BY <1>1, Inductive, PTL

(* promote() never revives a binder whose destruction has begun, and no    *)
(* binder is destroyed twice.                                              *)
THEOREM BinderDestroyedOnce == Spec => []DestroyedOnce
<1>1. IInv => DestroyedOnce BY DEF IInv
<1>. QED BY <1>1, Inductive, PTL
==============================================================================
