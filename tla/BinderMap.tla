------------------------------ MODULE BinderMap ------------------------------
(***************************************************************************)
(* toBinder() of transport/include/hidl/HidlBinderSupport.h and gBnMap,    *)
(* the ConcurrentMap from a local interface object to the weak pointer of  *)
(* the BnHw object ("binder") that wraps it.                               *)
(*                                                                         *)
(* toBinder() holds gBnMap's mutex from its lookup to its insertion.       *)
(* Strong references are dropped without that mutex, so a binder found in  *)
(* the map may already be on its way to destruction: promote() then fails  *)
(* and a second binder is made while the first still has its entry to      *)
(* remove.  The destructor of a binder is generated code; as the map's     *)
(* eraseIfEqual() is for, it erases the entry of its own interface.        *)
(*                                                                         *)
(* Interfaces here are local objects whose descriptor is known: a null or  *)
(* remote one, and one whose interfaceDescriptor() fails, returns before   *)
(* the map is touched.                                                     *)
(***************************************************************************)
EXTENDS FiniteSets

CONSTANTS Threads,
          Ifaces,    \* local interface objects, the keys of gBnMap
          Binders,   \* identities of BnHw objects; one is reused when freed
          None       \* the null pointer

ASSUME BinderMapAssumption == None \notin Threads \union Ifaces \union Binders

VARIABLES gBnMap,       \* [Ifaces -> Binders or None (no entry)]
          mMutex,       \* the thread that holds gBnMap's mutex, or None
          registered,   \* interfaces with a function in gBnConstructorMap
          impl,         \* the interface a binder wraps; None: not allocated
          held,         \* the binders a thread has a strong pointer to
          pc,           \* where a thread is
          ifacePtr,     \* the argument of its toBinder()
          bn            \* its wBnObj, or the binder it is destroying

vars == <<gBnMap, mMutex, registered, impl, held, pc, ifacePtr, bn>>

Init ==
    /\ gBnMap = [i \in Ifaces |-> None]
    /\ mMutex = None
    /\ registered = {}
    /\ impl = [b \in Binders |-> None]
    /\ held = [t \in Threads |-> {}]
    /\ pc = [t \in Threads |-> "idle"]
    /\ ifacePtr = [t \in Threads |-> None]
    /\ bn = [t \in Threads |-> None]

(* The strong count of b is not zero.                                      *)
Strong(b) == \E t \in Threads : b \in held[t]

(* A weak pointer to b exists, or b itself: its identity is in use.        *)
InUse(b) ==
    \/ impl[b] # None
    \/ \E i \in Ifaces : gBnMap[i] = b
    \/ \E t \in Threads : bn[t] = b

(* toBinder() returns to its caller and unlocks gBnMap.                    *)
Return(t) ==
    /\ mMutex' = None
    /\ pc' = [pc EXCEPT ![t] = "idle"]
    /\ ifacePtr' = [ifacePtr EXCEPT ![t] = None]
    /\ bn' = [bn EXCEPT ![t] = None]

-----------------------------------------------------------------------------
(***************************************************************************)
(* Plausible bugs, used only to show that the properties can fail.         *)
(***************************************************************************)
EraseAny(t) ==
    /\ pc[t] = "destructor"
    /\ mMutex = None
    /\ gBnMap' = [gBnMap EXCEPT ![impl[bn[t]]] = None]
    /\ impl' = [impl EXCEPT ![bn[t]] = None]
    /\ pc' = [pc EXCEPT ![t] = "idle"]
    /\ bn' = [bn EXCEPT ![t] = None]
    /\ UNCHANGED <<mMutex, registered, held, ifacePtr>>

EraseNever(t) ==
    /\ pc[t] = "destructor"
    /\ mMutex = None
    /\ impl' = [impl EXCEPT ![bn[t]] = None]
    /\ pc' = [pc EXCEPT ![t] = "idle"]
    /\ bn' = [bn EXCEPT ![t] = None]
    /\ UNCHANGED <<gBnMap, mMutex, registered, held, ifacePtr>>

LookupUnlocked(t, i) ==
    /\ pc[t] = "idle"
    /\ mMutex' = mMutex
    /\ ifacePtr' = [ifacePtr EXCEPT ![t] = i]
    /\ bn' = [bn EXCEPT ![t] = gBnMap[i]]
    /\ pc' = [pc EXCEPT ![t] = "promote"]
    /\ UNCHANGED <<gBnMap, registered, impl, held>>

PromoteRaw(t) ==
    /\ pc[t] = "promote"
    /\ bn[t] # None
    /\ held' = [held EXCEPT ![t] = @ \union {bn[t]}]
    /\ Return(t)
    /\ UNCHANGED <<gBnMap, registered, impl>>

-----------------------------------------------------------------------------
(* gBnConstructorMap.set(): the library of i's package has been loaded.    *)
Register(i) ==
    /\ i \notin registered
    /\ registered' = registered \union {i}
    /\ UNCHANGED <<gBnMap, mMutex, impl, held, pc, ifacePtr, bn>>

(* toBinder(i): lock gBnMap and read the weak pointer.                     *)
Lookup(t, i) ==
    /\ pc[t] = "idle"
    /\ mMutex = None
    /\ mMutex' = t
    /\ ifacePtr' = [ifacePtr EXCEPT ![t] = i]
    /\ bn' = [bn EXCEPT ![t] = gBnMap[i]]
    /\ pc' = [pc EXCEPT ![t] = "promote"]
    /\ UNCHANGED <<gBnMap, registered, impl, held>>

(* promote() succeeds while a strong pointer exists somewhere: the binder  *)
(* in the map is the result.                                               *)
Promote(t) ==
    /\ pc[t] = "promote"
    /\ bn[t] # None
    /\ Strong(bn[t])
    /\ held' = [held EXCEPT ![t] = @ \union {bn[t]}]
    /\ Return(t)
    /\ UNCHANGED <<gBnMap, registered, impl>>

PromoteFails(t) ==
    /\ pc[t] = "promote"
    /\ bn[t] = None \/ ~Strong(bn[t])
    /\ pc' = [pc EXCEPT ![t] = "construct"]
    /\ UNCHANGED <<gBnMap, mMutex, registered, impl, held, ifacePtr, bn>>

(* A constructor is known: make a binder, enter it in the map, return it.  *)
Construct(t, b) ==
    /\ pc[t] = "construct"
    /\ ifacePtr[t] \in registered
    /\ ~InUse(b)
    /\ impl' = [impl EXCEPT ![b] = ifacePtr[t]]
    /\ gBnMap' = [gBnMap EXCEPT ![ifacePtr[t]] = b]
    /\ held' = [held EXCEPT ![t] = @ \union {b}]
    /\ Return(t)
    /\ UNCHANGED registered

(* No constructor for the descriptor, or it gives no object: toBinder()    *)
(* returns nullptr and the map stays as it is.                             *)
NoConstructor(t) ==
    /\ pc[t] = "construct"
    /\ Return(t)
    /\ UNCHANGED <<gBnMap, registered, impl, held>>

(* A strong pointer is copied to another thread, or by a transaction.      *)
Share(t, u, b) ==
    /\ pc[t] = "idle"
    /\ b \in held[t] \ held[u]
    /\ held' = [held EXCEPT ![u] = @ \union {b}]
    /\ UNCHANGED <<gBnMap, mMutex, registered, impl, pc, ifacePtr, bn>>

(* A strong pointer is dropped; whoever drops the last one destroys b.     *)
Release(t, b) ==
    /\ pc[t] = "idle"
    /\ b \in held[t]
    /\ held' = [held EXCEPT ![t] = @ \ {b}]
    /\ IF \E u \in Threads \ {t} : b \in held[u]
         THEN UNCHANGED <<pc, bn>>
         ELSE /\ pc' = [pc EXCEPT ![t] = "destructor"]
              /\ bn' = [bn EXCEPT ![t] = b]
    /\ UNCHANGED <<gBnMap, mMutex, registered, impl, ifacePtr>>

(* The binder's destructor: eraseIfEqual(impl, this), then its memory and  *)
(* its strong pointer to the interface are gone.                           *)
Destroy(t) ==
    /\ pc[t] = "destructor"
    /\ mMutex = None
    /\ gBnMap' = IF gBnMap[impl[bn[t]]] = bn[t]
                   THEN [gBnMap EXCEPT ![impl[bn[t]]] = None]
                   ELSE gBnMap
    /\ impl' = [impl EXCEPT ![bn[t]] = None]
    /\ pc' = [pc EXCEPT ![t] = "idle"]
    /\ bn' = [bn EXCEPT ![t] = None]
    /\ UNCHANGED <<mMutex, registered, held, ifacePtr>>

Next ==
    \/ \E i \in Ifaces : Register(i)
    \/ \E t \in Threads, i \in Ifaces : Lookup(t, i)
    \/ \E t \in Threads : Promote(t) \/ PromoteFails(t) \/ NoConstructor(t) \/ Destroy(t)
    \/ \E t \in Threads, b \in Binders : Construct(t, b) \/ Release(t, b)
    \/ \E t, u \in Threads, b \in Binders : Share(t, u, b)

Spec == Init /\ [][Next]_vars

-----------------------------------------------------------------------------
(* The variables hold values of their types.                               *)
TypeOK ==
    /\ gBnMap \in [Ifaces -> Binders \union {None}]
    /\ mMutex \in Threads \union {None}
    /\ registered \in SUBSET Ifaces
    /\ impl \in [Binders -> Ifaces \union {None}]
    /\ held \in [Threads -> SUBSET Binders]
    /\ pc \in [Threads -> {"idle", "promote", "construct", "destructor"}]
    /\ ifacePtr \in [Threads -> Ifaces \union {None}]
    /\ bn \in [Threads -> Binders \union {None}]

(* A thread is between its lookup and its return, with gBnMap locked.      *)
InToBinder(t) == pc[t] \in {"promote", "construct"}

(* One binder per interface: all strong pointers to binders of the same    *)
(* interface point to the same binder, however lookups, insertions and     *)
(* destructions interleave.  interfacesEqual() and the kernel's node       *)
(* identity rely on it.                                                    *)
Canonical ==
    \A b, c \in Binders :
        (Strong(b) /\ Strong(c) /\ impl[b] = impl[c]) => b = c

(* The map finds every binder in use: it is the one its interface maps to. *)
Findable == \A b \in Binders : Strong(b) => /\ impl[b] # None
                                            /\ gBnMap[impl[b]] = b

(* No entry outlives its binder: an entry for an interface names a binder  *)
(* that still exists and still keeps that interface alive, so a key is     *)
(* never the address of a freed interface.                                 *)
NoStaleEntry ==
    \A i \in Ifaces : gBnMap[i] # None => impl[gBnMap[i]] = i

(* A binder is destroyed by one thread only, and never while a strong      *)
(* pointer to it exists.                                                   *)
DestroyedOnce ==
    \A t \in Threads : pc[t] = "destructor" =>
        /\ ~Strong(bn[t])
        /\ \A u \in Threads \ {t} : pc[u] = "destructor" => bn[u] # bn[t]
==============================================================================
