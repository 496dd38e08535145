----------------------- MODULE SynchronizedQueue_proofs -----------------------
(***************************************************************************)
(* The invariants of SynchronizedQueue for every set of producers and      *)
(* consumers, every limit and every number of accepted pushes.             *)
(*                                                                         *)
(* Bounded and NoLostWakeup are each inductive together with TypeOK; Fifo  *)
(* is inductive with TypeOK.  NoLostWakeup counts threads, so its steps    *)
(* rest on how a counted set changes when one thread moves (AddOne and     *)
(* RemoveOne).                                                             *)
(***************************************************************************)
EXTENDS SynchronizedQueue, FiniteSetTheorems, TLAPS

(* Cardinality of a finite set after one element joins it.                 *)
LEMMA AddOne ==
    ASSUME NEW S, IsFiniteSet(S), NEW x, x \notin S
    PROVE  /\ Cardinality(S) \in Nat
           /\ Cardinality(S \union {x}) = Cardinality(S) + 1
BY FS_AddElement, FS_CardinalityType

(* Cardinality of a finite set after one element leaves it.                *)
LEMMA RemoveOne ==
    ASSUME NEW S, IsFiniteSet(S), NEW x \in S
    PROVE  /\ Cardinality(S) \in Nat
           /\ Cardinality(S \ {x}) \in Nat
           /\ Cardinality(S) = Cardinality(S \ {x}) + 1
<1>1. IsFiniteSet(S \ {x}) BY FS_RemoveElement
<1>2. Cardinality(S) \in Nat /\ Cardinality(S \ {x}) \in Nat
  BY <1>1, FS_CardinalityType
<1>3. Cardinality(S \ {x}) = Cardinality(S) - 1 BY FS_RemoveElement
<1>. QED BY <1>2, <1>3

(* The three sets of threads NoLostWakeup counts are finite.               *)
LEMMA ThreadSetsFinite ==
    /\ IsFiniteSet(Notifying) /\ Cardinality(Notifying) \in Nat
    /\ IsFiniteSet(Checking) /\ Cardinality(Checking) \in Nat
<1>1. Notifying \subseteq Producers /\ Checking \subseteq Consumers
  BY DEF Notifying, Checking
<1>. QED BY <1>1, QueueAssumption, FS_Subset, FS_CardinalityType DEF QueueAssumption

-----------------------------------------------------------------------------
(* Every variable keeps its type through push(), wait_pop() and the        *)
(* notifications between them.                                             *)
THEOREM TypeCorrect == Spec => []TypeOK
<1>1. Init => TypeOK BY DEF Init, TypeOK
<1>2. TypeOK /\ [Next]_vars => TypeOK'
  <2>. SUFFICES ASSUME TypeOK, [Next]_vars PROVE TypeOK'
    OBVIOUS
  <2>. USE DEF TypeOK
  <2>1. ASSUME NEW p \in Producers, NEW i \in Items, Push(p, i) PROVE TypeOK'
    <3>1. pushPc' \in [Producers -> {"idle", "notify"}]
      BY <2>1 DEF Push
    <3>2. mQueue' \in Seq(Items) /\ accepted' \in Seq(Items)
      <4>1. CASE Len(mQueue) < Limit
        <5>1. mQueue' = Append(mQueue, i) /\ accepted' = Append(accepted, i)
          BY <2>1, <4>1 DEF Push
        <5>2. Append(mQueue, i) \in Seq(Items) OBVIOUS
        <5>3. Append(accepted, i) \in Seq(Items) OBVIOUS
        <5>. QED BY <5>1, <5>2, <5>3
      <4>2. CASE ~(Len(mQueue) < Limit) BY <2>1, <4>2 DEF Push
      <4>. QED BY <4>1, <4>2
    <3>. QED BY <2>1, <3>1, <3>2 DEF Push
  <2>2. ASSUME NEW p \in Producers, NotifyOne(p) PROVE TypeOK'
    BY <2>2 DEF NotifyOne
  <2>3. ASSUME NEW c \in Consumers, WaitPop(c) \/ Block(c) \/ SpuriousWake(c)
        PROVE  TypeOK'
    BY <2>3 DEF WaitPop, Block, SpuriousWake
  <2>4. ASSUME NEW c \in Consumers, Pop(c) PROVE TypeOK'
    BY <2>4 DEF Pop
  <2>5. CASE UNCHANGED vars BY <2>5 DEF vars
  <2>. QED BY <2>1, <2>2, <2>3, <2>4, <2>5 DEF Next
<1>. QED BY <1>1, <1>2, PTL DEF Spec

(* push() never takes the queue over mQueueLimit, whatever threads call    *)
(* it together.                                                            *)
THEOREM QueueBounded == Spec => []Bounded
<1>1. Init => Bounded BY QueueAssumption DEF Init, Bounded, QueueAssumption
<1>2. TypeOK /\ Bounded /\ [Next]_vars => Bounded'
  <2>. SUFFICES ASSUME TypeOK, Bounded, [Next]_vars PROVE Bounded'
    OBVIOUS
  <2>. USE QueueAssumption DEF TypeOK, Bounded, QueueAssumption
  <2>1. ASSUME NEW p \in Producers, NEW i \in Items, Push(p, i) PROVE Bounded'
    BY <2>1 DEF Push
  <2>2. ASSUME NEW c \in Consumers, Pop(c) PROVE Bounded'
    BY <2>2 DEF Pop
  <2>3. CASE UNCHANGED mQueue BY <2>3
  <2>. QED BY <2>1, <2>2, <2>3
       DEF Next, NotifyOne, WaitPop, Block, SpuriousWake, vars
<1>. QED BY <1>1, <1>2, TypeCorrect, PTL DEF Spec

(* The queue is first-in first-out and loses, repeats or invents no item.  *)
THEOREM QueueFifo == Spec => []Fifo
<1>1. Init => Fifo BY DEF Init, Fifo
<1>2. TypeOK /\ Fifo /\ [Next]_vars => Fifo'
  <2>. SUFFICES ASSUME TypeOK, Fifo, [Next]_vars PROVE Fifo'
    OBVIOUS
  <2>. USE DEF TypeOK, Fifo
  <2>1. ASSUME NEW p \in Producers, NEW i \in Items, Push(p, i) PROVE Fifo'
    <3>1. CASE Len(mQueue) < Limit
      <4>1. /\ mQueue' = Append(mQueue, i) /\ accepted' = Append(accepted, i)
            /\ taken' = taken
        BY <2>1, <3>1 DEF Push
      <4>. QED BY <4>1
    <3>2. CASE ~(Len(mQueue) < Limit) BY <2>1, <3>2 DEF Push
    <3>. QED BY <3>1, <3>2
  <2>2. ASSUME NEW c \in Consumers, Pop(c) PROVE Fifo'
    <3>1. /\ mQueue # <<>> /\ taken' = Append(taken, Head(mQueue))
          /\ mQueue' = Tail(mQueue) /\ accepted' = accepted
      BY <2>2 DEF Pop
    <3>2. /\ Len(mQueue') = Len(mQueue) - 1 /\ Len(taken') = Len(taken) + 1
          /\ \A k \in 1..Len(mQueue') : mQueue'[k] = mQueue[k + 1]
      BY <3>1
    <3>3. taken'[Len(taken) + 1] = accepted[Len(taken) + 1]
      BY <3>1
    <3>4. \A k \in 1..Len(taken') : taken'[k] = accepted[k]
      BY <3>1, <3>2, <3>3
    <3>5. \A k \in 1..Len(mQueue') : mQueue'[k] = accepted[Len(taken') + k]
      <4>. TAKE k \in 1..Len(mQueue')
      <4>1. k \in Nat /\ k + 1 \in 1..Len(mQueue) /\ Len(taken) \in Nat
        BY <3>1, <3>2
      <4>2. mQueue[k + 1] = accepted[Len(taken) + (k + 1)] BY <4>1
      <4>3. Len(taken) + (k + 1) = Len(taken') + k BY <3>2, <4>1
      <4>. QED BY <3>2, <4>2, <4>3
    <3>6. Len(accepted) = Len(taken') + Len(mQueue')
      <4>1. Len(mQueue) \in Nat /\ Len(taken) \in Nat OBVIOUS
      <4>. QED BY <3>2, <4>1
    <3>. QED BY <3>1, <3>4, <3>5, <3>6
  <2>3. CASE UNCHANGED <<mQueue, accepted, taken>> BY <2>3
  <2>. QED BY <2>1, <2>2, <2>3
       DEF Next, NotifyOne, WaitPop, Block, SpuriousWake, vars
<1>. QED BY <1>1, <1>2, TypeCorrect, PTL DEF Spec

(* Over any number of producers and consumers, the queue stays within its  *)
(* limit and hands out exactly what it accepted, in order.                 *)
THEOREM QueueBoundedFifo == Spec => []BoundedFifo
<1>. QED BY QueueBounded, QueueFifo, PTL DEF BoundedFifo

-----------------------------------------------------------------------------
(* One thread's program counter moves: how the two counted sets change.    *)
LEMMA PushCounts ==
    ASSUME TypeOK, NEW p \in Producers, NEW i \in Items, Push(p, i)
    PROVE  /\ Cardinality(Notifying') = Cardinality(Notifying) + 1
           /\ Checking' = Checking /\ Waiting' = Waiting
           /\ Len(mQueue') <= Len(mQueue) + 1
<1>1. p \notin Notifying /\ Notifying' = Notifying \union {p}
  BY DEF TypeOK, Push, Notifying
<1>2. Checking' = Checking /\ Waiting' = Waiting
  BY DEF Push, Checking, Waiting
<1>3. Len(mQueue') <= Len(mQueue) + 1
  <2>1. CASE Len(mQueue) < Limit BY <2>1 DEF Push, TypeOK
  <2>2. CASE ~(Len(mQueue) < Limit) BY <2>2 DEF Push, TypeOK
  <2>. QED BY <2>1, <2>2
<1>. QED BY <1>1, <1>2, <1>3, ThreadSetsFinite, AddOne

(* notify_one() with a waiter moves one unit from Notifying to Checking.   *)
LEMMA NotifyCounts ==
    ASSUME TypeOK, NEW p \in Producers, NotifyOne(p), Waiting # {}
    PROVE  /\ Cardinality(Notifying) = Cardinality(Notifying') + 1
           /\ Cardinality(Notifying') \in Nat
           /\ Cardinality(Checking') = Cardinality(Checking) + 1
<1>1. p \in Notifying /\ Notifying' = Notifying \ {p}
  BY DEF TypeOK, NotifyOne, Notifying
<1>2. PICK c \in Consumers : /\ popPc[c] = "waiting"
                             /\ popPc' = [popPc EXCEPT ![c] = "checking"]
  BY DEF NotifyOne, Waiting
<1>3. c \notin Checking /\ Checking' = Checking \union {c}
  BY <1>2 DEF TypeOK, Checking
<1>. QED BY <1>1, <1>3, ThreadSetsFinite, AddOne, RemoveOne

(* A consumer enters or leaves the predicate.                              *)
LEMMA CheckingCounts ==
    ASSUME TypeOK, NEW c \in Consumers
    PROVE  /\ WaitPop(c) \/ SpuriousWake(c) =>
                Cardinality(Checking') = Cardinality(Checking) + 1
           /\ Pop(c) => /\ Cardinality(Checking) = Cardinality(Checking') + 1
                        /\ Cardinality(Checking') \in Nat
<1>1. ASSUME WaitPop(c) \/ SpuriousWake(c)
      PROVE  c \notin Checking /\ Checking' = Checking \union {c}
  BY <1>1 DEF TypeOK, WaitPop, SpuriousWake, Checking
<1>2. ASSUME Pop(c) PROVE c \in Checking /\ Checking' = Checking \ {c}
  BY <1>2 DEF TypeOK, Pop, Checking
<1>. QED BY <1>1, <1>2, ThreadSetsFinite, AddOne, RemoveOne

(* No wake-up is ever lost: an item cannot sit in the queue with every     *)
(* consumer asleep and no notification under way, for any number of        *)
(* producers and consumers and in the presence of spurious wake-ups.       *)
THEOREM QueueNoLostWakeup == Spec => []NoLostWakeup
<1>1. Init => NoLostWakeup BY DEF Init, NoLostWakeup, Waiting
<1>2. TypeOK /\ NoLostWakeup /\ [Next]_vars => NoLostWakeup'
  <2>. SUFFICES ASSUME TypeOK, NoLostWakeup, [Next]_vars, Waiting' # {}
                PROVE  Len(mQueue') <= Cardinality(Notifying') + Cardinality(Checking')
    BY DEF NoLostWakeup
  <2>. DEFINE Goal == Len(mQueue') <= Cardinality(Notifying') + Cardinality(Checking')
  <2>0. /\ Len(mQueue) \in Nat /\ Cardinality(Notifying) \in Nat
        /\ Cardinality(Checking) \in Nat
    BY ThreadSetsFinite DEF TypeOK
  <2>1. ASSUME NEW p \in Producers, NEW i \in Items, Push(p, i) PROVE Goal
    <3>1. Len(mQueue') \in Nat
      <4>1. CASE Len(mQueue) < Limit BY <2>1, <4>1 DEF Push, TypeOK
      <4>2. CASE ~(Len(mQueue) < Limit) BY <2>1, <4>2 DEF Push, TypeOK
      <4>. QED BY <4>1, <4>2
    <3>. QED BY <2>0, <2>1, <3>1, PushCounts DEF NoLostWakeup
  <2>2. ASSUME NEW p \in Producers, NotifyOne(p) PROVE Goal
    <3>1. Waiting # {} /\ mQueue' = mQueue BY <2>2 DEF NotifyOne, Waiting
    <3>. QED BY <2>0, <2>2, <3>1, NotifyCounts DEF NoLostWakeup
  <2>3. ASSUME NEW c \in Consumers, WaitPop(c) \/ SpuriousWake(c) PROVE Goal
    <3>1. /\ Waiting # {} /\ mQueue' = mQueue /\ Notifying' = Notifying
      BY <2>3 DEF WaitPop, SpuriousWake, Waiting, Notifying, TypeOK
    <3>. QED BY <2>0, <2>3, <3>1, CheckingCounts DEF NoLostWakeup
  <2>4. ASSUME NEW c \in Consumers, Block(c) PROVE Goal
    <3>1. Len(mQueue') = 0 BY <2>4 DEF Block
    <3>2. Notifying' = Notifying BY <2>4 DEF Block, Notifying
    <3>3. Checking' \subseteq Consumers BY DEF Checking
    <3>4. Cardinality(Checking') \in Nat
      BY <3>3, QueueAssumption, FS_Subset, FS_CardinalityType DEF QueueAssumption
    <3>. QED BY <2>0, <3>1, <3>2, <3>4
  <2>5. ASSUME NEW c \in Consumers, Pop(c) PROVE Goal
    <3>1. /\ Waiting # {} /\ Notifying' = Notifying
      BY <2>5 DEF Pop, Waiting, Notifying, TypeOK
    <3>2. Len(mQueue') = Len(mQueue) - 1 BY <2>5 DEF Pop, TypeOK
    <3>. QED BY <2>0, <2>5, <3>1, <3>2, CheckingCounts DEF NoLostWakeup
  <2>6. CASE UNCHANGED vars
    BY <2>0, <2>6 DEF vars, Waiting, Checking, Notifying, NoLostWakeup
  <2>. QED BY <2>1, <2>2, <2>3, <2>4, <2>5, <2>6 DEF Next
<1>. QED BY <1>1, <1>2, TypeCorrect, PTL DEF Spec
==============================================================================
