-------------------------- MODULE SynchronizedQueue --------------------------
(***************************************************************************)
(* SynchronizedQueue<T> of base/include/hidl/SynchronizedQueue.h: a        *)
(* bounded FIFO queue guarded by mMutex, with a condition variable on      *)
(* which wait_pop() blocks while the queue is empty.                       *)
(*                                                                         *)
(* A critical section that never blocks while it holds mMutex is one       *)
(* step.  What the code does outside the mutex is a step of its own:       *)
(* push() notifies the condition variable after it has unlocked, and       *)
(* wait_pop() is woken, by a notification or spuriously, before it has     *)
(* the mutex again and evaluates its predicate.                            *)
(***************************************************************************)
EXTENDS Naturals, Sequences, FiniteSets

CONSTANTS Producers,    \* threads that call push()
          Consumers,    \* threads that call wait_pop()
          Items,        \* the values of T
          Limit,        \* mQueueLimit, a size_t: 0 is a legal argument
          MaxAccepted   \* bound on the pushes that return true (TLC only)

ASSUME QueueAssumption ==
    /\ Limit \in Nat
    /\ MaxAccepted \in Nat
    /\ IsFiniteSet(Producers)
    /\ IsFiniteSet(Consumers)

VARIABLES mQueue,     \* std::queue<T> mQueue
          pushPc,     \* a producer is outside push() or about to notify
          popPc,      \* a consumer is outside wait_pop(), evaluating the
                      \* predicate, or blocked on mCondition
          accepted,   \* history: the items of the pushes that returned true
          taken       \* history: the items wait_pop() returned, in order

vars == <<mQueue, pushPc, popPc, accepted, taken>>

Init ==
    /\ mQueue = <<>>
    /\ pushPc = [p \in Producers |-> "idle"]
    /\ popPc = [c \in Consumers |-> "outside"]
    /\ accepted = <<>>
    /\ taken = <<>>

-----------------------------------------------------------------------------
(***************************************************************************)
(* Plausible bugs, used only to show that the properties can fail.         *)
(***************************************************************************)
NotifyWhenOneItem(p) ==
    /\ pushPc[p] = "notify"
    /\ pushPc' = [pushPc EXCEPT ![p] = "idle"]
    /\ IF Len(mQueue) = 1 /\ \E c \in Consumers : popPc[c] = "waiting"
         THEN \E c \in Consumers :
                  /\ popPc[c] = "waiting"
                  /\ popPc' = [popPc EXCEPT ![c] = "checking"]
         ELSE UNCHANGED popPc
    /\ UNCHANGED <<mQueue, accepted, taken>>

PopBack(c) ==
    /\ popPc[c] = "checking"
    /\ mQueue # <<>>
    /\ taken' = Append(taken, mQueue[Len(mQueue)])
    /\ mQueue' = SubSeq(mQueue, 1, Len(mQueue) - 1)
    /\ popPc' = [popPc EXCEPT ![c] = "outside"]
    /\ UNCHANGED <<pushPc, accepted>>

PushPastLimit(p, i) ==
    /\ pushPc[p] = "idle"
    /\ pushPc' = [pushPc EXCEPT ![p] = "notify"]
    /\ IF Len(mQueue) <= Limit
         THEN /\ mQueue' = Append(mQueue, i)
              /\ accepted' = Append(accepted, i)
         ELSE UNCHANGED <<mQueue, accepted>>
    /\ UNCHANGED <<popPc, taken>>

-----------------------------------------------------------------------------
(* push(item), the block under mMutex: a full queue refuses the item.      *)
Push(p, i) ==
    /\ pushPc[p] = "idle"
    /\ pushPc' = [pushPc EXCEPT ![p] = "notify"]
    /\ IF Len(mQueue) < Limit
         THEN /\ mQueue' = Append(mQueue, i)
              /\ accepted' = Append(accepted, i)
         ELSE UNCHANGED <<mQueue, accepted>>
    /\ UNCHANGED <<popPc, taken>>

(* push(item), after the unlock: notify_one() wakes one waiter, if there   *)
(* is one, whether or not the item was accepted.                           *)
NotifyOne(p) ==
    /\ pushPc[p] = "notify"
    /\ pushPc' = [pushPc EXCEPT ![p] = "idle"]
    /\ IF \E c \in Consumers : popPc[c] = "waiting"
         THEN \E c \in Consumers :
                  /\ popPc[c] = "waiting"
                  /\ popPc' = [popPc EXCEPT ![c] = "checking"]
         ELSE UNCHANGED popPc
    /\ UNCHANGED <<mQueue, accepted, taken>>

(* wait_pop() is called: the predicate is evaluated once mMutex is held.   *)
WaitPop(c) ==
    /\ popPc[c] = "outside"
    /\ popPc' = [popPc EXCEPT ![c] = "checking"]
    /\ UNCHANGED <<mQueue, pushPc, accepted, taken>>

(* The predicate is false: release mMutex and block, atomically.           *)
Block(c) ==
    /\ popPc[c] = "checking"
    /\ mQueue = <<>>
    /\ popPc' = [popPc EXCEPT ![c] = "waiting"]
    /\ UNCHANGED <<mQueue, pushPc, accepted, taken>>

(* The predicate is true: take the front item and return it.               *)
Pop(c) ==
    /\ popPc[c] = "checking"
    /\ mQueue # <<>>
    /\ taken' = Append(taken, Head(mQueue))
    /\ mQueue' = Tail(mQueue)
    /\ popPc' = [popPc EXCEPT ![c] = "outside"]
    /\ UNCHANGED <<pushPc, accepted>>

(* A condition variable may wake without a notification.                   *)
SpuriousWake(c) ==
    /\ popPc[c] = "waiting"
    /\ popPc' = [popPc EXCEPT ![c] = "checking"]
    /\ UNCHANGED <<mQueue, pushPc, accepted, taken>>

Next ==
    \/ \E p \in Producers, i \in Items : Len(accepted) < MaxAccepted /\ Push(p, i)
    \/ \E p \in Producers : NotifyOne(p)
    \/ \E c \in Consumers : WaitPop(c) \/ Block(c) \/ Pop(c) \/ SpuriousWake(c)

(* The scheduler runs a thread that is inside push() or wait_pop() until   *)
(* it leaves; nobody owes the queue a further call.                        *)
Fairness ==
    /\ \A p \in Producers : WF_vars(NotifyOne(p))
    /\ \A c \in Consumers : WF_vars(Block(c) \/ Pop(c))

Spec == Init /\ [][Next]_vars

FairSpec == Spec /\ Fairness

-----------------------------------------------------------------------------
(* Threads that still owe or have received a wake-up.                      *)
Notifying == {p \in Producers : pushPc[p] = "notify"}
Checking  == {c \in Consumers : popPc[c] = "checking"}
Waiting   == {c \in Consumers : popPc[c] = "waiting"}

(* The state variables hold values of their C++ types.                     *)
TypeOK ==
    /\ mQueue \in Seq(Items)
    /\ pushPc \in [Producers -> {"idle", "notify"}]
    /\ popPc \in [Consumers -> {"outside", "checking", "waiting"}]
    /\ accepted \in Seq(Items)
    /\ taken \in Seq(Items)

(* The queue never holds more than mQueueLimit items (push, line 78).      *)
Bounded == Len(mQueue) <= Limit

(* Items leave the queue in the order their pushes were accepted, none is  *)
(* lost, duplicated or invented: what was taken followed by what is        *)
(* queued is what was accepted ("Gets an item from the front", "Puts an    *)
(* item onto the end").                                                    *)
Fifo ==
    /\ Len(accepted) = Len(taken) + Len(mQueue)
    /\ \A k \in 1..Len(taken) : taken[k] = accepted[k]
    /\ \A k \in 1..Len(mQueue) : mQueue[k] = accepted[Len(taken) + k]

(* Both: whatever threads push and pop together, the queue stays within    *)
(* its limit, and an item that was refused never comes out of it while     *)
(* one that was accepted does, in its turn.                                *)
BoundedFifo == Bounded /\ Fifo

(* No lost wake-up: while some consumer is blocked, every queued item is   *)
(* matched by a notification still to come or by a consumer already on     *)
(* its way to the predicate.  push() notifies after it unlocks and also    *)
(* when it refused the item; a single missing notification would leave an  *)
(* item in the queue with everybody asleep.                                *)
NoLostWakeup ==
    Waiting # {} =>
        Len(mQueue) <= Cardinality(Notifying) + Cardinality(Checking)

(* wait_pop() "blocks until the item is available" and no longer: a        *)
(* blocked consumer does not stay blocked while the queue keeps items.     *)
BlockedConsumerWakes ==
    \A c \in Consumers :
        (popPc[c] = "waiting" /\ mQueue # <<>>) ~>
            (popPc[c] # "waiting" \/ mQueue = <<>>)
==============================================================================
