-------------------------- MODULE TaskRunner_proofs --------------------------
(***************************************************************************)
(* TaskRunner for every set of clients and tasks and every queue limit:    *)
(* its queue is a SynchronizedQueue and inherits that module's theorems,   *)
(* no task is stranded, the queue outlives every call made on it, and the  *)
(* runner implements SerialExecutor.                                       *)
(***************************************************************************)
EXTENDS TaskRunner, FiniteSetTheorems, SequenceTheorems, TLAPS

QP == INSTANCE SynchronizedQueue_proofs
          WITH Producers <- Threads, Consumers <- {Worker},
               Items <- Tasks \union {Nil}, MaxAccepted <- MaxTasks + 1

(* The constants of the runner satisfy the assumption of its queue.        *)
LEMMA QueueConstants == QP!QueueAssumption
<1>1. IsFiniteSet({Worker}) /\ IsFiniteSet(Clients \union {Worker})
  BY TaskRunnerAssumption, FS_Singleton, FS_AddElement DEF TaskRunnerAssumption
<1>2. QP!IsFiniteSet({Worker}) /\ QP!IsFiniteSet(Clients \union {Worker})
  BY <1>1 DEF IsFiniteSet, QP!IsFiniteSet
<1>. QED
  BY <1>2, TaskRunnerAssumption DEF QP!QueueAssumption, TaskRunnerAssumption, Threads

-----------------------------------------------------------------------------
(* The bound on accepted tasks leaves room for the destructor's push.      *)
AcceptedBounded ==
    /\ accepted \in Seq(Tasks \union {Nil})
    /\ runner \in {"created", "started"} => Len(accepted) <= MaxTasks

LEMMA AcceptedBoundedInvariant == Spec => []AcceptedBounded
<1>1. Init => AcceptedBounded
  BY TaskRunnerAssumption DEF Init, Q!Init, AcceptedBounded, TaskRunnerAssumption
<1>2. AcceptedBounded /\ [Next]_vars => AcceptedBounded'
  <2>. SUFFICES ASSUME AcceptedBounded, [Next]_vars PROVE AcceptedBounded'
    OBVIOUS
  <2>. USE TaskRunnerAssumption DEF AcceptedBounded, TaskRunnerAssumption
  <2>1. ASSUME NEW t \in Threads, NEW i \in Tasks \union {Nil}, Push(t, i)
        PROVE  AcceptedBounded'
    <3>1. \/ accepted' = Append(accepted, i) \/ accepted' = accepted
      BY <2>1 DEF Push, Q!Push
    <3>2. Len(accepted) < MaxTasks /\ runner' = runner BY <2>1 DEF Push
    <3>. QED BY <3>1, <3>2
  <2>2. ASSUME NEW t \in Threads, Destroy(t) PROVE AcceptedBounded'
    <3>1. \/ accepted' = Append(accepted, Nil) \/ accepted' = accepted
      BY <2>2 DEF Destroy, Q!Push
    <3>2. runner' \in {"destroying", "destroyed"} BY <2>2 DEF Destroy
    <3>. QED BY <3>1, <3>2
  <2>3. CASE /\ UNCHANGED accepted
             /\ runner' \in {"created", "started"} => runner \in {"created", "started"}
    BY <2>3
  <2>. QED BY <2>1, <2>2, <2>3
       DEF Next, Start, Notify, DestroyReturns, WaitPop, Block, SpuriousWake,
           Take, TaskReturns, Q!NotifyOne, Q!WaitPop, Q!Block, Q!SpuriousWake,
           Q!Pop, vars
<1>. QED BY <1>1, <1>2, PTL DEF Spec

(* Seen from the queue, the runner is one more set of threads that push    *)
(* and pop: its steps are steps of SynchronizedQueue.                      *)
THEOREM RunnerUsesQueue == Spec => QP!Spec
<1>1. Init => QP!Init BY DEF Init, Q!Init, QP!Init
<1>2. AcceptedBounded /\ [Next]_vars => [QP!Next]_(QP!vars)
  <2>. SUFFICES ASSUME AcceptedBounded, [Next]_vars PROVE [QP!Next]_(QP!vars)
    OBVIOUS
  <2>1. ASSUME NEW t \in Threads, NEW i \in Tasks \union {Nil}, Push(t, i)
        PROVE  QP!Next
    <3>1. QP!Push(t, i) BY <2>1 DEF Push, Q!Push, QP!Push
    <3>2. Len(accepted) < MaxTasks + 1
      BY <2>1, TaskRunnerAssumption DEF Push, AcceptedBounded, TaskRunnerAssumption
    <3>. QED BY <3>1, <3>2 DEF QP!Next
  <2>2. ASSUME NEW t \in Threads, Destroy(t) PROVE [QP!Next]_(QP!vars)
    <3>1. CASE runner = "started"
      <4>1. QP!Push(t, Nil) BY <2>2, <3>1 DEF Destroy, Q!Push, QP!Push
      <4>2. Len(accepted) < MaxTasks + 1
        BY <3>1, TaskRunnerAssumption DEF AcceptedBounded, TaskRunnerAssumption
      <4>. QED BY <4>1, <4>2 DEF QP!Next
    <3>2. CASE runner # "started" BY <2>2, <3>2 DEF Destroy, QP!vars
    <3>. QED BY <3>1, <3>2
  <2>3. ASSUME NEW t \in Threads, Notify(t) \/ DestroyReturns(t) PROVE QP!Next
    <3>1. QP!NotifyOne(t)
      BY <2>3 DEF Notify, DestroyReturns, Q!NotifyOne, QP!NotifyOne
    <3>. QED BY <3>1 DEF QP!Next
  <2>4. CASE WaitPop \/ Block \/ SpuriousWake \/ Take
    <3>1. \/ QP!WaitPop(Worker) \/ QP!Block(Worker)
          \/ QP!Pop(Worker) \/ QP!SpuriousWake(Worker)
      BY <2>4 DEF WaitPop, Block, SpuriousWake, Take,
                  Q!WaitPop, Q!Block, Q!SpuriousWake, Q!Pop,
                  QP!WaitPop, QP!Block, QP!SpuriousWake, QP!Pop
    <3>. QED BY <3>1 DEF QP!Next
  <2>5. CASE Start \/ TaskReturns \/ UNCHANGED vars
    BY <2>5 DEF Start, TaskReturns, vars, QP!vars
  <2>. QED BY <2>1, <2>2, <2>3, <2>4, <2>5 DEF Next
<1>. QED BY <1>1, <1>2, AcceptedBoundedInvariant, PTL DEF Spec, QP!Spec

(* What the runner inherits from the theorems about its queue.             *)
LEMMA Inherited == Spec => [](QP!TypeOK /\ QP!Fifo)
<1>1. QP!Spec => []QP!TypeOK BY QueueConstants, QP!TypeCorrect
<1>2. QP!Spec => []QP!Fifo BY QueueConstants, QP!QueueFifo
<1>. QED BY <1>1, <1>2, RunnerUsesQueue, PTL

(* The worker's variables keep their types: it never calls an empty task.  *)
THEOREM RunnerTypeCorrect == Spec => []TypeOK
<1>1. Init => TypeOK BY DEF Init, Q!Init, TypeOK, Q!TypeOK, Threads
<1>2. TypeOK /\ QP!TypeOK' /\ [Next]_vars => TypeOK'
  <2>. SUFFICES ASSUME TypeOK, QP!TypeOK', [Next]_vars PROVE TypeOK'
    OBVIOUS
  <2>0. Q!TypeOK' BY DEF QP!TypeOK, Q!TypeOK
  <2>1. CASE Start BY <2>0, <2>1 DEF Start, TypeOK
  <2>2. ASSUME NEW t \in Threads, NEW i \in Tasks \union {Nil}, Push(t, i)
        PROVE  TypeOK'
    BY <2>0, <2>2 DEF Push, TypeOK
  <2>3. ASSUME NEW t \in Threads, Notify(t) \/ DestroyReturns(t) \/ Destroy(t)
        PROVE  TypeOK'
    BY <2>0, <2>3 DEF Notify, DestroyReturns, Destroy, TypeOK
  <2>4. CASE WaitPop \/ Block \/ SpuriousWake
    BY <2>0, <2>4 DEF WaitPop, Block, SpuriousWake, TypeOK
  <2>5. CASE Take
    <3>1. mQueue \in Seq(Tasks \union {Nil}) /\ mQueue # <<>>
      BY <2>5 DEF Take, Q!Pop, TypeOK, Q!TypeOK
    <3>2. Head(mQueue) \in Tasks \union {Nil} BY <3>1
    <3>. QED BY <2>0, <2>5, <3>2 DEF Take, TypeOK
  <2>6. CASE TaskReturns
    <3>1. ran' \in Seq(Tasks) BY <2>6 DEF TaskReturns, TypeOK
    <3>. QED BY <2>0, <2>6, <3>1 DEF TaskReturns, TypeOK
  <2>7. CASE UNCHANGED vars BY <2>0, <2>7 DEF vars, TypeOK
  <2>. QED BY <2>1, <2>2, <2>3, <2>4, <2>5, <2>6, <2>7 DEF Next
<1>. QED BY <1>1, <1>2, Inherited, PTL DEF Spec

-----------------------------------------------------------------------------
(* The empty task is pushed once, by the destructor, and nothing follows.  *)
NilLast ==
    \A k \in 1..Len(accepted) :
        accepted[k] = Nil => /\ k = Len(accepted)
                             /\ runner \in {"destroying", "destroyed"}

(* What the worker has taken from the queue and what it has run.           *)
Progress ==
    /\ runner = "created" => worker = "none"
    /\ worker = "exited" => taken # <<>> /\ taken[Len(taken)] = Nil
    /\ worker # "exited" => \A k \in 1..Len(taken) : taken[k] # Nil
    /\ worker \in {"running", "exited"} => Len(taken) = Len(ran) + 1
    /\ worker \in {"none", "loop"} => Len(taken) = Len(ran)
    /\ worker = "running" => nextTask = taken[Len(taken)]
    /\ \A k \in 1..Len(ran) : ran[k] = taken[k]

(* Who can be inside a call on the queue.                                  *)
Calls ==
    /\ \A t \in Threads : pushPc[t] = "notify" =>
           /\ runner \in {"started", "destroying"}
           /\ runner = "destroying" => t = destroyer
    /\ popPc[Worker] # "outside" => worker = "loop"

IInv == NilLast /\ Progress /\ Calls

(* The three parts together are inductive, given the types and the order   *)
(* of the queue.                                                           *)
LEMMA StepPreservesNilLast ==
    ASSUME TypeOK, NilLast, [Next]_vars
    PROVE  NilLast'
<1>0. accepted \in Seq(Tasks \union {Nil}) BY DEF TypeOK, Q!TypeOK
<1>1. ASSUME NEW t \in Threads, NEW i \in Tasks \union {Nil}, Push(t, i)
      PROVE  NilLast'
  <2>1. /\ accepted' = Append(accepted, i) \/ accepted' = accepted
        /\ runner = "started" /\ runner' = runner /\ i # Nil
    BY <1>1 DEF Push, Q!Push
  <2>. QED BY <1>0, <2>1 DEF NilLast
<1>2. ASSUME NEW t \in Threads, Destroy(t) PROVE NilLast'
  <2>1. /\ accepted' = Append(accepted, Nil) \/ accepted' = accepted
        /\ runner \in {"created", "started"}
        /\ runner' \in {"destroying", "destroyed"}
    BY <1>2 DEF Destroy, Q!Push
  <2>. QED BY <1>0, <2>1 DEF NilLast
<1>3. CASE /\ UNCHANGED accepted
           /\ runner \in {"destroying", "destroyed"} =>
                  runner' \in {"destroying", "destroyed"}
  BY <1>3 DEF NilLast
<1>. QED BY <1>1, <1>2, <1>3
     DEF Next, Start, Notify, DestroyReturns, WaitPop, Block, SpuriousWake,
         Take, TaskReturns, Q!NotifyOne, Q!WaitPop, Q!Block, Q!SpuriousWake,
         Q!Pop, vars

LEMMA StepPreservesProgress ==
    ASSUME TypeOK, Progress, [Next]_vars
    PROVE  Progress'
<1>0. /\ taken \in Seq(Tasks \union {Nil}) /\ ran \in Seq(Tasks)
      /\ mQueue \in Seq(Tasks \union {Nil})
      /\ worker \in {"none", "loop", "running", "exited"}
  BY DEF TypeOK, Q!TypeOK
<1>1. CASE Take
  <2>1. /\ worker = "loop" /\ mQueue # <<>>
        /\ taken' = Append(taken, Head(mQueue)) /\ ran' = ran
        /\ nextTask' = Head(mQueue)
        /\ worker' = IF Head(mQueue) = Nil THEN "exited" ELSE "running"
        /\ runner' = runner
    BY <1>1 DEF Take, Q!Pop
  <2>2. /\ Len(taken') = Len(taken) + 1 /\ taken'[Len(taken) + 1] = Head(mQueue)
        /\ \A k \in 1..Len(taken) : taken'[k] = taken[k]
    BY <1>0, <2>1
  <2>3. Len(taken) \in Nat /\ Len(ran) \in Nat BY <1>0
  <2>. QED BY <1>0, <2>1, <2>2, <2>3 DEF Progress
<1>2. CASE TaskReturns
  <2>1. /\ worker = "running" /\ worker' = "loop" /\ taken' = taken
        /\ ran' = Append(ran, nextTask) /\ nextTask \in Tasks
        /\ runner' = runner
    BY <1>2 DEF TaskReturns, TypeOK
  <2>2. /\ Len(ran') = Len(ran) + 1 /\ ran'[Len(ran) + 1] = nextTask
        /\ \A k \in 1..Len(ran) : ran'[k] = ran[k]
    BY <1>0, <2>1
  <2>3. Len(taken) \in Nat /\ Len(ran) \in Nat BY <1>0
  <2>. QED BY <2>1, <2>2, <2>3 DEF Progress
<1>3. CASE Start BY <1>3 DEF Start, Progress
<1>4. CASE /\ UNCHANGED <<worker, taken, ran, nextTask>>
           /\ runner' = "created" => runner = "created"
  BY <1>4 DEF Progress
<1>. QED BY <1>1, <1>2, <1>3, <1>4
     DEF Next, Push, Destroy, Notify, DestroyReturns, WaitPop, Block,
         SpuriousWake, Q!Push, Q!NotifyOne, Q!WaitPop, Q!Block,
         Q!SpuriousWake, vars

LEMMA StepPreservesCalls ==
    ASSUME TypeOK, Calls, [Next]_vars
    PROVE  Calls'
<1>0. /\ pushPc \in [Threads -> {"idle", "notify"}]
      /\ popPc \in [{Worker} -> {"outside", "checking", "waiting"}]
      /\ Worker \in Threads
  BY DEF TypeOK, Q!TypeOK, Threads
<1>1. ASSUME NEW t \in Threads, NEW i \in Tasks \union {Nil}, Push(t, i)
      PROVE  Calls'
  BY <1>0, <1>1 DEF Push, Q!Push, Calls
<1>2. ASSUME NEW t \in Threads, Destroy(t) PROVE Calls'
  <2>1. CASE runner = "started" BY <1>0, <1>2, <2>1 DEF Destroy, Q!Push, Calls
  <2>2. CASE runner # "started" BY <1>0, <1>2, <2>2 DEF Destroy, Calls
  <2>. QED BY <2>1, <2>2
<1>3. ASSUME NEW t \in Threads, Notify(t) \/ DestroyReturns(t) PROVE Calls'
  <2>1. /\ pushPc' = [pushPc EXCEPT ![t] = "idle"]
        /\ popPc[Worker] = "waiting" \/ popPc' = popPc
        /\ worker' = worker /\ destroyer' = destroyer
    BY <1>3 DEF Notify, DestroyReturns, Q!NotifyOne
  <2>2. CASE Notify(t) BY <1>0, <2>1, <2>2 DEF Notify, Calls
  <2>3. CASE DestroyReturns(t) BY <1>0, <2>1, <2>3 DEF DestroyReturns, Calls
  <2>. QED BY <1>3, <2>2, <2>3
<1>4. CASE WaitPop \/ Block \/ SpuriousWake
  BY <1>0, <1>4 DEF WaitPop, Block, SpuriousWake, Q!WaitPop, Q!Block,
                    Q!SpuriousWake, Calls
<1>5. CASE Take BY <1>0, <1>5 DEF Take, Q!Pop, Calls
<1>6. CASE Start \/ TaskReturns BY <1>0, <1>6 DEF Start, TaskReturns, Calls
<1>7. CASE UNCHANGED vars BY <1>7 DEF vars, Calls
<1>. QED BY <1>1, <1>2, <1>3, <1>4, <1>5, <1>6, <1>7 DEF Next

LEMMA InductiveInvariant == Spec => [](TypeOK /\ QP!Fifo /\ IInv)
<1>1. Init => IInv BY DEF Init, Q!Init, IInv, NilLast, Progress, Calls, Threads
<1>2. TypeOK /\ IInv /\ [Next]_vars => IInv'
  BY StepPreservesNilLast, StepPreservesProgress, StepPreservesCalls DEF IInv
<1>. QED BY <1>1, <1>2, RunnerTypeCorrect, Inherited, PTL DEF Spec

(* Order of the queue, read from taken and mQueue.                         *)
LEMMA TakenIsPrefix ==
    ASSUME TypeOK, QP!Fifo
    PROVE  /\ Len(taken) \in Nat /\ Len(mQueue) \in Nat
           /\ Len(accepted) = Len(taken) + Len(mQueue)
           /\ \A k \in 1..Len(taken) : k \in 1..Len(accepted) /\ taken[k] = accepted[k]
           /\ mQueue # <<>> => /\ Head(mQueue) = accepted[Len(taken) + 1]
                               /\ Len(taken) + 1 \in 1..Len(accepted)
<1>0. /\ taken \in Seq(Tasks \union {Nil}) /\ mQueue \in Seq(Tasks \union {Nil})
      /\ accepted \in Seq(Tasks \union {Nil})
  BY DEF TypeOK, Q!TypeOK
<1>. QED BY <1>0 DEF QP!Fifo

(* The worker leaves nothing behind: when it exits, the queue is empty.    *)
THEOREM RunnerStrandsNoTask == Spec => []NoTaskStranded
<1>1. TypeOK /\ QP!Fifo /\ IInv => NoTaskStranded
  <2>. SUFFICES ASSUME TypeOK, QP!Fifo, IInv, worker = "exited" PROVE mQueue = <<>>
    BY DEF NoTaskStranded
  <2>1. /\ taken \in Seq(Tasks \union {Nil}) /\ mQueue \in Seq(Tasks \union {Nil})
    BY DEF TypeOK, Q!TypeOK
  <2>2. taken # <<>> /\ taken[Len(taken)] = Nil BY DEF IInv, Progress
  <2>3. Len(taken) \in 1..Len(taken) BY <2>1, <2>2
  <2>4. accepted[Len(taken)] = Nil /\ Len(taken) \in 1..Len(accepted)
    BY <2>2, <2>3, TakenIsPrefix
  <2>5. Len(taken) = Len(accepted) BY <2>4 DEF IInv, NilLast
  <2>6. Len(mQueue) = 0 BY <2>5, TakenIsPrefix
  <2>. QED BY <2>1, <2>6
<1>. QED BY <1>1, InductiveInvariant, PTL

(* The shared_ptrs of the runner and the worker keep the queue alive while *)
(* any thread is inside push() or wait_pop().                              *)
THEOREM RunnerQueueOutlivesCalls == Spec => []QueueOutlivesCalls
<1>1. TypeOK /\ IInv => QueueOutlivesCalls
  BY DEF IInv, Calls, QueueOutlivesCalls
<1>. QED BY <1>1, InductiveInvariant, PTL

(* A worker asleep over queued tasks has a push that will still notify.    *)
WorkerIsNotified ==
    popPc[Worker] = "waiting" /\ mQueue # <<>> => \E t \in Threads : pushPc[t] = "notify"

(***************************************************************************)
(* The safety half of RunsEveryTask and NotedWorkerExits: the one worker   *)
(* never sleeps over a queued task, or over the destructor's empty one,    *)
(* unless the thread that pushed is about to notify it.  The counting is   *)
(* done in NoLostWakeup, which the runner inherits from its queue.         *)
(***************************************************************************)
THEOREM RunnerWakesWorker == Spec => []WorkerIsNotified
<1>1. QP!Spec => []QP!NoLostWakeup
  BY QueueConstants, QP!QueueNoLostWakeup
<1>2. ASSUME TypeOK, QP!NoLostWakeup PROVE WorkerIsNotified
  <2>1. SUFFICES ASSUME popPc[Worker] = "waiting", mQueue # <<>>,
                        \A t \in Threads : pushPc[t] # "notify"
                 PROVE  FALSE
    BY DEF WorkerIsNotified
  <2>2. QP!Notifying = {} /\ QP!Checking = {}
    BY <2>1 DEF QP!Notifying, QP!Checking
  <2>3. QP!Cardinality({}) = 0
    BY FS_EmptySet DEF QP!Cardinality, Cardinality
  <2>4. QP!Waiting # {}
    BY <2>1 DEF QP!Waiting
  <2>5. Len(mQueue) <= 0 + 0
    BY <1>2, <2>2, <2>3, <2>4 DEF QP!NoLostWakeup
  <2>6. mQueue \in Seq(Tasks \union {Nil})
    BY <1>2 DEF TypeOK, Q!TypeOK
  <2>. QED BY <2>1, <2>5, <2>6
<1>. QED BY <1>1, <1>2, RunnerUsesQueue, RunnerTypeCorrect, PTL

-----------------------------------------------------------------------------
Destroyed == runner \in {"destroying", "destroyed"} /\ worker # "none"

(* The destructor's empty task was accepted, or as many tasks were before. *)
EmptyTaskAccepted ==
    Destroyed => \/ Len(accepted) >= Limit
                 \/ accepted # <<>> /\ accepted[Len(accepted)] = Nil

(* The worker of a destroyed runner has exited, or the empty task is       *)
(* waiting for it behind all others, or the queue may have been full.      *)
WorkerReleased ==
    Destroyed => \/ worker = "exited"
                 \/ mQueue # <<>> /\ mQueue[Len(mQueue)] = Nil
                 \/ Len(accepted) >= Limit

(* Nothing is pushed after the destructor's empty task.                    *)
LEMMA EmptyTaskAcceptedPreserved ==
    ASSUME TypeOK, QP!Fifo, IInv, EmptyTaskAccepted, [Next]_vars
    PROVE  EmptyTaskAccepted'
<1>0. accepted \in Seq(Tasks \union {Nil})
  BY DEF TypeOK, Q!TypeOK
<1>1. ASSUME NEW t \in Threads, Destroy(t) PROVE EmptyTaskAccepted'
  <2>1. CASE runner = "started" /\ Len(mQueue) < Limit
    <3>1. accepted' = Append(accepted, Nil)
      BY <1>1, <2>1 DEF Destroy, Q!Push
    <3>2. accepted' # <<>> /\ accepted'[Len(accepted')] = Nil
      BY <1>0, <3>1
    <3>. QED BY <3>2 DEF EmptyTaskAccepted
  <2>2. CASE runner = "started" /\ ~(Len(mQueue) < Limit)
    <3>1. accepted' = accepted
      BY <1>1, <2>2 DEF Destroy, Q!Push
    <3>2. /\ Len(accepted) = Len(taken) + Len(mQueue)
          /\ Len(taken) \in Nat /\ Len(mQueue) \in Nat /\ Limit \in Nat
      BY TakenIsPrefix, TaskRunnerAssumption
    <3>3. Len(accepted) >= Limit
      BY <2>2, <3>2
    <3>. QED BY <3>1, <3>3 DEF EmptyTaskAccepted
  <2>3. CASE runner # "started"
    <3>1. worker = "none" /\ worker' = worker
      BY <1>1, <2>3 DEF Destroy, IInv, Progress
    <3>. QED BY <3>1 DEF EmptyTaskAccepted, Destroyed
  <2>. QED BY <2>1, <2>2, <2>3
<1>2. ASSUME NEW t \in Threads, NEW i \in Tasks \union {Nil}, Push(t, i)
      PROVE  ~Destroyed'
  BY <1>2 DEF Push, Destroyed
<1>3. CASE Start
  BY <1>3 DEF Start, EmptyTaskAccepted, Destroyed
<1>4. CASE UNCHANGED accepted /\ (Destroyed' => Destroyed)
  BY <1>4 DEF EmptyTaskAccepted
<1>5. CASE Take \/ TaskReturns
  BY <1>4, <1>5 DEF Take, TaskReturns, Q!Pop, Destroyed
<1>. QED BY <1>1, <1>2, <1>3, <1>4, <1>5
     DEF Next, Notify, DestroyReturns, WaitPop, Block, SpuriousWake, Q!NotifyOne,
         Q!WaitPop, Q!Block, Q!SpuriousWake, vars, EmptyTaskAccepted, Destroyed

(***************************************************************************)
(* How far ~TaskRunner keeps its comment, "Notify the background thread to *)
(* terminate": a runner that was given fewer tasks than its queue's limit  *)
(* never leaves its worker behind.  The worker has exited, or the empty    *)
(* task is the last in its queue, and RunnerWakesWorker says that it does  *)
(* not sleep over it.                                                      *)
(***************************************************************************)
THEOREM RunnerReleasesWorker == Spec => []WorkerReleased
<1>1. Init => EmptyTaskAccepted
  BY DEF Init, EmptyTaskAccepted, Destroyed
<1>2. TypeOK /\ QP!Fifo /\ IInv /\ EmptyTaskAccepted /\ [Next]_vars => EmptyTaskAccepted'
  BY EmptyTaskAcceptedPreserved
<1>3. ASSUME TypeOK, QP!Fifo, IInv, EmptyTaskAccepted PROVE WorkerReleased
  <2>. SUFFICES ASSUME Destroyed, worker # "exited", ~(Len(accepted) >= Limit)
                PROVE  mQueue # <<>> /\ mQueue[Len(mQueue)] = Nil
    BY DEF WorkerReleased
  <2>1. accepted # <<>> /\ accepted[Len(accepted)] = Nil
    BY <1>3 DEF EmptyTaskAccepted
  <2>2. /\ Len(accepted) = Len(taken) + Len(mQueue)
        /\ Len(taken) \in Nat /\ Len(mQueue) \in Nat
        /\ \A k \in 1..Len(taken) : taken[k] = accepted[k]
        /\ \A k \in 1..Len(mQueue) : mQueue[k] = accepted[Len(taken) + k]
    BY <1>3, TakenIsPrefix DEF QP!Fifo
  <2>3. accepted \in Seq(Tasks \union {Nil}) /\ mQueue \in Seq(Tasks \union {Nil})
    BY <1>3 DEF TypeOK, Q!TypeOK
  <2>4. Len(accepted) # 0
    BY <2>1, <2>3
  <2>5. Len(mQueue) # 0
    <3>. SUFFICES ASSUME Len(mQueue) = 0 PROVE FALSE
      OBVIOUS
    <3>1. Len(taken) = Len(accepted) /\ Len(taken) \in 1..Len(taken)
      BY <2>2, <2>4
    <3>2. taken[Len(taken)] # Nil
      BY <1>3, <3>1 DEF IInv, Progress
    <3>. QED BY <2>1, <2>2, <3>1, <3>2
  <2>6. Len(mQueue) \in 1..Len(mQueue)
    BY <2>2, <2>5
  <2>7. mQueue[Len(mQueue)] = accepted[Len(accepted)]
    BY <2>2, <2>6
  <2>. QED BY <2>1, <2>3, <2>5, <2>7
<1>. QED BY <1>1, <1>2, <1>3, InductiveInvariant, PTL DEF Spec

-----------------------------------------------------------------------------
(* Submitted is accepted without the destructor's empty task.              *)
LEMMA SubmittedOf ==
    ASSUME TypeOK
    PROVE  /\ Len(Submitted) \in Nat
           /\ \A k \in 1..Len(Submitted) : Submitted[k] = accepted[k]
           /\ (accepted # <<>> /\ accepted[Len(accepted)] = Nil) =>
                  Len(accepted) = Len(Submitted) + 1
           /\ ~(accepted # <<>> /\ accepted[Len(accepted)] = Nil) =>
                  Submitted = accepted
<1>0. accepted \in Seq(Tasks \union {Nil}) BY DEF TypeOK, Q!TypeOK
<1>1. CASE accepted # <<>> /\ accepted[Len(accepted)] = Nil
  <2>1. Submitted = SubSeq(accepted, 1, Len(accepted) - 1) BY <1>1 DEF Submitted
  <2>2. Len(accepted) \in Nat /\ Len(accepted) >= 1 BY <1>0, <1>1
  <2>3. /\ Len(Submitted) = Len(accepted) - 1
        /\ \A k \in 1..Len(Submitted) : Submitted[k] = accepted[k]
    <3>1. PICK n \in Nat : n = Len(accepted) - 1 BY <2>2
    <3>2. \A k \in 1..n : accepted[k] \in Tasks \union {Nil} BY <1>0, <3>1
    <3>3. /\ Len(SubSeq(accepted, 1, n)) = n
          /\ \A k \in 1..n : SubSeq(accepted, 1, n)[k] = accepted[k]
      <4>1. /\ Len(SubSeq(accepted, 1, n)) = IF 1 <= n THEN n - 1 + 1 ELSE 0
            /\ \A k \in 1..(n - 1 + 1) : SubSeq(accepted, 1, n)[k] = accepted[1 + k - 1]
        BY <3>2, SubSeqProperties
      <4>. QED BY <4>1
    <3>. QED BY <2>1, <3>1, <3>3
  <2>. QED BY <1>1, <2>2, <2>3
<1>2. CASE ~(accepted # <<>> /\ accepted[Len(accepted)] = Nil)
  BY <1>0, <1>2 DEF Submitted
<1>. QED BY <1>1, <1>2

(* Before the destructor runs nothing accepted is empty, and the worker    *)
(* has not exited.                                                         *)
LEMMA BeforeDestruction ==
    ASSUME TypeOK, QP!Fifo, IInv, runner \in {"created", "started"}
    PROVE  /\ Submitted = accepted
           /\ worker # "exited"
<1>0. /\ accepted \in Seq(Tasks \union {Nil}) /\ taken \in Seq(Tasks \union {Nil})
  BY DEF TypeOK, Q!TypeOK
<1>1. \A k \in 1..Len(accepted) : accepted[k] # Nil BY DEF IInv, NilLast
<1>2. Submitted = accepted BY <1>0, <1>1 DEF Submitted
<1>3. ASSUME worker = "exited" PROVE FALSE
  <2>1. taken # <<>> /\ taken[Len(taken)] = Nil BY <1>3 DEF IInv, Progress
  <2>2. Len(taken) \in 1..Len(taken) BY <1>0, <2>1
  <2>. QED BY <1>1, <2>1, <2>2, TakenIsPrefix
<1>. QED BY <1>2, <1>3

LEMMA PushSubmits ==
    ASSUME TypeOK, QP!Fifo, IInv,
           NEW t \in Threads, NEW i \in Tasks \union {Nil}, Push(t, i)
    PROVE  [Abs!Next]_(Abs!vars)
<1>0. accepted \in Seq(Tasks \union {Nil}) BY DEF TypeOK, Q!TypeOK
<1>1. /\ runner = "started" /\ i # Nil /\ ran' = ran /\ worker' = worker
  BY DEF Push
<1>2. Phase' = Phase BY <1>1 DEF Phase
<1>3. Submitted = accepted /\ worker # "exited" BY <1>1, BeforeDestruction
<1>4. CASE accepted' = accepted
  BY <1>1, <1>2, <1>4 DEF Submitted, Abs!vars
<1>5. CASE accepted' = Append(accepted, i)
  <2>1. accepted'[Len(accepted')] = i BY <1>0, <1>5
  <2>2. Submitted' = Append(Submitted, i)
    BY <1>1, <1>3, <1>5, <2>1 DEF Submitted
  <2>3. Phase # "stopped" BY <1>3 DEF Phase
  <2>4. Abs!Submit(i) BY <1>1, <1>2, <2>2, <2>3 DEF Abs!Submit
  <2>. QED BY <1>1, <2>4 DEF Abs!Next
<1>. QED BY <1>4, <1>5 DEF Push, Q!Push

LEMMA DestroyStutters ==
    ASSUME TypeOK, QP!Fifo, IInv, NEW t \in Threads, Destroy(t)
    PROVE  UNCHANGED Abs!vars
<1>0. accepted \in Seq(Tasks \union {Nil}) BY DEF TypeOK, Q!TypeOK
<1>1. ran' = ran /\ worker' = worker /\ runner \in {"created", "started"}
  BY DEF Destroy
<1>2. Phase' = Phase BY <1>1 DEF Phase
<1>3. Submitted = accepted BY <1>1, BeforeDestruction
<1>4. CASE accepted' = accepted BY <1>1, <1>2, <1>4 DEF Submitted, Abs!vars
<1>5. CASE accepted' = Append(accepted, Nil)
  <2>1. /\ accepted' # <<>> /\ accepted'[Len(accepted')] = Nil
        /\ Len(accepted') = Len(accepted) + 1
    BY <1>0, <1>5
  <2>2. Submitted' = SubSeq(accepted', 1, Len(accepted') - 1)
    BY <2>1 DEF Submitted
  <2>3. Len(accepted') - 1 = Len(accepted) BY <1>0, <2>1
  <2>4. SubSeq(Append(accepted, Nil), 1, Len(accepted)) = accepted BY <1>0
  <2>5. Submitted' = Submitted BY <1>3, <1>5, <2>2, <2>3, <2>4
  <2>. QED BY <1>1, <1>2, <2>5 DEF Abs!vars
<1>. QED BY <1>4, <1>5 DEF Destroy, Q!Push

(* A popped task is the next one submitted; a popped empty task means that *)
(* all of them have been run.                                              *)
LEMMA TakeBeginsOrStops ==
    ASSUME TypeOK, QP!Fifo, IInv, Take
    PROVE  Abs!Begin \/ Abs!Stop
<1>0. /\ accepted \in Seq(Tasks \union {Nil}) /\ taken \in Seq(Tasks \union {Nil})
      /\ ran \in Seq(Tasks)
  BY DEF TypeOK, Q!TypeOK
<1>1. /\ worker = "loop" /\ mQueue # <<>> /\ ran' = ran /\ accepted' = accepted
      /\ worker' = IF Head(mQueue) = Nil THEN "exited" ELSE "running"
  BY DEF Take, Q!Pop
<1>2. Submitted' = Submitted BY <1>1 DEF Submitted
<1>3. /\ Head(mQueue) = accepted[Len(ran) + 1]
      /\ Len(ran) + 1 \in 1..Len(accepted) /\ Len(ran) \in Nat
  BY <1>0, <1>1, TakenIsPrefix DEF IInv, Progress
<1>4. Len(accepted) \in Nat /\ accepted # <<>> BY <1>0, <1>3
<1>5. CASE Head(mQueue) = Nil
  <2>1. Len(ran) + 1 = Len(accepted) BY <1>3, <1>5 DEF IInv, NilLast
  <2>2. Len(ran) = Len(Submitted) BY <1>3, <1>4, <1>5, <2>1, SubmittedOf
  <2>3. Phase = "idle" /\ Phase' = "stopped" BY <1>1, <1>5 DEF Phase
  <2>. QED BY <1>1, <1>2, <2>2, <2>3 DEF Abs!Stop
<1>6. CASE Head(mQueue) # Nil
  <2>1. Len(ran) < Len(Submitted)
    <3>1. CASE accepted[Len(accepted)] = Nil
      <4>1. Len(ran) + 1 # Len(accepted) BY <1>3, <1>6, <3>1
      <4>. QED BY <1>3, <1>4, <3>1, <4>1, SubmittedOf
    <3>2. CASE accepted[Len(accepted)] # Nil
      BY <1>3, <1>4, <3>2, SubmittedOf
    <3>. QED BY <3>1, <3>2
  <2>2. Phase = "idle" /\ Phase' = "busy" BY <1>1, <1>6 DEF Phase
  <2>. QED BY <1>1, <1>2, <2>1, <2>2 DEF Abs!Begin
<1>. QED BY <1>5, <1>6

LEMMA TaskReturnsFinishes ==
    ASSUME TypeOK, QP!Fifo, IInv, TaskReturns
    PROVE  Abs!Finish
<1>0. /\ accepted \in Seq(Tasks \union {Nil}) /\ taken \in Seq(Tasks \union {Nil})
      /\ ran \in Seq(Tasks)
  BY DEF TypeOK, Q!TypeOK
<1>1. /\ worker = "running" /\ worker' = "loop" /\ accepted' = accepted
      /\ ran' = Append(ran, nextTask)
  BY DEF TaskReturns
<1>2. /\ nextTask = taken[Len(ran) + 1] /\ Len(taken) = Len(ran) + 1
      /\ Len(ran) \in Nat /\ Len(ran) + 1 \in 1..Len(taken)
  BY <1>0, <1>1 DEF IInv, Progress
<1>3. /\ nextTask = accepted[Len(ran) + 1] /\ Len(ran) + 1 \in 1..Len(accepted)
  BY <1>2, TakenIsPrefix
<1>4. nextTask # Nil BY <1>1, TaskRunnerAssumption DEF TypeOK, TaskRunnerAssumption
<1>5. Len(ran) + 1 \in 1..Len(Submitted)
  <2>1. Len(accepted) \in Nat /\ accepted # <<>> BY <1>0, <1>3
  <2>2. CASE accepted[Len(accepted)] = Nil
    <3>1. Len(ran) + 1 # Len(accepted) BY <1>3, <1>4, <2>2
    <3>. QED BY <1>2, <1>3, <2>1, <2>2, <3>1, SubmittedOf
  <2>3. CASE accepted[Len(accepted)] # Nil
    BY <1>2, <1>3, <2>1, <2>3, SubmittedOf
  <2>. QED BY <2>2, <2>3
<1>6. nextTask = Submitted[Len(ran) + 1] BY <1>3, <1>5, SubmittedOf
<1>7. Phase = "busy" /\ Phase' = "idle" /\ Submitted' = Submitted
  BY <1>1 DEF Phase, Submitted
<1>. QED BY <1>1, <1>6, <1>7 DEF Abs!Finish

(* TaskRunner implements SerialExecutor: tasks run one at a time, in the   *)
(* order accepted, each once, and the worker stops only after the last.    *)
THEOREM RunnerRunsSerially == Spec => RunsSerially
<1>1. Init => Abs!Init
  BY DEF Init, Q!Init, Abs!Init, Submitted, Phase
<1>2. TypeOK /\ QP!Fifo /\ IInv /\ [Next]_vars => [Abs!Next]_(Abs!vars)
  <2>. SUFFICES ASSUME TypeOK, QP!Fifo, IInv, [Next]_vars
                PROVE  [Abs!Next]_(Abs!vars)
    OBVIOUS
  <2>1. ASSUME NEW t \in Threads, NEW i \in Tasks \union {Nil}, Push(t, i)
        PROVE  [Abs!Next]_(Abs!vars)
    BY <2>1, PushSubmits
  <2>2. ASSUME NEW t \in Threads, Destroy(t) PROVE [Abs!Next]_(Abs!vars)
    BY <2>2, DestroyStutters
  <2>3. CASE Take BY <2>3, TakeBeginsOrStops DEF Abs!Next
  <2>4. CASE TaskReturns BY <2>4, TaskReturnsFinishes DEF Abs!Next
  <2>5. CASE Start
    <3>1. worker = "none" BY <2>5 DEF Start, IInv, Progress
    <3>. QED BY <2>5, <3>1 DEF Start, Submitted, Phase, Abs!vars
  <2>6. CASE UNCHANGED <<accepted, ran, worker>>
    BY <2>6 DEF Submitted, Phase, Abs!vars
  <2>. QED BY <2>1, <2>2, <2>3, <2>4, <2>5, <2>6
       DEF Next, Notify, DestroyReturns, WaitPop, Block, SpuriousWake,
           Q!NotifyOne, Q!WaitPop, Q!Block, Q!SpuriousWake, vars
<1>. QED BY <1>1, <1>2, InductiveInvariant, PTL DEF Spec, Abs!Spec, RunsSerially
==============================================================================
