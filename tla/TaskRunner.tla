------------------------------ MODULE TaskRunner ------------------------------
(***************************************************************************)
(* TaskRunner of base/TaskRunner.cpp: a detached worker thread that pops   *)
(* tasks from a SynchronizedQueue and runs them until it pops an empty     *)
(* one (nullptr), which only the destructor pushes.                        *)
(*                                                                         *)
(* The queue is the one of module SynchronizedQueue.  It is held by two    *)
(* shared_ptrs, the runner's member mQueue and the worker's capture q.     *)
(* Any client thread may push, and so may the task the worker is running;  *)
(* either may destroy the runner.  Clients obey the lifetime rules of C++: *)
(* start() is called once, and the destructor runs when no other thread    *)
(* is inside a call on the object.                                         *)
(***************************************************************************)
EXTENDS Naturals, Sequences, FiniteSets

CONSTANTS Clients,    \* threads that use the runner
          Worker,     \* the thread start() detaches
          Tasks,      \* callable std::functions
          Nil,        \* the std::function without a target
          Limit,      \* the argument of start()
          MaxTasks    \* bound on the tasks accepted (TLC only)

Threads == Clients \union {Worker}

ASSUME TaskRunnerAssumption ==
    /\ Worker \notin Clients
    /\ Nil \notin Tasks
    /\ IsFiniteSet(Clients)
    /\ Limit \in Nat
    /\ MaxTasks \in Nat

VARIABLES mQueue, pushPc, popPc, accepted, taken,   \* the queue
          runner,      \* "created", "started", "destroying" or "destroyed"
          worker,      \* "none", "loop", "running" or "exited"
          nextTask,    \* the local variable of the worker's lambda
          destroyer,   \* the thread inside ~TaskRunner
          ran          \* history: the tasks that were run to completion

Q == INSTANCE SynchronizedQueue
         WITH Producers <- Threads, Consumers <- {Worker},
              Items <- Tasks \union {Nil}, MaxAccepted <- MaxTasks + 1

vars == <<mQueue, pushPc, popPc, accepted, taken,
          runner, worker, nextTask, destroyer, ran>>

Init ==
    /\ Q!Init
    /\ runner = "created"
    /\ worker = "none"
    /\ nextTask = Nil
    /\ destroyer = Worker
    /\ ran = <<>>

(* A thread that can make a call: the worker only from inside a task.      *)
CanCall(t) == pushPc[t] = "idle" /\ (t = Worker => worker = "running")

-----------------------------------------------------------------------------
(***************************************************************************)
(* Plausible bugs, used only to show that the properties can fail.         *)
(***************************************************************************)
PushUnchecked(t, i) ==
    /\ runner = "started"
    /\ CanCall(t)
    /\ Len(accepted) < MaxTasks
    /\ Q!Push(t, i)
    /\ UNCHANGED <<runner, worker, nextTask, destroyer, ran>>

StopWhenRunnerGone ==
    /\ worker = "running"
    /\ pushPc[Worker] = "idle"
    /\ worker' = IF runner = "started" THEN "loop" ELSE "exited"
    /\ ran' = Append(ran, nextTask)
    /\ UNCHANGED <<mQueue, pushPc, popPc, accepted, taken,
                   runner, nextTask, destroyer>>

DestroyReleasesFirst(t) ==
    /\ runner \in {"created", "started"}
    /\ CanCall(t)
    /\ \A u \in Threads : pushPc[u] = "idle"
    /\ destroyer' = t
    /\ runner' = "destroyed"
    /\ IF runner = "started"
         THEN Q!Push(t, Nil)
         ELSE UNCHANGED <<mQueue, pushPc, popPc, accepted, taken>>
    /\ UNCHANGED <<worker, nextTask, ran>>

DestroySilently(t) ==
    /\ runner = "destroying"
    /\ t = destroyer
    /\ pushPc' = [pushPc EXCEPT ![t] = "idle"]
    /\ runner' = "destroyed"
    /\ UNCHANGED <<mQueue, popPc, accepted, taken, worker, nextTask, destroyer, ran>>

PushSilently(t) ==
    /\ runner # "destroying"
    /\ pushPc[t] = "notify"
    /\ pushPc' = [pushPc EXCEPT ![t] = "idle"]
    /\ UNCHANGED <<mQueue, popPc, accepted, taken,
                   runner, worker, nextTask, destroyer, ran>>

-----------------------------------------------------------------------------
(* start(limit): a queue of that limit and a detached worker.  Before it,  *)
(* push() finds mQueue null and returns false.                             *)
Start ==
    /\ runner = "created"
    /\ runner' = "started"
    /\ worker' = "loop"
    /\ UNCHANGED <<mQueue, pushPc, popPc, accepted, taken,
                   nextTask, destroyer, ran>>

(* push(t) up to the unlock of the queue's mutex; a task without a target  *)
(* is refused before the queue is touched.                                 *)
Push(t, i) ==
    /\ runner = "started"
    /\ CanCall(t)
    /\ i # Nil
    /\ Len(accepted) < MaxTasks
    /\ Q!Push(t, i)
    /\ UNCHANGED <<runner, worker, nextTask, destroyer, ran>>

(* The rest of push(): notify the worker and return.                       *)
Notify(t) ==
    /\ runner # "destroying"
    /\ Q!NotifyOne(t)
    /\ UNCHANGED <<runner, worker, nextTask, destroyer, ran>>

(* ~TaskRunner: an empty task is pushed if start() was ever called; the    *)
(* result of the push is not looked at.                                    *)
Destroy(t) ==
    /\ runner \in {"created", "started"}
    /\ CanCall(t)
    /\ \A u \in Threads : pushPc[u] = "idle"
    /\ destroyer' = t
    /\ IF runner = "started"
         THEN Q!Push(t, Nil) /\ runner' = "destroying"
         ELSE /\ runner' = "destroyed"
              /\ UNCHANGED <<mQueue, pushPc, popPc, accepted, taken>>
    /\ UNCHANGED <<worker, nextTask, ran>>

(* The rest of ~TaskRunner: notify, then release the member mQueue.        *)
DestroyReturns(t) ==
    /\ runner = "destroying"
    /\ t = destroyer
    /\ Q!NotifyOne(t)
    /\ runner' = "destroyed"
    /\ UNCHANGED <<worker, nextTask, destroyer, ran>>

(* The worker's loop calls q->wait_pop().                                  *)
WaitPop ==
    /\ worker = "loop"
    /\ Q!WaitPop(Worker)
    /\ UNCHANGED <<runner, worker, nextTask, destroyer, ran>>

Block ==
    /\ worker = "loop"
    /\ Q!Block(Worker)
    /\ UNCHANGED <<runner, worker, nextTask, destroyer, ran>>

SpuriousWake ==
    /\ worker = "loop"
    /\ Q!SpuriousWake(Worker)
    /\ UNCHANGED <<runner, worker, nextTask, destroyer, ran>>

(* wait_pop() returns: the loop ends on an empty task.                     *)
Take ==
    /\ worker = "loop"
    /\ Q!Pop(Worker)
    /\ nextTask' = Head(mQueue)
    /\ worker' = IF Head(mQueue) = Nil THEN "exited" ELSE "running"
    /\ UNCHANGED <<runner, destroyer, ran>>

(* nextTask() returns.                                                     *)
TaskReturns ==
    /\ worker = "running"
    /\ pushPc[Worker] = "idle"
    /\ worker' = "loop"
    /\ ran' = Append(ran, nextTask)
    /\ UNCHANGED <<mQueue, pushPc, popPc, accepted, taken,
                   runner, nextTask, destroyer>>

Next ==
    \/ Start
    \/ \E t \in Threads, i \in Tasks \union {Nil} : Push(t, i)
    \/ \E t \in Threads : Notify(t) \/ Destroy(t) \/ DestroyReturns(t)
    \/ WaitPop \/ Block \/ SpuriousWake \/ Take \/ TaskReturns

(* The scheduler runs the worker and every thread inside a call, and every *)
(* task returns.  Nobody owes the runner a push or its destruction.        *)
Fairness ==
    /\ \A t \in Threads : WF_vars(Notify(t) \/ DestroyReturns(t))
    /\ WF_vars(WaitPop \/ Block \/ Take)
    /\ WF_vars(TaskReturns)

Spec == Init /\ [][Next]_vars

FairSpec == Spec /\ Fairness

-----------------------------------------------------------------------------
(* The state variables hold values of their C++ types; in particular the   *)
(* worker never calls an empty std::function.                              *)
TypeOK ==
    /\ Q!TypeOK
    /\ runner \in {"created", "started", "destroying", "destroyed"}
    /\ worker \in {"none", "loop", "running", "exited"}
    /\ nextTask \in Tasks \union {Nil}
    /\ worker = "running" => nextTask \in Tasks
    /\ destroyer \in Threads
    /\ ran \in Seq(Tasks)

(* The worker exits only with nothing left behind: no task that push()     *)
(* accepted is still in the queue ("until all tasks are finished").        *)
NoTaskStranded == worker = "exited" => mQueue = <<>>

(* The queue is alive while a thread is inside one of its operations: the  *)
(* runner or the worker still holds a shared_ptr to it, also when the      *)
(* worker pops the empty task before the destructor has notified.          *)
QueueOutlivesCalls ==
    (\/ \E t \in Threads : pushPc[t] = "notify"
     \/ popPc[Worker] # "outside")
        => \/ runner \in {"started", "destroying"}
           \/ worker \in {"loop", "running"}

(* The tasks accepted: the empty task of the destructor, always last, is   *)
(* not one of them.                                                        *)
Submitted ==
    IF accepted # <<>> /\ accepted[Len(accepted)] = Nil
      THEN SubSeq(accepted, 1, Len(accepted) - 1)
      ELSE accepted

Phase ==
    IF worker = "running" THEN "busy"
    ELSE IF worker = "exited" THEN "stopped" ELSE "idle"

Abs == INSTANCE SerialExecutor WITH submitted <- Submitted, phase <- Phase

(* The runner is a serial executor: tasks run one at a time, in the order  *)
(* they were accepted, each exactly once, and the loop ends only when all  *)
(* of them have been run.                                                  *)
RunsSerially == Abs!Spec

(* It is also a live one: every accepted task is eventually run, whether   *)
(* or not the runner is destroyed meanwhile.                               *)
RunsEveryTask == Abs!FairSpec

(* Once the empty task is queued the worker terminates.                    *)
NotedWorkerExits ==
    (\E k \in 1..Len(mQueue) : mQueue[k] = Nil) ~> (worker = "exited")

(* The comment on ~TaskRunner: "Notify the background thread to terminate  *)
(* and return immediately."  Refuted when the queue is full at that        *)
(* moment, because push(nullptr) is refused like any other push.           *)
DestroyedWorkerExits ==
    (runner = "destroyed" /\ worker # "none") ~> (worker = "exited")
==============================================================================
