---------------------------- MODULE SerialExecutor ----------------------------
(***************************************************************************)
(* What TaskRunner promises its clients (base/include/hidl/TaskRunner.h):  *)
(* "a background infinite loop that runs the Tasks push()'ed, equivalent   *)
(* to a simple single-threaded Looper", whose tasks "continue to be done   *)
(* sequentially in background until all tasks are finished".               *)
(*                                                                         *)
(* There is no queue, no thread and no condition variable here.            *)
(***************************************************************************)
EXTENDS Naturals, Sequences

CONSTANT Tasks

VARIABLES submitted,   \* the tasks whose push() returned true, in order
          ran,         \* the tasks that have been run to completion, in order
          phase        \* "idle", "busy" with the next task, or "stopped"

vars == <<submitted, ran, phase>>

Init ==
    /\ submitted = <<>>
    /\ ran = <<>>
    /\ phase = "idle"

(* A task is accepted, also while another one runs.                        *)
Submit(t) ==
    /\ phase # "stopped"
    /\ submitted' = Append(submitted, t)
    /\ UNCHANGED <<ran, phase>>

(* The oldest task not yet run is begun: one at a time.                    *)
Begin ==
    /\ phase = "idle"
    /\ Len(ran) < Len(submitted)
    /\ phase' = "busy"
    /\ UNCHANGED <<submitted, ran>>

Finish ==
    /\ phase = "busy"
    /\ ran' = Append(ran, submitted[Len(ran) + 1])
    /\ phase' = "idle"
    /\ UNCHANGED submitted

(* The loop ends only once every accepted task has been run.               *)
Stop ==
    /\ phase = "idle"
    /\ Len(ran) = Len(submitted)
    /\ phase' = "stopped"
    /\ UNCHANGED <<submitted, ran>>

Next == Begin \/ Finish \/ Stop \/ \E t \in Tasks : Submit(t)

Spec == Init /\ [][Next]_vars

(* Every accepted task is eventually begun and finished.                   *)
FairSpec == Spec /\ WF_vars(Begin) /\ WF_vars(Finish)
==============================================================================
