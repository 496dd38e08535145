------------------------- MODULE HidlTransportSupport -------------------------
(***************************************************************************)
(* setMinSchedulerPolicy() (transport/HidlTransportSupport.cpp): records   *)
(* the scheduling policy of a service in gServicePrioMap.                  *)
(***************************************************************************)
EXTENDS Integers

VARIABLES gServicePrioMap,   \* the policy and priority set, or the default
          request            \* the last request and what was returned

policyVars == <<gServicePrioMap, request>>

Policies == {"SCHED_NORMAL", "SCHED_FIFO", "SCHED_RR", "SCHED_BATCH"}

(* Both sides of every limit.                                              *)
Priorities == {-21, -20, -1, 0, 1, 19, 20, 99, 100}

PolicyInit ==
    gServicePrioMap = <<"default", 0>> /\ request = [policy |-> "none"]

(* The tests on the arguments, in their order: a priority of SCHED_NORMAL  *)
(* that passes the first range test goes on to the second one.             *)
ArgumentsValid(remote, policy, priority) ==
    /\ ~remote
    /\ policy \in {"SCHED_NORMAL", "SCHED_FIFO", "SCHED_RR"}
    /\ ~(policy = "SCHED_NORMAL" /\ (priority < -20 \/ priority > 19))
    /\ ~(priority < 1 \/ priority > 99)

setMinSchedulerPolicy(remote, policy, priority) ==
    /\ request' = [remote |-> remote, policy |-> policy, priority |-> priority,
                   result |-> ArgumentsValid(remote, policy, priority)]
    /\ gServicePrioMap' = IF ArgumentsValid(remote, policy, priority)
                          THEN <<policy, priority>> ELSE gServicePrioMap

PolicyNext ==
    \E remote \in BOOLEAN, policy \in Policies, priority \in Priorities :
        setMinSchedulerPolicy(remote, policy, priority)

-----------------------------------------------------------------------------
(***************************************************************************)
(* "priority. [-20..19] for SCHED_NORMAL, [1..99] for RT"                  *)
(* (HidlTransportSupport.h): setMinSchedulerPolicy() accepts exactly these *)
(* for a service that is not remote.                                       *)
(***************************************************************************)
DocumentedPrioritiesAccepted ==
    request.policy # "none" =>
        (request.result <=>
            /\ ~request.remote
            /\ \/ request.policy = "SCHED_NORMAL" /\ request.priority \in -20..19
               \/ request.policy \in {"SCHED_FIFO", "SCHED_RR"}
                  /\ request.priority \in 1..99)
==============================================================================
