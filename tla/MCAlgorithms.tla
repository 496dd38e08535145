----------------------------- MODULE MCAlgorithms -----------------------------
(***************************************************************************)
(* The sequential algorithms on all small inputs.  They share no state, so *)
(* a behaviour runs one of them, named by algorithm, and the others keep   *)
(* one fixed input.                                                        *)
(***************************************************************************)
EXTENDS MQDescriptor, HidlArray, Instrumentor, HidlTransportSupport,
        PassthroughManager, ParcelReferences, ParcelValues

VARIABLE algorithm

Algorithms == {"queue", "array", "instrumentation", "policy", "passthrough",
               "references", "values"}

algorithmVars == <<algorithm, queueVars, arrayVars, instrumentVars, policyVars,
                   passthroughVars, referenceVars, valueParcelVars>>

MCShapes == {<<3>>, <<2, 3>>, <<3, 1, 2>>, <<2, 3, 2>>}
MCErrors == {-32}       \* DEAD_OBJECT
MCExceptions == {-1}    \* EX_SECURITY

MCInit ==
    /\ algorithm \in Algorithms
    /\ QueueInit /\ PolicyInit /\ ParcelInit
    /\ ArrayInit /\ (algorithm # "array" => shape = <<3>>)
    /\ InstrumentInit
    /\ algorithm # "instrumentation" => directories = <<Missing>> /\ ~property
    /\ PassthroughInit
    /\ algorithm # "passthrough" =>
          /\ dirOf = [l \in Impls |-> 1]
          /\ kind = [l \in Impls |-> "hasIt"]
    /\ ReferenceInit
    /\ algorithm # "references" =>
          root = NullRef /\ \A c \in DOMAIN heap : heap[c] = NullRef

(* The algorithms that do not run.                                         *)
Rest ==
    /\ algorithm # "queue" => UNCHANGED queueVars
    /\ algorithm # "array" => UNCHANGED arrayVars
    /\ algorithm # "instrumentation" => UNCHANGED instrumentVars
    /\ algorithm # "policy" => UNCHANGED policyVars
    /\ algorithm # "passthrough" => UNCHANGED passthroughVars
    /\ algorithm # "references" => UNCHANGED referenceVars
    /\ algorithm # "values" => UNCHANGED valueParcelVars

MCNext ==
    /\ \/ algorithm = "queue" /\ QueueNext
       \/ algorithm = "array" /\ ArrayNext
       \/ algorithm = "instrumentation" /\ InstrumentNext
       \/ algorithm = "policy" /\ PolicyNext
       \/ algorithm = "passthrough" /\ PassthroughNext
       \/ algorithm = "references" /\ ReferenceNext
       \/ algorithm = "values" /\ ParcelNext
    /\ Rest
    /\ UNCHANGED algorithm

MCSpec == MCInit /\ [][MCNext]_algorithmVars
==============================================================================
