----------------------------- MODULE MCValueTypes -----------------------------
(***************************************************************************)
(* The value classes of base/ on small instances: hidl_vec, hidl_handle    *)
(* with MQDescriptor, hidl_string, Return<T>, and hidl_memory with its     *)
(* allocator and mapper.  They share no state, so a behaviour uses the     *)
(* objects of one class, named by class.                                   *)
(***************************************************************************)
EXTENDS HidlVec, HidlHandle, HidlString, ReturnStatus,
        SharedMemory, TLC

VARIABLE class

valueVars == <<class, vars, handleVars, stringVars, statusVars,
              memoryVars>>

MCInit ==
    /\ class \in {"vec", "handle", "string", "status", "memory"}
    /\ Init /\ HandleInit /\ StringInit /\ StatusInit /\ MemoryInit

MCNext ==
    /\ \/ /\ class = "vec" /\ Next
          /\ UNCHANGED <<handleVars, stringVars, statusVars, memoryVars>>
       \/ /\ class = "handle" /\ HandleNext
          /\ UNCHANGED <<vars, stringVars, statusVars, memoryVars>>
       \/ /\ class = "string" /\ StringNext
          /\ UNCHANGED <<vars, handleVars, statusVars, memoryVars>>
       \/ /\ class = "status" /\ StatusNext
          /\ UNCHANGED <<vars, handleVars, stringVars, memoryVars>>
       \/ /\ class = "memory" /\ MemoryNext
          /\ UNCHANGED <<vars, handleVars, stringVars, statusVars>>
    /\ UNCHANGED class

MCSpec == MCInit /\ [][MCNext]_valueVars

(* The classes are given the same objects and addresses in the cfg, so two *)
(* small groups of permutations serve them all.                            *)
Symmetry == Permutations(Vecs) \union Permutations(Buffers)

MCTexts == {<<>>, <<"a">>, <<"a", "b">>}
==============================================================================
