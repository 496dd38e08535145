----------------------------- MODULE Instrumentor -----------------------------
(***************************************************************************)
(* HidlInstrumentor (base/HidlInternal.cpp) in a debuggable build:         *)
(* configureInstrumentation() follows the property                         *)
(* hal.instrumentation.enable, and registerInstrumentationCallbacks()      *)
(* loads the profiler libraries of an interface.                           *)
(*                                                                         *)
(* A directory is a set of profiler libraries, or Missing if it cannot be  *)
(* opened; the order of files in a directory is the file system's.  A      *)
(* library may fail to load or lack the function for the interface.  Other *)
(* files and the spelling of the function's name are left out.             *)
(***************************************************************************)
EXTENDS Naturals, Sequences, FiniteSets, SequencesExt

CONSTANTS Libraries,   \* profiler libraries of the package
          Usable,      \* the ones that load and have the function
          Missing,     \* a directory that does not exist
          LibPaths     \* directories searched without the property, 4

ASSUME InstrumentorAssumption == IsFiniteSet(Libraries) /\ LibPaths \in Nat

VARIABLES directories,  \* the instrumentationLibPaths, in the order searched
          property,     \* hal.instrumentation.enable
          mEnableInstrumentation,
          mInstrumentationCallbacks

instrumentVars == <<directories, property, mEnableInstrumentation,
                    mInstrumentationCallbacks>>

(* The property hal.instrumentation.lib.path gives one directory, else     *)
(* the fixed ones are searched.  A library lies in one of them.            *)
InstrumentInit ==
    /\ directories \in
          UNION {[1..n -> (SUBSET Libraries) \union {Missing}] : n \in {1, LibPaths}}
    /\ \A i, j \in DOMAIN directories :
          i # j /\ Missing \notin {directories[i], directories[j]}
              => directories[i] \cap directories[j] = {}
    /\ property \in BOOLEAN
    /\ mEnableInstrumentation = FALSE
    /\ mInstrumentationCallbacks = <<>>

Elements(s) == {s[i] : i \in DOMAIN s}

(* Plausible bugs, used only to show that the properties can fail.         *)
CallbacksKept(callbacks) == callbacks

-----------------------------------------------------------------------------
(* The directories read: the search ends at the first that is missing.     *)
Searched == {i \in DOMAIN directories : \A j \in 1..i : directories[j] # Missing}

(* What registerInstrumentationCallbacks() can append, directory by        *)
(* directory and in any order within one.                                  *)
Registrations ==
    {s \in SetToSeqs((UNION {directories[i] : i \in Searched}) \cap Usable) :
        \A i, j \in DOMAIN s : \A d, e \in Searched :
            i < j /\ s[i] \in directories[d] /\ s[j] \in directories[e] => d <= e}

(* mInstrumentationCallbacks.clear().                                      *)
ClearedCallbacks(callbacks) == <<>>

(* configureInstrumentation(), from the constructor and from               *)
(* setHALInstrumentation().                                                *)
configureInstrumentation ==
    /\ property # mEnableInstrumentation
    /\ mEnableInstrumentation' = property
    /\ IF property
       THEN \E s \in Registrations :
               mInstrumentationCallbacks' = mInstrumentationCallbacks \o s
       ELSE mInstrumentationCallbacks' = ClearedCallbacks(mInstrumentationCallbacks)
    /\ UNCHANGED <<directories, property>>

SetProperty ==
    /\ property' = ~property
    /\ UNCHANGED <<directories, mEnableInstrumentation, mInstrumentationCallbacks>>

InstrumentNext == configureInstrumentation \/ SetProperty

InstrumentSpec == InstrumentInit /\ [][InstrumentNext]_instrumentVars

-----------------------------------------------------------------------------
(***************************************************************************)
(* However often instrumentation is switched on and off, a disabled        *)
(* instrumentor has no callback, and an enabled one calls the function of  *)
(* each usable library exactly once, for the libraries in the directories  *)
(* before the first missing one.                                           *)
(***************************************************************************)
CallbacksOnce ==
    /\ ~mEnableInstrumentation => mInstrumentationCallbacks = <<>>
    /\ mEnableInstrumentation =>
          /\ Len(mInstrumentationCallbacks) = Cardinality(Elements(mInstrumentationCallbacks))
          /\ \A l \in Usable :
                l \in Elements(mInstrumentationCallbacks) <=>
                    \E i \in DOMAIN directories :
                        /\ directories[i] # Missing /\ l \in directories[i]
                        /\ \A j \in 1..i : directories[j] # Missing
==============================================================================
