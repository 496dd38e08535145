-------------------------- MODULE PassthroughManager --------------------------
(***************************************************************************)
(* PassthroughServiceManager (transport/ServiceManagement.cpp): get()      *)
(* looks for an implementation of an interface in the libraries            *)
(* <package>-impl*.so of some directories and keeps the first library that *)
(* has the instance; preloadPassthroughService() opens them all.           *)
(* debugDump() reports which processes have which library mapped.          *)
(*                                                                         *)
(* The directories are searched in a fixed order; within one, the order is *)
(* the file system's.  dlopen() counts references, and a library is mapped *)
(* while it has one.  All other operations of the class are LOG(FATAL).    *)
(***************************************************************************)
EXTENDS Naturals, Sequences, FiniteSets, SequencesExt

CONSTANTS Processes,
          Impls,       \* implementation libraries of the package
          NoImpl,      \* the null pointer
          PathCount,   \* directories searched, four in the code
          MaxCalls     \* bound on calls of a process

ASSUME PassthroughAssumption ==
    /\ IsFiniteSet(Impls)
    /\ NoImpl \notin Impls
    /\ PathCount \in Nat /\ MaxCalls \in Nat

VARIABLES dirOf,       \* the directory of each library
          kind,        \* what becomes of an attempt to use it
          todo,        \* libraries a call has still to try
          doing,       \* the call of a process: "idle", "get", "preload"
          ret,         \* the library that served the last get()
          refs,        \* dlopen() references
          made,        \* number of calls
          got,         \* history: get() calls served, per library
          preloaded,   \* history: preloads that ended or got past a library
          clients      \* processes hwservicemanager knows as users

passthroughVars == <<dirOf, kind, todo, doing, ret, refs, made, got, preloaded, clients>>

PassthroughInit ==
    /\ dirOf \in [Impls -> 1..PathCount]
    /\ kind \in [Impls -> {"unloadable", "noSymbol", "otherInstance", "hasIt"}]
    /\ todo = [p \in Processes |-> <<>>]
    /\ doing = [p \in Processes |-> "idle"]
    /\ ret = [p \in Processes |-> NoImpl]
    /\ refs = [p \in Processes |-> [l \in Impls |-> 0]]
    /\ made = [p \in Processes |-> 0]
    /\ got = refs /\ preloaded = refs
    /\ clients = {}

Bump(f, p, l) == [f EXCEPT ![p][l] = @ + 1]

(* Plausible bugs, used only to show that the properties can fail.         *)
ContinueAfterFind(p) == Tail(todo[p])

-----------------------------------------------------------------------------
(* search() of all paths: the libraries in an order openLibs() may try.    *)
SearchOrders == {s \in SetToSeqs(Impls) :
                    \A i, j \in DOMAIN s : i < j => dirOf[s[i]] <= dirOf[s[j]]}

(* get() or preloadPassthroughService() begins; nothing is tried for a     *)
(* name that is not fully qualified.                                       *)
openLibs(p, c, valid) ==
    /\ doing[p] = "idle" /\ made[p] < MaxCalls
    /\ made' = [made EXCEPT ![p] = @ + 1]
    /\ doing' = [doing EXCEPT ![p] = c]
    /\ ret' = [ret EXCEPT ![p] = NoImpl]
    /\ IF valid THEN \E s \in SearchOrders : todo' = [todo EXCEPT ![p] = s]
                ELSE UNCHANGED todo
    /\ UNCHANGED <<dirOf, kind, refs, got, preloaded, clients>>

(* What is left to try once a library has the instance.                    *)
AfterFind(p) == <<>>

(* The process is registered with hwservicemanager, if that is reached.    *)
registerReference(p, reached) == clients' = IF reached THEN clients \union {p} ELSE clients

(* One library in get(): what does not serve is closed again.              *)
TryGet(p, reached) ==
    /\ doing[p] = "get" /\ todo[p] # <<>>
    /\ LET l == Head(todo[p]) IN
       IF kind[l] = "hasIt"
       THEN /\ refs' = Bump(refs, p, l)
            /\ got' = Bump(got, p, l)
            /\ ret' = [ret EXCEPT ![p] = l]
            /\ todo' = [todo EXCEPT ![p] = AfterFind(p)]
            /\ registerReference(p, reached)
       ELSE /\ todo' = [todo EXCEPT ![p] = Tail(@)]
            /\ UNCHANGED <<refs, got, ret, clients>>
    /\ UNCHANGED <<dirOf, kind, doing, made, preloaded>>

(* One library in preloadPassthroughService(): it stays open.              *)
TryPreload(p) ==
    /\ doing[p] = "preload" /\ todo[p] # <<>>
    /\ todo' = [todo EXCEPT ![p] = Tail(@)]
    /\ refs' = IF kind[Head(todo[p])] = "unloadable" THEN refs
               ELSE Bump(refs, p, Head(todo[p]))
    /\ preloaded' = Bump(preloaded, p, Head(todo[p]))
    /\ UNCHANGED <<dirOf, kind, doing, ret, made, got, clients>>

Done(p) ==
    /\ doing[p] # "idle" /\ todo[p] = <<>>
    /\ doing' = [doing EXCEPT ![p] = "idle"]
    /\ UNCHANGED <<dirOf, kind, todo, ret, refs, made, got, preloaded, clients>>

(* fetchPidsForPassthroughLibraries(): the processes whose maps name it.   *)
pids(l) == {p \in Processes : refs[p][l] > 0}

(* debugDump(): every library of the directories, with its processes.      *)
debugDump == [l \in Impls |-> pids(l)]

PassthroughNext ==
    \E p \in Processes :
        \/ \E c \in {"get", "preload"}, valid \in BOOLEAN : openLibs(p, c, valid)
        \/ \E reached \in BOOLEAN : TryGet(p, reached)
        \/ TryPreload(p) \/ Done(p)

PassthroughSpec == PassthroughInit /\ [][PassthroughNext]_passthroughVars

-----------------------------------------------------------------------------
(***************************************************************************)
(* Passthrough lookup is exact, step by step and over many calls.  The     *)
(* service get() returns comes from the first directory with a library     *)
(* that has it; a library stays mapped by a process as often as it serves  *)
(* a get() or was preloaded, so one that did not serve is released and one *)
(* in use never is; and debugDump() names the process for the library it   *)
(* was served from.                                                        *)
(***************************************************************************)
PassthroughGetExact ==
    \A p \in Processes :
        /\ ret[p] # NoImpl =>
              /\ kind[ret[p]] = "hasIt" /\ p \in debugDump[ret[p]]
              /\ \A l \in Impls : kind[l] = "hasIt" => dirOf[ret[p]] <= dirOf[l]
        /\ \A l \in Impls :
              refs[p][l] = got[p][l] + (IF kind[l] = "unloadable" THEN 0
                                        ELSE preloaded[p][l])
==============================================================================
