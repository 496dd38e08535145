------------------------------ MODULE HidlHandle ------------------------------
(***************************************************************************)
(* Who closes a native_handle_t: hidl_handle (base/HidlSupport.cpp) closes *)
(* it only if it owns it, MQDescriptor (base/include/hidl/MQDescriptor.h)  *)
(* always.  A copy of either clones the handle, a move hands it over.      *)
(*                                                                         *)
(* An object is used by one thread at a time.  The client gives away only  *)
(* handles that are its own, and copies no hidl_handle whose handle is     *)
(* closed, or is closed by the very copy: operator= frees the old handle   *)
(* before it clones the new one.  A clone that fails aborts the process,   *)
(* so there is no step for it.                                             *)
(***************************************************************************)

CONSTANTS Handles,       \* hidl_handle objects
          Descriptors,   \* MQDescriptor objects
          Natives,       \* addresses of native_handle_t
          NoNative       \* the null pointer

ASSUME HidlHandleAssumption == NoNative \notin Natives

VARIABLES holders,       \* handles and descriptors that are constructed
          mHandle, mOwnsHandle,
          open,          \* native handles created and not closed
          callers        \* the ones that client code must close

handleVars == <<holders, mHandle, mOwnsHandle, open, callers>>

Holders == Handles \union Descriptors

HandleInit ==
    /\ holders = {}
    /\ mHandle = [h \in Holders |-> NoNative]
    /\ mOwnsHandle = [h \in Holders |-> FALSE]
    /\ open = {}
    /\ callers = {}

Point(h, n, owns) ==
    /\ mHandle' = [mHandle EXCEPT ![h] = n]
    /\ mOwnsHandle' = [mOwnsHandle EXCEPT ![h] = owns]

(* Plausible bugs, used only to show that the properties can fail.         *)
MoveKeepsHandle(h, w) ==
    /\ open' = open \ {n \in Natives : mOwnsHandle[h] /\ mHandle[h] = n}
    /\ Point(h, mHandle[w], mOwnsHandle[w])
AssignWithoutFree(h, n) ==
    /\ h \in Handles \cap holders
    /\ n \in open \union {NoNative}
    /\ Point(h, n, FALSE)
    /\ UNCHANGED <<holders, open, callers>>

-----------------------------------------------------------------------------
(* freeHandle(), and ~MQDescriptor: the native handles h closes.           *)
freeHandle(h) == {n \in Natives : mOwnsHandle[h] /\ mHandle[h] = n}

(* h lets go of its handle and then clones the one of w.                   *)
CloneFrom(h, w) ==
    IF mHandle[w] = NoNative
    THEN open' = open \ freeHandle(h) /\ Point(h, NoNative, FALSE)
    ELSE /\ mHandle[w] \in open \ freeHandle(h)
         /\ \E n \in Natives \ (open \ freeHandle(h)) :
                /\ open' = (open \ freeHandle(h)) \union {n}
                /\ Point(h, n, TRUE)

(* h lets go of its handle and takes over what w has.                      *)
MoveFrom(h, w) ==
    /\ open' = open \ freeHandle(h)
    /\ mHandle' = [mHandle EXCEPT ![h] = mHandle[w], ![w] = NoNative]
    /\ mOwnsHandle' = [mOwnsHandle EXCEPT ![h] = mOwnsHandle[w], ![w] = FALSE]

(* hidl_handle(), and the constructor from a raw pointer: nothing owned.   *)
ConstructHandle(h, n) ==
    /\ h \in Handles \ holders
    /\ n \in open \union {NoNative}
    /\ holders' = holders \union {h}
    /\ Point(h, n, FALSE)
    /\ UNCHANGED <<open, callers>>

CopyConstructHandle(h, w) ==
    /\ h \in Handles \ holders /\ w \in Handles \cap holders
    /\ holders' = holders \union {h}
    /\ CloneFrom(h, w)
    /\ UNCHANGED callers

MoveConstructHandle(h, w) ==
    /\ h \in Handles \ holders /\ w \in Handles \cap holders
    /\ holders' = holders \union {h}
    /\ MoveFrom(h, w)
    /\ UNCHANGED callers

(* Both assignments from a hidl_handle do nothing for h itself.            *)
CopyAssignHandle(h, w) ==
    /\ h \in Handles \cap holders /\ w \in (Handles \cap holders) \ {h}
    /\ CloneFrom(h, w)
    /\ UNCHANGED <<holders, callers>>

MoveAssignHandle(h, w) ==
    /\ h \in Handles \cap holders /\ w \in (Handles \cap holders) \ {h}
    /\ MoveFrom(h, w)
    /\ UNCHANGED <<holders, callers>>

(* operator= with a raw pointer, and setTo(n, false): n may be any         *)
(* open handle, even the one h owns and is about to close.                 *)
AssignNative(h, n) ==
    /\ h \in Handles \cap holders
    /\ n \in open \union {NoNative}
    /\ open' = open \ freeHandle(h)
    /\ Point(h, n, FALSE)
    /\ UNCHANGED <<holders, callers>>

(* setTo(n, true).                                                         *)
SetToOwned(h, n) ==
    /\ h \in Handles \cap holders
    /\ n \in callers \union {NoNative}
    /\ open' = open \ freeHandle(h)
    /\ Point(h, n, TRUE)
    /\ callers' = callers \ {n}
    /\ UNCHANGED holders

(* The MQDescriptor constructors keep the handle they are given.           *)
ConstructDescriptor(d, n) ==
    /\ d \in Descriptors \ holders
    /\ n \in callers \union {NoNative}
    /\ holders' = holders \union {d}
    /\ Point(d, n, TRUE)
    /\ callers' = callers \ {n}
    /\ UNCHANGED open

(* The copy constructor dups every file descriptor; nothing is assigned.   *)
CopyDescriptor(d, e) ==
    /\ d \in Descriptors \ holders /\ e \in Descriptors \cap holders
    /\ holders' = holders \union {d}
    /\ CloneFrom(d, e)
    /\ UNCHANGED callers

(* ~hidl_handle() and ~MQDescriptor().                                     *)
DestroyHolder(h) ==
    /\ h \in holders
    /\ holders' = holders \ {h}
    /\ open' = open \ freeHandle(h)
    /\ Point(h, NoNative, FALSE)
    /\ UNCHANGED callers

(* The client creates a handle, and closes one that is still its own.      *)
ClientCreate(n) ==
    /\ n \in Natives \ open
    /\ open' = open \union {n}
    /\ callers' = callers \union {n}
    /\ UNCHANGED <<holders, mHandle, mOwnsHandle>>

ClientClose(n) ==
    /\ n \in callers
    /\ open' = open \ {n}
    /\ callers' = callers \ {n}
    /\ UNCHANGED <<holders, mHandle, mOwnsHandle>>

HandleNext ==
    \/ \E h \in Holders :
          \/ DestroyHolder(h)
          \/ \E n \in Natives \union {NoNative} :
                \/ ConstructHandle(h, n) \/ AssignNative(h, n)
                \/ SetToOwned(h, n) \/ ConstructDescriptor(h, n)
          \/ \E w \in Holders :
                \/ CopyConstructHandle(h, w) \/ MoveConstructHandle(h, w)
                \/ CopyAssignHandle(h, w) \/ MoveAssignHandle(h, w)
                \/ CopyDescriptor(h, w)
    \/ \E n \in Natives : ClientCreate(n) \/ ClientClose(n)

HandleSpec == HandleInit /\ [][HandleNext]_handleVars

-----------------------------------------------------------------------------
HandleTypeOK ==
    /\ holders \subseteq Holders
    /\ mHandle \in [Holders -> Natives \union {NoNative}]
    /\ mOwnsHandle \in [Holders -> BOOLEAN]
    /\ open \subseteq Natives
    /\ callers \subseteq open

(***************************************************************************)
(* No native handle is closed twice, or closed under somebody who relies   *)
(* on it: what a hidl_handle or MQDescriptor will close is open and        *)
(* neither another object nor the client closes it too.  So a copy stays   *)
(* valid whatever happens to the original (rule 2 of hidl_handle).         *)
(***************************************************************************)
HandleClosedOnce ==
    \A h \in holders : \A n \in freeHandle(h) :
        /\ n \in open \ callers
        /\ \A g \in holders \ {h} : n \notin freeHandle(g)

(***************************************************************************)
(* No open file descriptor is lost by copies, moves, assignments or        *)
(* setTo(): every open native handle has somebody who will close it.       *)
(***************************************************************************)
HandleNoLeak == open \subseteq callers \union UNION {freeHandle(h) : h \in holders}
==============================================================================
