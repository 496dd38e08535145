------------------------------- MODULE HidlVec -------------------------------
(***************************************************************************)
(* Who owns the arrays of hidl_vec<T> (base/include/hidl/HidlSupport.h): a *)
(* vector points to an array on the heap, and deletes it only if it owns   *)
(* it.  Arrays are allocated by the vector, or by a client that lends them *)
(* or gives them away (setToExternal); releaseData() hands one back.       *)
(*                                                                         *)
(* Element values are left out: only the length of an array matters here.  *)
(* One object is used by one thread at a time, so an operation is a step.  *)
(* The client keeps the contract of setToExternal(): it owns what it       *)
(* passes, and an array stays allocated while a vector uses it.  It reads  *)
(* a moved-from vector no more until it is given a value again.            *)
(***************************************************************************)
EXTENDS Naturals

CONSTANTS Vecs,      \* hidl_vec objects
          Buffers,   \* addresses of arrays on the heap
          MaxSize,   \* bound on lengths, UINT32_MAX in the code
          Null       \* the null pointer

ASSUME HidlVecAssumption == Null \notin Buffers /\ MaxSize \in Nat

VARIABLES alive,         \* vectors that are constructed
          mBuffer, mSize, mOwnsBuffer,
          heap,          \* arrays that are allocated
          length,        \* their lengths
          client,        \* arrays that client code must delete
          movedFrom      \* history: vectors without a value since a move

vars == <<alive, mBuffer, mSize, mOwnsBuffer, heap, length, client, movedFrom>>

Sizes == 0..MaxSize

Init ==
    /\ alive = {}
    /\ mBuffer = [v \in Vecs |-> Null]
    /\ mSize = [v \in Vecs |-> 0]
    /\ mOwnsBuffer = [v \in Vecs |-> FALSE]
    /\ heap = {}
    /\ length = [b \in Buffers |-> 0]
    /\ client = {}
    /\ movedFrom = {}

(* The vectors whose elements a client may read.                           *)
Valid == alive \ movedFrom

(* The arrays that v deletes when it lets go of its buffer.                *)
Deleted(v) == {b \in Buffers : mOwnsBuffer[v] /\ mBuffer[v] = b}

(* v points to buffer b with n elements, and owns it or not.               *)
Set(v, b, n, owns) ==
    /\ mBuffer' = [mBuffer EXCEPT ![v] = b]
    /\ mSize' = [mSize EXCEPT ![v] = n]
    /\ mOwnsBuffer' = [mOwnsBuffer EXCEPT ![v] = owns]

(* new T[n] after the arrays in freed were deleted.                        *)
Allocate(b, n, freed) ==
    /\ b \in Buffers \ (heap \ freed)
    /\ heap' = (heap \ freed) \union {b}
    /\ length' = [length EXCEPT ![b] = n]

-----------------------------------------------------------------------------
(***************************************************************************)
(* Plausible bugs, used only to show that the properties can fail.         *)
(***************************************************************************)
(* A move that leaves the source owning the array as well.                 *)
MoveKeepsOwnership(v, w) ==
    /\ v \in alive /\ w \in alive
    /\ heap' = heap \ Deleted(v)
    /\ Set(v, mBuffer[w], mSize[w], mOwnsBuffer[w])
    /\ movedFrom' = (movedFrom \ {v}) \union {w}
    /\ UNCHANGED <<alive, length, client>>

(* An assignment that forgets to delete the array it replaces.             *)
CopyLeaks(v, n) ==
    /\ v \in alive
    /\ IF n > 0
       THEN \E b \in Buffers : Allocate(b, n, {}) /\ Set(v, b, n, TRUE)
       ELSE UNCHANGED <<heap, length>> /\ Set(v, Null, 0, TRUE)
    /\ movedFrom' = movedFrom \ {v}
    /\ UNCHANGED <<alive, client>>

(* A resize that only moves the end, as if there were spare capacity.      *)
ResizeInPlace(v, n) ==
    /\ v \in Valid
    /\ mSize' = [mSize EXCEPT ![v] = n]
    /\ UNCHANGED <<alive, mBuffer, mOwnsBuffer, heap, length, client, movedFrom>>

(* A releaseData() that reports the null pointer as an array to delete.    *)
-----------------------------------------------------------------------------
(* copyFrom(): a new array for n elements, none for an empty source.  What *)
(* v owned before is deleted first.  (Sources have fewer than 2^32         *)
(* elements, so that the cast of n to mSize keeps its value.)              *)
CopyFrom(v, n) ==
    /\ IF n > 0
       THEN \E b \in Buffers :
                Allocate(b, n, Deleted(v)) /\ Set(v, b, n, TRUE)
       ELSE /\ heap' = heap \ Deleted(v)
            /\ length' = length
            /\ Set(v, Null, 0, TRUE)
    /\ movedFrom' = movedFrom \ {v}

(* hidl_vec(): no array, and it counts as owned.                           *)
Construct(v) ==
    /\ v \notin alive
    /\ alive' = alive \union {v}
    /\ Set(v, Null, 0, TRUE)
    /\ UNCHANGED <<heap, length, client, movedFrom>>

(* From an initializer list or a range: an array even for no elements.     *)
ConstructFrom(v, n) ==
    /\ v \notin alive
    /\ alive' = alive \union {v}
    /\ \E b \in Buffers : Allocate(b, n, {}) /\ Set(v, b, n, TRUE)
    /\ UNCHANGED <<client, movedFrom>>

(* hidl_vec(hidl_vec&&): nothing to delete, then as a move assignment.     *)
MoveConstruct(v, w) ==
    /\ v \notin alive /\ w \in Valid
    /\ alive' = alive \union {v}
    /\ mBuffer' = [mBuffer EXCEPT ![v] = mBuffer[w]]
    /\ mSize' = [mSize EXCEPT ![v] = mSize[w]]
    /\ mOwnsBuffer' = [mOwnsBuffer EXCEPT ![v] = mOwnsBuffer[w], ![w] = FALSE]
    /\ movedFrom' = movedFrom \union {w}
    /\ UNCHANGED <<heap, length, client>>

(* operator=(const hidl_vec&) does nothing for v itself.  The copy         *)
(* constructor is Construct(v) and then this.                              *)
CopyAssign(v, w) ==
    /\ v \in alive /\ w \in Valid \ {v}
    /\ CopyFrom(v, mSize[w])
    /\ UNCHANGED <<alive, client>>

(* operator=(const std::vector&) and the constructor that uses it.         *)
CopyAssignStd(v, n) ==
    /\ v \in alive
    /\ CopyFrom(v, n)
    /\ UNCHANGED <<alive, client>>

(* operator=(hidl_vec&&): the source keeps its pointer and its size and    *)
(* gives up only the ownership.  A move to itself deletes the array.       *)
MoveAssign(v, w) ==
    /\ v \in alive /\ w \in Valid
    /\ heap' = heap \ Deleted(v)
    /\ mBuffer' = [mBuffer EXCEPT ![v] = mBuffer[w]]
    /\ mSize' = [mSize EXCEPT ![v] = mSize[w]]
    /\ mOwnsBuffer' = [mOwnsBuffer EXCEPT ![v] = mOwnsBuffer[w], ![w] = FALSE]
    /\ movedFrom' = (movedFrom \ {v}) \union {w}
    /\ UNCHANGED <<alive, length, client>>

(* setToExternal(data, n, shouldOwn).  The client gives an array away only *)
(* when no other vector uses it.                                           *)
SetToExternal(v, b, n, shouldOwn) ==
    /\ v \in alive
    /\ b \in client
    /\ n <= length[b]
    /\ shouldOwn => \A w \in Valid \ {v} : mBuffer[w] # b
    /\ heap' = heap \ Deleted(v)
    /\ Set(v, b, n, shouldOwn)
    /\ client' = IF shouldOwn THEN client \ {b} ELSE client
    /\ movedFrom' = movedFrom \ {v}
    /\ UNCHANGED <<alive, length>>

(* resize(n): a new array first, then the old one is deleted if owned.     *)
Resize(v, n) ==
    /\ v \in Valid
    /\ \E b \in Buffers \ heap :
           Allocate(b, n, Deleted(v)) /\ Set(v, b, n, TRUE)
    /\ UNCHANGED <<alive, client, movedFrom>>

(* releaseData(): the array becomes the client's and the vector goes on    *)
(* using it; elements the vector does not own are copied by resize().      *)
ReleaseData(v) ==
    /\ v \in Valid
    /\ IF ~mOwnsBuffer[v] /\ mSize[v] > 0
       THEN \E b \in Buffers \ heap :
                /\ Allocate(b, mSize[v], {})
                /\ Set(v, b, mSize[v], FALSE)
                /\ client' = client \union {b}
       ELSE /\ mOwnsBuffer' = [mOwnsBuffer EXCEPT ![v] = FALSE]
            /\ client' = client \union Deleted(v)
            /\ UNCHANGED <<mBuffer, mSize, heap, length>>
    /\ UNCHANGED <<alive, movedFrom>>

(* ~hidl_vec().                                                            *)
Destroy(v) ==
    /\ v \in alive
    /\ alive' = alive \ {v}
    /\ heap' = heap \ Deleted(v)
    /\ Set(v, Null, 0, FALSE)
    /\ movedFrom' = movedFrom \ {v}
    /\ UNCHANGED <<length, client>>

(* The client allocates an array, to lend it or to give it away.           *)
ClientNew(b, n) ==
    /\ Allocate(b, n, {})
    /\ client' = client \union {b}
    /\ UNCHANGED <<alive, mBuffer, mSize, mOwnsBuffer, movedFrom>>

(* The client deletes an array of its own that no vector uses.             *)
ClientDelete(b) ==
    /\ b \in client
    /\ \A v \in Valid : mBuffer[v] # b
    /\ heap' = heap \ {b}
    /\ client' = client \ {b}
    /\ UNCHANGED <<alive, mBuffer, mSize, mOwnsBuffer, length, movedFrom>>

Next ==
    \/ \E v \in Vecs :
          \/ Construct(v) \/ ReleaseData(v) \/ Destroy(v)
          \/ \E n \in Sizes :
                ConstructFrom(v, n) \/ CopyAssignStd(v, n) \/ Resize(v, n)
          \/ \E w \in Vecs :
                MoveConstruct(v, w) \/ CopyAssign(v, w) \/ MoveAssign(v, w)
          \/ \E b \in Buffers, n \in Sizes, own \in BOOLEAN :
                SetToExternal(v, b, n, own)
    \/ \E b \in Buffers : ClientDelete(b) \/ \E n \in Sizes : ClientNew(b, n)

Spec == Init /\ [][Next]_vars

-----------------------------------------------------------------------------
TypeOK ==
    /\ alive \subseteq Vecs
    /\ mBuffer \in [Vecs -> Buffers \union {Null}]
    /\ mSize \in [Vecs -> Sizes]
    /\ mOwnsBuffer \in [Vecs -> BOOLEAN]
    /\ heap \subseteq Buffers
    /\ length \in [Buffers -> Sizes]
    /\ client \subseteq Buffers
    /\ movedFrom \subseteq alive

(***************************************************************************)
(* No array is deleted twice, or after its address was given to another:   *)
(* what a vector owns is allocated, and neither another vector nor the     *)
(* client owns it too.  The deletes in the destructor, the assignments,    *)
(* setToExternal() and resize() of hidl_vec rely on it.                    *)
(***************************************************************************)
OwnedOnce ==
    \A v \in alive : \A b \in Deleted(v) :
        /\ b \in heap \ client
        /\ \A w \in alive \ {v} : b \notin Deleted(w)

(***************************************************************************)
(* No array is leaked by copies, moves, resize(), setToExternal() or       *)
(* releaseData(): each allocated one has an owner that will delete it.     *)
(***************************************************************************)
NoLeak == heap \subseteq client \union UNION {Deleted(v) : v \in alive}

(***************************************************************************)
(* The elements 0 .. mSize-1 of a vector that has a value can be read, so  *)
(* operator[], the copies, resize() and the iterators read no deleted or   *)
(* too short array, although a moved-from vector keeps the pointer to an   *)
(* array that is now another's.                                            *)
(***************************************************************************)
ElementsReadable ==
    \A v \in Valid :
        mSize[v] > 0 => mBuffer[v] \in heap /\ mSize[v] <= length[mBuffer[v]]
=============================================================================
