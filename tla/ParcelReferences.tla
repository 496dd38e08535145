--------------------------- MODULE ParcelReferences ---------------------------
(***************************************************************************)
(* References (ref<T>) in a parcel: transport/include/hidl/                *)
(* HidlBinderSupport.h.  A structure with references is written buffer by  *)
(* buffer; what lies inside a buffer already in the parcel is only         *)
(* referred to, and *shouldResolveRefInBuffer tells the generated code     *)
(* whether to go on with the references inside the buffer, on writing and  *)
(* on reading.                                                             *)
(*                                                                         *)
(* The sender's memory is a row of cells, each of them a reference; a T is *)
(* one or more of them in a row, so a reference may lead into the middle   *)
(* of another T.  The generated code (external) resolves depth first, the  *)
(* references of a T in the order of their cells, and knows sizeof(T) on   *)
(* both sides; it is the stack here.  The parcel (external) hands out the  *)
(* position of a buffer as its handle, may be out of memory at any write,  *)
(* and refuses a read that does not match what was written there.          *)
(***************************************************************************)
EXTENDS Integers, Sequences, FiniteSets

CONSTANTS Cells,        \* number of cells
          TargetSizes,  \* sizes of the types referred to, in cells
          NullRef       \* the null reference

(* What a reference can lead to: a T, given by its first cell and its size.*)
Targets == {t \in [at : 1..Cells, size : TargetSizes] : t.at + t.size <= Cells + 1}

ASSUME ParcelReferencesAssumption ==
    /\ Cells \in Nat
    /\ TargetSizes \subseteq Nat \ {0}
    /\ NullRef \notin Targets

VARIABLES heap,       \* where the reference in each cell leads
          root,       \* the reference sent
          parcel,     \* the objects written
          stack,      \* references still to be written, then to be read
          reading,    \* the position read next, 0 while the parcel is written
          readGraph,  \* what the receiver has put together, by handles
          status      \* of the last call

referenceVars == <<heap, root, parcel, stack, reading, readGraph, status>>

ReferenceInit ==
    /\ heap \in [1..Cells -> Targets \union {NullRef}]
    /\ root \in Targets \union {NullRef}
    /\ parcel = <<>>
    /\ stack = <<[buf |-> root, parent |-> 0, offset |-> 0]>>
    /\ reading = 0
    /\ readGraph = {}
    /\ status = "OK"

CellsOf(t) == t.at..(t.at + t.size - 1)

(* t lies within u.                                                        *)
Inside(t, u) == t.at >= u.at /\ t.at + t.size <= u.at + u.size

(* The references in t, whose buffer has the handle h.                     *)
RefsOf(t, h) == [k \in 1..t.size |->
                    [buf |-> heap[t.at + (k - 1)], parent |-> h, offset |-> k - 1]]
RefsAt(h, size) == [k \in 1..size |-> [parent |-> h, offset |-> k - 1]]

(* Plausible bugs, used only to show that the properties can fail.         *)
OffsetDropped(t, h) == 0

-----------------------------------------------------------------------------
IsBuffer(i) == i \in DOMAIN parcel /\ parcel[i].type = "buffer"

(* parcel->findBuffer(): the buffers of the parcel in which t is found, of *)
(* which it names one.  If there is none and t begins inside a buffer, its *)
(* address and length are refused.                                         *)
findBuffer(t) == {i \in DOMAIN parcel : IsBuffer(i) /\ Inside(t, parcel[i].data)}
BadPointer(t) == \E i \in DOMAIN parcel : IsBuffer(i) /\ t.at \in CellsOf(parcel[i].data)

childOffset(t, h) == t.at - parcel[h].data.at

(* Writing reference r: null, a place in a buffer that is found, or a new  *)
(* buffer to be resolved by the caller.  An error ends the writing.        *)
WriteReference(r) ==
    LET Object(type, child, offset) ==
            [type |-> type, parent |-> r.parent, offset |-> r.offset,
             data |-> r.buf, child |-> child, childOffset |-> offset]
    IN  \/ /\ \/ /\ r.buf = NullRef
                 /\ parcel' = Append(parcel, Object("null", 0, 0))
                 /\ stack' = Tail(stack)
              \/ /\ r.buf # NullRef
                 /\ findBuffer(r.buf) = {} /\ ~BadPointer(r.buf)
                 /\ parcel' = Append(parcel, Object("buffer", 0, 0))
                 /\ stack' = RefsOf(r.buf, Len(parcel) + 1) \o Tail(stack)
              \/ /\ r.buf # NullRef
                 /\ \E h \in findBuffer(r.buf) :
                       parcel' = Append(parcel,
                                        Object("reference", h, childOffset(r.buf, h)))
                 /\ stack' = Tail(stack)
           /\ UNCHANGED <<heap, root, reading, readGraph, status>>
        \/ /\ \/ /\ r.buf # NullRef
                 /\ findBuffer(r.buf) = {} /\ BadPointer(r.buf)
                 /\ status' = "BAD_VALUE"
              \/ status' = "NO_MEMORY"
           /\ UNCHANGED <<heap, root, parcel, stack, reading, readGraph>>

writeReferenceToParcel ==
    /\ reading = 0 /\ stack # <<>> /\ status = "OK"
    /\ Head(stack).parent = 0
    /\ WriteReference(Head(stack))

writeEmbeddedReferenceToParcel ==
    /\ reading = 0 /\ stack # <<>> /\ status = "OK"
    /\ Head(stack).parent # 0
    /\ WriteReference(Head(stack))

(* Everything is written, and the parcel is sent.                          *)
Send ==
    /\ reading = 0 /\ stack = <<>> /\ status = "OK"
    /\ reading' = 1
    /\ stack' = <<[parent |-> 0, offset |-> 0]>>
    /\ UNCHANGED <<heap, root, parcel, readGraph, status>>

(* Reading reference r: isPreviouslyWritten unless a buffer is met for the *)
(* first time.                                                             *)
ReadReference(r) ==
    /\ IF /\ reading \in DOMAIN parcel
          /\ parcel[reading].parent = r.parent /\ parcel[reading].offset = r.offset
       THEN LET o == parcel[reading]
                child == IF o.type = "buffer" THEN reading ELSE o.child
            IN  /\ readGraph' = readGraph \union
                                   {<<r.parent, r.offset, child, o.childOffset>>}
                /\ stack' = IF o.type = "buffer"
                            THEN RefsAt(reading, o.data.size) \o Tail(stack)
                            ELSE Tail(stack)
                /\ reading' = reading + 1
                /\ UNCHANGED status
       ELSE status' = "BAD_VALUE" /\ UNCHANGED <<readGraph, stack, reading>>
    /\ UNCHANGED <<heap, root, parcel>>

readReferenceFromParcel ==
    /\ reading > 0 /\ stack # <<>> /\ status = "OK"
    /\ Head(stack).parent = 0
    /\ ReadReference(Head(stack))

readEmbeddedReferenceFromParcel ==
    /\ reading > 0 /\ stack # <<>> /\ status = "OK"
    /\ Head(stack).parent # 0
    /\ ReadReference(Head(stack))

ReferenceNext ==
    \/ writeReferenceToParcel \/ writeEmbeddedReferenceToParcel
    \/ Send
    \/ readReferenceFromParcel \/ readEmbeddedReferenceFromParcel

ReferenceSpec == ReferenceInit /\ [][ReferenceNext]_referenceVars

-----------------------------------------------------------------------------
(* Where a reference of the sender leads, and all places where one does.   *)
Target(parent, offset) ==
    IF parent = 0 THEN root ELSE heap[parcel[parent].data.at + offset]
InMemory == ({root} \union {heap[c] : c \in 1..Cells}) \ {NullRef}

(* The reference t of the sender is the one to the child of that handle,   *)
(* from childOffset on.                                                    *)
SamePlace(t, child, offset) ==
    IF child = 0 THEN t = NullRef
    ELSE /\ t # NullRef
         /\ t.at = parcel[child].data.at + offset
         /\ Inside(t, parcel[child].data)

(* What references lead to is the same or has nothing in common.           *)
Separate == \A t, u \in InMemory : t = u \/ CellsOf(t) \cap CellsOf(u) = {}

(***************************************************************************)
(* A structure of references, shared, cyclic or null, that is sent arrives *)
(* as it was: the reader finds every object where it looks for it and      *)
(* consumes all of them, and each reference it has read leads to the place *)
(* it led to on the sender's side, in the middle of a buffer too.  No      *)
(* buffer begins in one written before it, so writing ends; if targets do  *)
(* not overlap, none is sent twice.  The writer refuses a structure (as    *)
(* opposed to running out of memory) only if one target begins inside      *)
(* another and reaches beyond it, and then nothing is sent.                *)
(***************************************************************************)
ReferencesRoundTrip ==
    /\ \A i, j \in DOMAIN parcel :
          IsBuffer(i) /\ IsBuffer(j) /\ i < j =>
              /\ parcel[j].data.at \notin CellsOf(parcel[i].data)
              /\ Separate => CellsOf(parcel[i].data) \cap CellsOf(parcel[j].data) = {}
    /\ status = "BAD_VALUE" =>
          \E t, u \in InMemory : t.at \in CellsOf(u) /\ ~Inside(t, u)
    /\ reading > 0 => status = "OK"
    /\ reading > 0 /\ stack = <<>> => reading = Len(parcel) + 1
    /\ \A e \in readGraph : SamePlace(Target(e[1], e[2]), e[3], e[4])
==============================================================================
