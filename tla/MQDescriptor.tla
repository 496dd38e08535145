----------------------------- MODULE MQDescriptor -----------------------------
(***************************************************************************)
(* The layout of a fast message queue in its shared memory, as described   *)
(* by the constructors of MQDescriptor (base/include/hidl/MQDescriptor.h): *)
(* a grantor with offset and extent for the read counter, the write        *)
(* counter, the data and, if wanted, the event flag word.                  *)
(*                                                                         *)
(* size_t and the 32 bits of a grantor's offset keep their widths, as the  *)
(* numbers of their values; logAlwaysFatal ends the process.  Who closes   *)
(* the descriptor's handle is in HidlHandle.                               *)
(***************************************************************************)
EXTENDS Naturals, Sequences

CONSTANTS SizeValues,    \* number of values of size_t, 2^64 or 2^32
          OffsetValues   \* the same of GrantorDescriptor.offset, 2^32

Word == 8                      \* kAlignmentSize / 8

(* Both are powers of two, at least five bits wide.                        *)
ASSUME MQDescriptorAssumption ==
    /\ SizeValues \in Nat /\ OffsetValues \in Nat
    /\ SizeValues % Word = 0 /\ OffsetValues % Word = 0
    /\ 2 * Word < OffsetValues /\ OffsetValues <= SizeValues

VARIABLES mGrantors,   \* the grantors, each with offset and extent
          bufferSize,  \* the size asked for
          outcome      \* "none" yet, "laidOut", "copied", or "aborted"

queueVars == <<mGrantors, bufferSize, outcome>>

SIZE_MAX == SizeValues - 1

QueueInit == mGrantors = <<>> /\ bufferSize = 0 /\ outcome = "none"

(* Plausible bugs, used only to show that the properties can fail.         *)
RoundedDown(length) == length - (length % Word)

-----------------------------------------------------------------------------
(* alignToWordBoundary(): rounds up, and refuses what would overflow.      *)
TooLarge(length) == length > SIZE_MAX - Word + 1
alignToWordBoundary(length) == RoundedDown(length + Word - 1)

isAlignedToWordBoundary(offset) == offset % Word = 0

(* The memory of each grantor, and the running sum of it in size_t.        *)
memSize(size) == <<8, 8, size, 4>>
Offset(size) == <<0, 8, 16, (16 + size) % SizeValues>>

Grantor(size, i) == [offset |-> alignToWordBoundary(Offset(size)[i]) % OffsetValues,
                     extent |-> memSize(size)[i]]

(* MQDescriptor(bufferSize, nHandle, messageSize, configureEventFlag).     *)
Lay(size, eventFlag) ==
    LET count == IF eventFlag THEN 4 ELSE 3 IN
    /\ outcome = "none"
    /\ bufferSize' = size
    /\ IF \E i \in 1..count : TooLarge(Offset(size)[i])
       THEN outcome' = "aborted" /\ UNCHANGED mGrantors
       ELSE /\ mGrantors' = [i \in 1..count |-> Grantor(size, i)]
            /\ outcome' = "laidOut"

(* MQDescriptor(grantors, nHandle, size): the grantors of another queue,   *)
(* refused if one of them is not aligned.                                  *)
CopyGrantors(grantors) ==
    /\ outcome = "none"
    /\ IF \A i \in DOMAIN grantors : isAlignedToWordBoundary(grantors[i].offset)
       THEN mGrantors' = grantors /\ outcome' = "copied"
       ELSE outcome' = "aborted" /\ UNCHANGED mGrantors
    /\ UNCHANGED bufferSize

QueueNext ==
    \/ \E size \in 0..SIZE_MAX, eventFlag \in BOOLEAN : Lay(size, eventFlag)
    \/ \E offset \in 0..(2 * Word) :
          CopyGrantors(<<[offset |-> offset, extent |-> Word]>>)

QueueSpec == QueueInit /\ [][QueueNext]_queueVars

-----------------------------------------------------------------------------
Bytes(g) == g.offset..(g.offset + g.extent - 1)

(***************************************************************************)
(* The grantors are word aligned and no two of them share a byte of the    *)
(* shared memory, exactly when the event flag word's place behind the data *)
(* can be said in an offset's 32 bits.  For a larger queue with an event   *)
(* flag the narrowing cast puts that word on top of the counters or of the *)
(* data.                                                                   *)
(***************************************************************************)
GrantorsDisjoint ==
    outcome = "laidOut" =>
        /\ \A i \in DOMAIN mGrantors : isAlignedToWordBoundary(mGrantors[i].offset)
        /\ (\A i, j \in DOMAIN mGrantors :
                i # j => Bytes(mGrantors[i]) \cap Bytes(mGrantors[j]) = {})
           <=> (Len(mGrantors) = 3 \/ alignToWordBoundary(16 + bufferSize) < OffsetValues)
==============================================================================
