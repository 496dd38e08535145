-------------------------- MODULE ValueTypes_proofs --------------------------
(***************************************************************************)
(* The value classes of base/ and shared memory, for any number of         *)
(* objects, addresses and descriptors: what each object owns is released   *)
(* once, and what it promises to hold it holds. The classes share no       *)
(* state, so each part has an invariant and a specification of its own.    *)
(***************************************************************************)
EXTENDS HidlVec, HidlHandle, HidlString, ReturnStatus, SharedMemory, TLAPS

-----------------------------------------------------------------------------
(***************************************************************************)
(* Part 1: hidl_vec.                                                       *)
(***************************************************************************)
(* A vector with a value points to an allocated array, if to any.          *)
ValidAllocated ==
    \A v \in Valid : mBuffer[v] # Null => mBuffer[v] \in heap

(* The client's arrays are allocated.                                      *)
ClientAllocated == client \subseteq heap

(* An array that a vector owns is used by no other vector with a value.    *)
OwnedAlone ==
    \A v \in alive : \A w \in Valid \ {v} : mBuffer[w] \notin Deleted(v)

(* An object that is not constructed, or was moved from, owns nothing.     *)
OnlyValidOwn == \A v \in Vecs \ Valid : ~mOwnsBuffer[v]

VecInv ==
    /\ TypeOK
    /\ OwnedOnce
    /\ NoLeak
    /\ ElementsReadable
    /\ ValidAllocated
    /\ ClientAllocated
    /\ OwnedAlone
    /\ OnlyValidOwn

-----------------------------------------------------------------------------
(* An empty vector owns no array.                                          *)
LEMMA ConstructPreserves ==
    ASSUME VecInv, NEW v \in Vecs,
           Construct(v)
    PROVE  VecInv'
<1> USE HidlVecAssumption DEF VecInv, Sizes, Valid, Deleted, Set, Construct
<1>1. TypeOK'
  BY DEF TypeOK
<1>2. OwnedOnce'
  BY DEF OwnedOnce, OnlyValidOwn, ClientAllocated, TypeOK
<1>3. NoLeak'
  BY DEF NoLeak, OwnedOnce, TypeOK
<1>4. ElementsReadable'
  BY DEF ElementsReadable, OwnedAlone, TypeOK
<1>5. ValidAllocated'
  BY DEF ValidAllocated, OwnedAlone, TypeOK
<1>6. ClientAllocated'
  BY DEF ClientAllocated, OwnedOnce, TypeOK
<1>7. OwnedAlone'
  BY DEF OwnedAlone, ValidAllocated, OwnedOnce, OnlyValidOwn, ClientAllocated,
     TypeOK
<1>8. OnlyValidOwn'
  BY DEF OnlyValidOwn, TypeOK
<1> QED BY <1>1, <1>2, <1>3, <1>4, <1>5, <1>6, <1>7, <1>8

(* A constructor that allocates takes an address nobody uses.              *)
LEMMA ConstructFromPreserves ==
    ASSUME VecInv, NEW v \in Vecs, NEW n \in Sizes,
           ConstructFrom(v, n)
    PROVE  VecInv'
<1> USE HidlVecAssumption DEF VecInv, Sizes, Valid, Deleted, Set, Allocate,
ConstructFrom
<1>1. TypeOK'
  BY DEF TypeOK
<1>2. OwnedOnce'
  BY DEF OwnedOnce, OnlyValidOwn, ClientAllocated, TypeOK
<1>3. NoLeak'
  BY DEF NoLeak, OwnedOnce, TypeOK
<1>4. ElementsReadable'
  BY DEF ElementsReadable, OwnedAlone, TypeOK
<1>5. ValidAllocated'
  BY DEF ValidAllocated, OwnedAlone, TypeOK
<1>6. ClientAllocated'
  BY DEF ClientAllocated, OwnedOnce, TypeOK
<1>7. OwnedAlone'
  BY DEF OwnedAlone, ValidAllocated, OwnedOnce, OnlyValidOwn, ClientAllocated,
     TypeOK
<1>8. OnlyValidOwn'
  BY DEF OnlyValidOwn, TypeOK
<1> QED BY <1>1, <1>2, <1>3, <1>4, <1>5, <1>6, <1>7, <1>8

(* A move hands the ownership on: the source is valid no more.             *)
LEMMA MoveConstructPreserves ==
    ASSUME VecInv, NEW v \in Vecs, NEW w \in Vecs,
           MoveConstruct(v, w)
    PROVE  VecInv'
<1> USE HidlVecAssumption DEF VecInv, Sizes, Valid, Deleted, Set, MoveConstruct
<1>1. TypeOK'
  BY DEF TypeOK
<1>2. OwnedOnce'
  BY DEF OwnedOnce, OnlyValidOwn, ClientAllocated, TypeOK
<1>3. NoLeak'
  BY DEF NoLeak, OwnedOnce, TypeOK
<1>4. ElementsReadable'
  BY DEF ElementsReadable, OwnedAlone, TypeOK
<1>5. ValidAllocated'
  BY DEF ValidAllocated, OwnedAlone, TypeOK
<1>6. ClientAllocated'
  BY DEF ClientAllocated, OwnedOnce, TypeOK
<1>7. OwnedAlone'
  BY DEF OwnedAlone, ValidAllocated, OwnedOnce, OnlyValidOwn, ClientAllocated,
     TypeOK
<1>8. OnlyValidOwn'
  BY DEF OnlyValidOwn, TypeOK
<1> QED BY <1>1, <1>2, <1>3, <1>4, <1>5, <1>6, <1>7, <1>8

(* The same after deleting what v owned, which no other vector used.       *)
LEMMA MoveAssignPreserves ==
    ASSUME VecInv, NEW v \in Vecs, NEW w \in Vecs,
           MoveAssign(v, w)
    PROVE  VecInv'
<1> USE HidlVecAssumption DEF VecInv, Sizes, Valid, Deleted, Set, MoveAssign
<1>1. TypeOK'
  BY DEF TypeOK
<1>2. OwnedOnce'
  BY DEF OwnedOnce, OnlyValidOwn, ClientAllocated, TypeOK
<1>3. NoLeak'
  BY DEF NoLeak, OwnedOnce, TypeOK
<1>4. ElementsReadable'
  BY DEF ElementsReadable, OwnedAlone, TypeOK
<1>5. ValidAllocated'
  BY DEF ValidAllocated, OwnedAlone, TypeOK
<1>6. ClientAllocated'
  BY DEF ClientAllocated, OwnedOnce, TypeOK
<1>7. OwnedAlone'
  BY DEF OwnedAlone, ValidAllocated, OwnedOnce, OnlyValidOwn, ClientAllocated,
     TypeOK
<1>8. OnlyValidOwn'
  BY DEF OnlyValidOwn, TypeOK
<1> QED BY <1>1, <1>2, <1>3, <1>4, <1>5, <1>6, <1>7, <1>8

(* The client's array gets a user, or its only owner.                      *)
LEMMA SetToExternalPreserves ==
    ASSUME VecInv, NEW v \in Vecs, NEW b \in Buffers, NEW n \in Sizes,
           NEW own \in BOOLEAN,
           SetToExternal(v, b, n, own)
    PROVE  VecInv'
<1> USE HidlVecAssumption DEF VecInv, Sizes, Valid, Deleted, Set, SetToExternal
<1>1. TypeOK'
  BY DEF TypeOK
<1>2. OwnedOnce'
  BY DEF OwnedOnce, OnlyValidOwn, ClientAllocated, TypeOK
<1>3. NoLeak'
  BY DEF NoLeak, OwnedOnce, TypeOK
<1>4. ElementsReadable'
  BY DEF ElementsReadable, OwnedAlone, ClientAllocated, OwnedOnce, TypeOK
<1>5. ValidAllocated'
  BY DEF ValidAllocated, OwnedAlone, ClientAllocated, OwnedOnce, TypeOK
<1>6. ClientAllocated'
  BY DEF ClientAllocated, OwnedOnce, TypeOK
<1>7. OwnedAlone'
  BY DEF OwnedAlone, ValidAllocated, OwnedOnce, OnlyValidOwn, ClientAllocated,
     TypeOK
<1>8. OnlyValidOwn'
  BY DEF OnlyValidOwn, TypeOK
<1> QED BY <1>1, <1>2, <1>3, <1>4, <1>5, <1>6, <1>7, <1>8

(* The new array is allocated before the old one is deleted.               *)
LEMMA ResizePreserves ==
    ASSUME VecInv, NEW v \in Vecs, NEW n \in Sizes,
           Resize(v, n)
    PROVE  VecInv'
<1> USE HidlVecAssumption DEF VecInv, Sizes, Valid, Deleted, Set, Allocate,
Resize
<1>1. TypeOK'
  BY DEF TypeOK
<1>2. OwnedOnce'
  BY DEF OwnedOnce, OnlyValidOwn, ClientAllocated, TypeOK
<1>3. NoLeak'
  BY DEF NoLeak, OwnedOnce, TypeOK
<1>4. ElementsReadable'
  BY DEF ElementsReadable, OwnedAlone, TypeOK
<1>5. ValidAllocated'
  BY DEF ValidAllocated, OwnedAlone, TypeOK
<1>6. ClientAllocated'
  BY DEF ClientAllocated, OwnedOnce, TypeOK
<1>7. OwnedAlone'
  BY DEF OwnedAlone, ValidAllocated, OwnedOnce, OnlyValidOwn, ClientAllocated,
     TypeOK
<1>8. OnlyValidOwn'
  BY DEF OnlyValidOwn, TypeOK
<1> QED BY <1>1, <1>2, <1>3, <1>4, <1>5, <1>6, <1>7, <1>8

(* The destructor deletes what nobody else uses.                           *)
LEMMA DestroyPreserves ==
    ASSUME VecInv, NEW v \in Vecs,
           Destroy(v)
    PROVE  VecInv'
<1> USE HidlVecAssumption DEF VecInv, Sizes, Valid, Deleted, Set, Destroy
<1>1. TypeOK'
  BY DEF TypeOK
<1>2. OwnedOnce'
  BY DEF OwnedOnce, OnlyValidOwn, ClientAllocated, TypeOK
<1>3. NoLeak'
  BY DEF NoLeak, OwnedOnce, TypeOK
<1>4. ElementsReadable'
  BY DEF ElementsReadable, OwnedAlone, TypeOK
<1>5. ValidAllocated'
  BY DEF ValidAllocated, OwnedAlone, TypeOK
<1>6. ClientAllocated'
  BY DEF ClientAllocated, OwnedOnce, TypeOK
<1>7. OwnedAlone'
  BY DEF OwnedAlone, ValidAllocated, OwnedOnce, OnlyValidOwn, ClientAllocated,
     TypeOK
<1>8. OnlyValidOwn'
  BY DEF OnlyValidOwn, TypeOK
<1> QED BY <1>1, <1>2, <1>3, <1>4, <1>5, <1>6, <1>7, <1>8

(* A new array of the client is used by nobody.                            *)
LEMMA ClientNewPreserves ==
    ASSUME VecInv, NEW b \in Buffers, NEW n \in Sizes,
           ClientNew(b, n)
    PROVE  VecInv'
<1> USE HidlVecAssumption DEF VecInv, Sizes, Valid, Deleted, Set, Allocate,
ClientNew
<1>1. TypeOK'
  BY DEF TypeOK
<1>2. OwnedOnce'
  BY DEF OwnedOnce, OnlyValidOwn, ClientAllocated, TypeOK
<1>3. NoLeak'
  BY DEF NoLeak, OwnedOnce, TypeOK
<1>4. ElementsReadable'
  BY DEF ElementsReadable, OwnedAlone, TypeOK
<1>5. ValidAllocated'
  BY DEF ValidAllocated, OwnedAlone, TypeOK
<1>6. ClientAllocated'
  BY DEF ClientAllocated, OwnedOnce, TypeOK
<1>7. OwnedAlone'
  BY DEF OwnedAlone, ValidAllocated, OwnedOnce, OnlyValidOwn, ClientAllocated,
     TypeOK
<1>8. OnlyValidOwn'
  BY DEF OnlyValidOwn, TypeOK
<1> QED BY <1>1, <1>2, <1>3, <1>4, <1>5, <1>6, <1>7, <1>8

(* The client deletes only what no vector with a value uses.               *)
LEMMA ClientDeletePreserves ==
    ASSUME VecInv, NEW b \in Buffers,
           ClientDelete(b)
    PROVE  VecInv'
<1> USE HidlVecAssumption DEF VecInv, Sizes, Valid, Deleted, Set, ClientDelete
<1>1. TypeOK'
  BY DEF TypeOK
<1>2. OwnedOnce'
  BY DEF OwnedOnce, OnlyValidOwn, ClientAllocated, TypeOK
<1>3. NoLeak'
  BY DEF NoLeak, OwnedOnce, TypeOK
<1>4. ElementsReadable'
  BY DEF ElementsReadable, OwnedAlone, TypeOK
<1>5. ValidAllocated'
  BY DEF ValidAllocated, OwnedAlone, TypeOK
<1>6. ClientAllocated'
  BY DEF ClientAllocated, OwnedOnce, TypeOK
<1>7. OwnedAlone'
  BY DEF OwnedAlone, ValidAllocated, OwnedOnce, OnlyValidOwn, ClientAllocated,
     TypeOK
<1>8. OnlyValidOwn'
  BY DEF OnlyValidOwn, TypeOK
<1> QED BY <1>1, <1>2, <1>3, <1>4, <1>5, <1>6, <1>7, <1>8

(* copyFrom(): the old array goes, and a new one comes if it is needed.    *)
LEMMA CopyFromPreserves ==
    ASSUME VecInv, NEW v \in alive, NEW n \in Sizes,
           CopyFrom(v, n), UNCHANGED <<alive, client>>
    PROVE  VecInv'
<1> USE HidlVecAssumption DEF VecInv, Sizes, Valid, Deleted, Set, CopyFrom
<1>0. v \in Vecs
  BY DEF TypeOK
<1>1. CASE n > 0
  <2>0. PICK b \in Buffers : Allocate(b, n, Deleted(v)) /\ Set(v, b, n, TRUE)
    BY <1>1
  <2> movedFrom' = movedFrom \ {v}
    OBVIOUS
  <2> HIDE DEF CopyFrom
  <2>1. TypeOK'
    BY <1>0, <2>0 DEF Allocate, TypeOK
  <2>2. OwnedOnce'
    BY <1>0, <2>0 DEF Allocate, OwnedOnce, OnlyValidOwn, ClientAllocated,
       TypeOK
  <2>3. NoLeak'
    BY <1>0, <2>0 DEF Allocate, NoLeak, OwnedOnce, TypeOK
  <2>4. ElementsReadable'
    BY <1>0, <2>0 DEF Allocate, ElementsReadable, OwnedAlone, TypeOK
  <2>5. ValidAllocated'
    BY <1>0, <2>0 DEF Allocate, ValidAllocated, OwnedAlone, TypeOK
  <2>6. ClientAllocated'
    BY <1>0, <2>0 DEF Allocate, ClientAllocated, OwnedOnce, TypeOK
  <2>7. OwnedAlone'
    BY <1>0, <2>0 DEF Allocate, OwnedAlone, ValidAllocated, OwnedOnce,
       OnlyValidOwn, ClientAllocated, TypeOK
  <2>8. OnlyValidOwn'
    BY <1>0, <2>0 DEF Allocate, OnlyValidOwn, TypeOK
  <2> QED BY <2>1, <2>2, <2>3, <2>4, <2>5, <2>6, <2>7, <2>8
<1>2. CASE ~(n > 0)
  <2>0. /\ heap' = heap \ Deleted(v)
        /\ length' = length
        /\ Set(v, Null, 0, TRUE)
        /\ movedFrom' = movedFrom \ {v}
    BY <1>2
  <2> HIDE DEF CopyFrom
  <2>1. TypeOK'
    BY <1>0, <2>0 DEF TypeOK
  <2>2. OwnedOnce'
    BY <1>0, <2>0 DEF OwnedOnce, OnlyValidOwn, ClientAllocated, TypeOK
  <2>3. NoLeak'
    BY <1>0, <2>0 DEF NoLeak, OwnedOnce, TypeOK
  <2>4. ElementsReadable'
    BY <1>0, <2>0 DEF ElementsReadable, OwnedAlone, TypeOK
  <2>5. ValidAllocated'
    BY <1>0, <2>0 DEF ValidAllocated, OwnedAlone, TypeOK
  <2>6. ClientAllocated'
    BY <1>0, <2>0 DEF ClientAllocated, OwnedOnce, TypeOK
  <2>7. OwnedAlone'
    BY <1>0, <2>0 DEF OwnedAlone, ValidAllocated, OwnedOnce, OnlyValidOwn,
       ClientAllocated, TypeOK
  <2>8. OnlyValidOwn'
    BY <1>0, <2>0 DEF OnlyValidOwn, TypeOK
  <2> QED BY <2>1, <2>2, <2>3, <2>4, <2>5, <2>6, <2>7, <2>8
<1> QED BY <1>1, <1>2

(* Assignment from another vector.                                         *)
LEMMA CopyAssignPreserves ==
    ASSUME VecInv, NEW v \in Vecs, NEW w \in Vecs, CopyAssign(v, w)
    PROVE  VecInv'
<1>1. mSize[w] \in Sizes
  BY DEF VecInv, TypeOK
<1> QED BY <1>1, CopyFromPreserves DEF CopyAssign

(* Assignment from a std::vector.                                          *)
LEMMA CopyAssignStdPreserves ==
    ASSUME VecInv, NEW v \in Vecs, NEW n \in Sizes, CopyAssignStd(v, n)
    PROVE  VecInv'
BY CopyFromPreserves DEF CopyAssignStd

(* The array passes to the client; a lent one is copied first.             *)
LEMMA ReleaseDataPreserves ==
    ASSUME VecInv, NEW v \in Vecs, ReleaseData(v)
    PROVE  VecInv'
<1> USE HidlVecAssumption DEF VecInv, Sizes, Valid, Deleted, Set
<1>1. CASE ~mOwnsBuffer[v] /\ mSize[v] > 0
  <2>0. PICK b \in Buffers \ heap :
            /\ Allocate(b, mSize[v], {})
            /\ Set(v, b, mSize[v], FALSE)
            /\ client' = client \union {b}
    BY <1>1 DEF ReleaseData
  <2> v \in Valid /\ UNCHANGED <<alive, movedFrom>>
    BY DEF ReleaseData
  <2>1. TypeOK'
    BY <2>0, <1>1 DEF Allocate, TypeOK
  <2>2. OwnedOnce'
    BY <2>0, <1>1 DEF Allocate, OwnedOnce, OnlyValidOwn, ClientAllocated,
       TypeOK
  <2>3. NoLeak'
    BY <2>0, <1>1 DEF Allocate, NoLeak, OwnedOnce, TypeOK
  <2>4. ElementsReadable'
    BY <2>0, <1>1 DEF Allocate, ElementsReadable, OwnedAlone, TypeOK
  <2>5. ValidAllocated'
    BY <2>0, <1>1 DEF Allocate, ValidAllocated, OwnedAlone, TypeOK
  <2>6. ClientAllocated'
    BY <2>0, <1>1 DEF Allocate, ClientAllocated, OwnedOnce, TypeOK
  <2>7. OwnedAlone'
    BY <2>0, <1>1 DEF Allocate, OwnedAlone, ValidAllocated, OwnedOnce,
       OnlyValidOwn, ClientAllocated, TypeOK
  <2>8. OnlyValidOwn'
    BY <2>0, <1>1 DEF Allocate, OnlyValidOwn, TypeOK
  <2> QED BY <2>1, <2>2, <2>3, <2>4, <2>5, <2>6, <2>7, <2>8
<1>2. CASE ~(~mOwnsBuffer[v] /\ mSize[v] > 0)
  <2>1. TypeOK'
    BY <1>2 DEF ReleaseData, TypeOK
  <2>2. OwnedOnce'
    BY <1>2 DEF ReleaseData, OwnedOnce, OnlyValidOwn, ClientAllocated, TypeOK
  <2>3. NoLeak'
    BY <1>2 DEF ReleaseData, NoLeak, OwnedOnce, TypeOK
  <2>4. ElementsReadable'
    BY <1>2 DEF ReleaseData, ElementsReadable, OwnedAlone, TypeOK
  <2>5. ValidAllocated'
    BY <1>2 DEF ReleaseData, ValidAllocated, OwnedAlone, TypeOK
  <2>6. ClientAllocated'
    BY <1>2 DEF ReleaseData, ClientAllocated, OwnedOnce, TypeOK
  <2>7. OwnedAlone'
    BY <1>2 DEF ReleaseData, OwnedAlone, ValidAllocated, OwnedOnce,
       OnlyValidOwn, ClientAllocated, TypeOK
  <2>8. OnlyValidOwn'
    BY <1>2 DEF ReleaseData, OnlyValidOwn, TypeOK
  <2> QED BY <2>1, <2>2, <2>3, <2>4, <2>5, <2>6, <2>7, <2>8
<1> QED BY <1>1, <1>2

(* Nothing is allocated and nothing owned at first.                        *)
LEMMA InitInvariant == Init => VecInv
BY HidlVecAssumption DEF Init, VecInv, Sizes, Valid, Deleted, TypeOK, OwnedOnce,
   NoLeak, ElementsReadable, ValidAllocated, ClientAllocated, OwnedAlone,
   OnlyValidOwn

(* Every step of the vectors and of the client preserves the invariant.    *)
LEMMA NextInvariant == VecInv /\ [Next]_vars => VecInv'
<1> SUFFICES ASSUME VecInv, [Next]_vars PROVE VecInv'
  OBVIOUS
<1>1. ASSUME NEW v \in Vecs, Construct(v) \/ ReleaseData(v) \/ Destroy(v)
      PROVE  VecInv'
  BY <1>1, ConstructPreserves, ReleaseDataPreserves, DestroyPreserves
<1>2. ASSUME NEW v \in Vecs, NEW n \in Sizes,
             ConstructFrom(v, n) \/ CopyAssignStd(v, n) \/ Resize(v, n)
      PROVE  VecInv'
  BY <1>2, ConstructFromPreserves, CopyAssignStdPreserves, ResizePreserves
<1>3. ASSUME NEW v \in Vecs, NEW w \in Vecs,
             MoveConstruct(v, w) \/ CopyAssign(v, w) \/ MoveAssign(v, w)
      PROVE  VecInv'
  BY <1>3, MoveConstructPreserves, CopyAssignPreserves, MoveAssignPreserves
<1>4. ASSUME NEW v \in Vecs, NEW b \in Buffers, NEW n \in Sizes,
             NEW own \in BOOLEAN, SetToExternal(v, b, n, own)
      PROVE  VecInv'
  BY <1>4, SetToExternalPreserves
<1>5. ASSUME NEW b \in Buffers, ClientDelete(b) PROVE VecInv'
  BY <1>5, ClientDeletePreserves
<1>6. ASSUME NEW b \in Buffers, NEW n \in Sizes, ClientNew(b, n) PROVE VecInv'
  BY <1>6, ClientNewPreserves
<1>7. CASE UNCHANGED vars
  BY <1>7 DEF vars, VecInv, Sizes, Valid, Deleted, TypeOK, OwnedOnce, NoLeak,
     ElementsReadable, ValidAllocated, ClientAllocated, OwnedAlone,
     OnlyValidOwn
<1> QED BY <1>1, <1>2, <1>3, <1>4, <1>5, <1>6, <1>7 DEF Next

-----------------------------------------------------------------------------
(* The invariant holds in every reachable state.                           *)
THEOREM VecInvariant == Spec => []VecInv
BY InitInvariant, NextInvariant, PTL DEF Spec

(* The members of a hidl_vec always have their types, and no moved-from    *)
(* object is left behind by a destructor.                                  *)
THEOREM VecTypeCorrect == Spec => []TypeOK
<1>1. VecInv => TypeOK
  BY DEF VecInv
<1> QED BY <1>1, VecInvariant, PTL

(* hidl_vec deletes no array twice and none that belongs to someone else,  *)
(* whatever sequence of copies, moves, lendings and releases is made.      *)
THEOREM VecOwnedOnce == Spec => []OwnedOnce
<1>1. VecInv => OwnedOnce
  BY DEF VecInv
<1> QED BY <1>1, VecInvariant, PTL

(* hidl_vec leaks no array: each allocated one has an owner.               *)
THEOREM VecNoLeak == Spec => []NoLeak
<1>1. VecInv => NoLeak
  BY DEF VecInv
<1> QED BY <1>1, VecInvariant, PTL

(* The elements of a hidl_vec with a value lie in an allocated array.      *)
THEOREM VecElementsReadable == Spec => []ElementsReadable
<1>1. VecInv => ElementsReadable
  BY DEF VecInv
<1> QED BY <1>1, VecInvariant, PTL

-----------------------------------------------------------------------------
(***************************************************************************)
(* Part 2: hidl_handle and MQDescriptor.                                   *)
(***************************************************************************)
(* An object that is not constructed owns nothing.                         *)
OnlyHoldersOwn == \A h \in Holders \ holders : ~mOwnsHandle[h]

HandleInv ==
    /\ HandleTypeOK
    /\ OnlyHoldersOwn
    /\ HandleClosedOnce
    /\ HandleNoLeak

-----------------------------------------------------------------------------
(* A handle that is not owned changes nothing.                             *)
LEMMA ConstructHandlePreserves ==
    ASSUME HandleInv, NEW h \in Holders, NEW n \in Natives \union {NoNative}, ConstructHandle(h, n)
    PROVE  HandleInv'
<1> USE HidlHandleAssumption DEF HandleInv, Holders, freeHandle, Point, ConstructHandle
<1>1. HandleTypeOK'
  BY DEF HandleTypeOK, OnlyHoldersOwn, HandleClosedOnce
<1>2. OnlyHoldersOwn'
  BY DEF HandleTypeOK, OnlyHoldersOwn
<1>3. HandleClosedOnce'
  BY DEF HandleTypeOK, OnlyHoldersOwn, HandleClosedOnce
<1>4. HandleNoLeak'
  BY DEF HandleTypeOK, OnlyHoldersOwn, HandleClosedOnce, HandleNoLeak
<1> QED BY <1>1, <1>2, <1>3, <1>4

(* What h owned is closed; what it gets it does not own.                   *)
LEMMA AssignNativePreserves ==
    ASSUME HandleInv, NEW h \in Holders, NEW n \in Natives \union {NoNative}, AssignNative(h, n)
    PROVE  HandleInv'
<1> USE HidlHandleAssumption DEF HandleInv, Holders, freeHandle, Point, AssignNative
<1>1. HandleTypeOK'
  BY DEF HandleTypeOK, OnlyHoldersOwn, HandleClosedOnce
<1>2. OnlyHoldersOwn'
  BY DEF HandleTypeOK, OnlyHoldersOwn
<1>3. HandleClosedOnce'
  BY DEF HandleTypeOK, OnlyHoldersOwn, HandleClosedOnce
<1>4. HandleNoLeak'
  BY DEF HandleTypeOK, OnlyHoldersOwn, HandleClosedOnce, HandleNoLeak
<1> QED BY <1>1, <1>2, <1>3, <1>4

(* The client's handle gets its only owner.                                *)
LEMMA SetToOwnedPreserves ==
    ASSUME HandleInv, NEW h \in Holders, NEW n \in Natives \union {NoNative}, SetToOwned(h, n)
    PROVE  HandleInv'
<1> USE HidlHandleAssumption DEF HandleInv, Holders, freeHandle, Point, SetToOwned
<1>1. HandleTypeOK'
  BY DEF HandleTypeOK, OnlyHoldersOwn, HandleClosedOnce
<1>2. OnlyHoldersOwn'
  BY DEF HandleTypeOK, OnlyHoldersOwn
<1>3. HandleClosedOnce'
  BY DEF HandleTypeOK, OnlyHoldersOwn, HandleClosedOnce
<1>4. HandleNoLeak'
  BY DEF HandleTypeOK, OnlyHoldersOwn, HandleClosedOnce, HandleNoLeak
<1> QED BY <1>1, <1>2, <1>3, <1>4

(* The same for a descriptor.                                              *)
LEMMA ConstructDescriptorPreserves ==
    ASSUME HandleInv, NEW h \in Holders, NEW n \in Natives \union {NoNative},
           ConstructDescriptor(h, n)
    PROVE  HandleInv'
<1> USE HidlHandleAssumption DEF HandleInv, Holders, freeHandle, Point, ConstructDescriptor
<1>1. HandleTypeOK'
  BY DEF HandleTypeOK, OnlyHoldersOwn, HandleClosedOnce
<1>2. OnlyHoldersOwn'
  BY DEF HandleTypeOK, OnlyHoldersOwn
<1>3. HandleClosedOnce'
  BY DEF HandleTypeOK, OnlyHoldersOwn, HandleClosedOnce
<1>4. HandleNoLeak'
  BY DEF HandleTypeOK, OnlyHoldersOwn, HandleClosedOnce, HandleNoLeak
<1> QED BY <1>1, <1>2, <1>3, <1>4

(* What h owned is closed, and nobody else owned it.                       *)
LEMMA DestroyHolderPreserves ==
    ASSUME HandleInv, NEW h \in Holders, DestroyHolder(h)
    PROVE  HandleInv'
<1> USE HidlHandleAssumption DEF HandleInv, Holders, freeHandle, Point, DestroyHolder
<1>1. HandleTypeOK'
  BY DEF HandleTypeOK, OnlyHoldersOwn, HandleClosedOnce
<1>2. OnlyHoldersOwn'
  BY DEF HandleTypeOK, OnlyHoldersOwn
<1>3. HandleClosedOnce'
  BY DEF HandleTypeOK, OnlyHoldersOwn, HandleClosedOnce
<1>4. HandleNoLeak'
  BY DEF HandleTypeOK, OnlyHoldersOwn, HandleClosedOnce, HandleNoLeak
<1> QED BY <1>1, <1>2, <1>3, <1>4

(* A handle that was closed has no owner.                                  *)
LEMMA ClientCreatePreserves ==
    ASSUME HandleInv, NEW n \in Natives, ClientCreate(n)
    PROVE  HandleInv'
<1> USE HidlHandleAssumption DEF HandleInv, Holders, freeHandle, ClientCreate
<1>1. HandleTypeOK'
  BY DEF HandleTypeOK, OnlyHoldersOwn, HandleClosedOnce
<1>2. OnlyHoldersOwn'
  BY DEF HandleTypeOK, OnlyHoldersOwn
<1>3. HandleClosedOnce'
  BY DEF HandleTypeOK, OnlyHoldersOwn, HandleClosedOnce
<1>4. HandleNoLeak'
  BY DEF HandleTypeOK, OnlyHoldersOwn, HandleClosedOnce, HandleNoLeak
<1> QED BY <1>1, <1>2, <1>3, <1>4

(* The client's handles have no owner.                                     *)
LEMMA ClientClosePreserves ==
    ASSUME HandleInv, NEW n \in Natives, ClientClose(n)
    PROVE  HandleInv'
<1> USE HidlHandleAssumption DEF HandleInv, Holders, freeHandle, ClientClose
<1>1. HandleTypeOK'
  BY DEF HandleTypeOK, OnlyHoldersOwn, HandleClosedOnce
<1>2. OnlyHoldersOwn'
  BY DEF HandleTypeOK, OnlyHoldersOwn
<1>3. HandleClosedOnce'
  BY DEF HandleTypeOK, OnlyHoldersOwn, HandleClosedOnce
<1>4. HandleNoLeak'
  BY DEF HandleTypeOK, OnlyHoldersOwn, HandleClosedOnce, HandleNoLeak
<1> QED BY <1>1, <1>2, <1>3, <1>4

(* A clone has an address nobody uses; what h owned is closed.             *)
LEMMA CloneFromPreserves ==
    ASSUME HandleInv, NEW h \in Holders, NEW w \in Holders, CloneFrom(h, w),
           holders' = holders \union {h}, UNCHANGED callers
    PROVE  HandleInv'
<1> USE HidlHandleAssumption DEF HandleInv, Holders, freeHandle, Point
<1>1. CASE mHandle[w] = NoNative
  <2>0. open' = open \ freeHandle(h) /\ Point(h, NoNative, FALSE)
    BY <1>1 DEF CloneFrom
  <2>1. HandleTypeOK'
    BY <2>0 DEF HandleTypeOK, OnlyHoldersOwn, HandleClosedOnce
  <2>2. OnlyHoldersOwn'
    BY <2>0 DEF HandleTypeOK, OnlyHoldersOwn
  <2>3. HandleClosedOnce'
    BY <2>0 DEF HandleTypeOK, OnlyHoldersOwn, HandleClosedOnce
  <2>4. HandleNoLeak'
    BY <2>0 DEF HandleTypeOK, OnlyHoldersOwn, HandleClosedOnce, HandleNoLeak
  <2> QED BY <2>1, <2>2, <2>3, <2>4
<1>2. CASE mHandle[w] # NoNative
  <2>0. PICK n \in Natives \ (open \ freeHandle(h)) :
            open' = (open \ freeHandle(h)) \union {n} /\ Point(h, n, TRUE)
    BY <1>2 DEF CloneFrom
  <2>1. HandleTypeOK'
    BY <2>0 DEF HandleTypeOK, OnlyHoldersOwn, HandleClosedOnce
  <2>2. OnlyHoldersOwn'
    BY <2>0 DEF HandleTypeOK, OnlyHoldersOwn
  <2>3. HandleClosedOnce'
    BY <2>0 DEF HandleTypeOK, OnlyHoldersOwn, HandleClosedOnce
  <2>4. HandleNoLeak'
    BY <2>0 DEF HandleTypeOK, OnlyHoldersOwn, HandleClosedOnce, HandleNoLeak
  <2> QED BY <2>1, <2>2, <2>3, <2>4
<1> QED BY <1>1, <1>2

(* A move hands the ownership on.                                          *)
LEMMA MoveFromPreserves ==
    ASSUME HandleInv, NEW h \in Holders, NEW w \in holders \ {h}, MoveFrom(h, w),
           holders' = holders \union {h}, UNCHANGED callers
    PROVE  HandleInv'
<1> USE HidlHandleAssumption DEF HandleInv, Holders, freeHandle, MoveFrom
<1>1. HandleTypeOK'
  BY DEF HandleTypeOK, OnlyHoldersOwn, HandleClosedOnce
<1>2. OnlyHoldersOwn'
  BY DEF HandleTypeOK, OnlyHoldersOwn
<1>3. HandleClosedOnce'
  BY DEF HandleTypeOK, OnlyHoldersOwn, HandleClosedOnce
<1>4. HandleNoLeak'
  BY DEF HandleTypeOK, OnlyHoldersOwn, HandleClosedOnce, HandleNoLeak
<1> QED BY <1>1, <1>2, <1>3, <1>4

-----------------------------------------------------------------------------
(* Nothing is open and nothing owned at first.                             *)
LEMMA HandleInitEstablishes == HandleInit => HandleInv
BY HidlHandleAssumption DEF HandleInit, HandleInv, Holders, freeHandle,
   HandleTypeOK, OnlyHoldersOwn, HandleClosedOnce, HandleNoLeak

(* Every step of the objects and of the client preserves the invariant.    *)
LEMMA HandleNextPreserves == HandleInv /\ [HandleNext]_handleVars => HandleInv'
<1> SUFFICES ASSUME HandleInv, [HandleNext]_handleVars PROVE HandleInv'
  OBVIOUS
<1>1. ASSUME NEW h \in Holders, DestroyHolder(h) PROVE HandleInv'
  BY <1>1, DestroyHolderPreserves
<1>2. ASSUME NEW h \in Holders, NEW n \in Natives \union {NoNative},
             \/ ConstructHandle(h, n) \/ AssignNative(h, n)
             \/ SetToOwned(h, n) \/ ConstructDescriptor(h, n)
      PROVE  HandleInv'
  BY <1>2, ConstructHandlePreserves, AssignNativePreserves, SetToOwnedPreserves,
     ConstructDescriptorPreserves
<1>3. ASSUME NEW h \in Holders, NEW w \in Holders,
             CopyConstructHandle(h, w) \/ CopyDescriptor(h, w) \/ CopyAssignHandle(h, w)
      PROVE  HandleInv'
  <2>1. CloneFrom(h, w) /\ UNCHANGED callers
    BY <1>3 DEF CopyConstructHandle, CopyDescriptor, CopyAssignHandle
  <2>2. holders' = holders \union {h}
    BY <1>3 DEF CopyConstructHandle, CopyDescriptor, CopyAssignHandle
  <2> QED BY <2>1, <2>2, CloneFromPreserves
<1>4. ASSUME NEW h \in Holders, NEW w \in Holders,
             MoveConstructHandle(h, w) \/ MoveAssignHandle(h, w)
      PROVE  HandleInv'
  <2>1. w \in holders \ {h} /\ MoveFrom(h, w) /\ UNCHANGED callers
    BY <1>4 DEF MoveConstructHandle, MoveAssignHandle
  <2>2. holders' = holders \union {h}
    BY <1>4 DEF MoveConstructHandle, MoveAssignHandle
  <2> QED BY <2>1, <2>2, MoveFromPreserves
<1>5. ASSUME NEW n \in Natives, ClientCreate(n) \/ ClientClose(n) PROVE HandleInv'
  BY <1>5, ClientCreatePreserves, ClientClosePreserves
<1>6. CASE UNCHANGED handleVars
  BY <1>6 DEF handleVars, HandleInv, Holders, freeHandle, HandleTypeOK,
     OnlyHoldersOwn, HandleClosedOnce, HandleNoLeak
<1> QED BY <1>1, <1>2, <1>3, <1>4, <1>5, <1>6 DEF HandleNext

-----------------------------------------------------------------------------
(* The invariant holds in every reachable state.                           *)
THEOREM HandleInvariant == HandleSpec => []HandleInv
<1>1. HandleInit => HandleInv
  BY HandleInitEstablishes
<1>2. HandleInv /\ [HandleNext]_handleVars => HandleInv'
  BY HandleNextPreserves
<1> QED BY <1>1, <1>2, PTL DEF HandleSpec

(***************************************************************************)
(* No native handle is closed twice or under its owner, whatever sequence  *)
(* of copies, moves, assignments and setTo() calls hidl_handle and         *)
(* MQDescriptor objects go through.                                        *)
(***************************************************************************)
THEOREM HandlesClosedOnce == HandleSpec => []HandleClosedOnce
<1>1. HandleInv => HandleClosedOnce
  BY DEF HandleInv
<1> QED BY <1>1, HandleInvariant, PTL

(***************************************************************************)
(* hidl_handle and MQDescriptor lose no open native handle.                *)
(***************************************************************************)
THEOREM HandlesNotLeaked == HandleSpec => []HandleNoLeak
<1>1. HandleInv => HandleNoLeak
  BY DEF HandleInv
<1> QED BY <1>1, HandleInvariant, PTL

-----------------------------------------------------------------------------
(***************************************************************************)
(* Part 3: hidl_string.                                                    *)
(***************************************************************************)
StringTypeOK ==
    /\ strings \subseteq Strings
    /\ sBuffer \in [Strings -> Blocks \union {kEmptyString}]
    /\ sSize \in [Strings -> Nat]
    /\ sOwnsBuffer \in [Strings -> BOOLEAN]
    /\ text \in [Blocks -> Seq(Characters) \union {Freed}]
    /\ lent \subseteq Blocks
    /\ value \in [Strings -> Seq(Characters)]

(* An array with an owner is allocated, and has one owner.                 *)
BlocksOwned ==
    /\ \A b \in lent : text[b] # Freed
    /\ \A s \in Strings : sOwnsBuffer[s] =>
          /\ sBuffer[s] \in Blocks \ lent
          /\ text[sBuffer[s]] # Freed
          /\ \A w \in Strings \ {s} : sBuffer[w] # sBuffer[s]

(* An allocated array has an owner; a string that is not constructed      *)
(* points to nothing.                                                      *)
BlocksReachable ==
    /\ \A b \in Blocks : text[b] # Freed =>
          b \in lent \/ \E s \in Strings : sOwnsBuffer[s] /\ sBuffer[s] = b
    /\ \A s \in Strings \ strings : ~sOwnsBuffer[s] /\ sBuffer[s] = kEmptyString

(* What a string points to without owning it is lent.                      *)
BorrowedIsLent ==
    \A s \in Strings : ~sOwnsBuffer[s] /\ sBuffer[s] # kEmptyString => sBuffer[s] \in lent

(* The characters a string points to are the value its user expects.       *)
Holds(s) ==
    /\ sBuffer[s] = kEmptyString => value[s] = <<>>
    /\ sBuffer[s] # kEmptyString =>
          /\ text[sBuffer[s]] # Freed
          /\ sSize[s] \in 0..Len(text[sBuffer[s]])
          /\ value[s] = SubSeq(text[sBuffer[s]], 1, sSize[s])
    /\ sSize[s] = Len(value[s])

StringInv ==
    /\ StringTypeOK
    /\ BlocksOwned
    /\ BlocksReachable
    /\ BorrowedIsLent
    /\ \A s \in Strings : Holds(s)

-----------------------------------------------------------------------------
(* A string keeps its value when neither its members nor its characters    *)
(* change.                                                                 *)
LEMMA HoldsStill ==
    ASSUME NEW s \in Strings, Holds(s),
           sBuffer'[s] = sBuffer[s], sSize'[s] = sSize[s], value'[s] = value[s],
           sBuffer[s] # kEmptyString => text'[sBuffer[s]] = text[sBuffer[s]]
    PROVE  Holds(s)'
BY DEF Holds

(* The first characters of a text.                                         *)
LEMMA PrefixOfText ==
    ASSUME NEW t \in Seq(Characters), NEW n \in 0..Len(t)
    PROVE  /\ SubSeq(t, 1, n) \in Seq(Characters)
           /\ Len(SubSeq(t, 1, n)) = n
           /\ n = Len(t) => SubSeq(t, 1, n) = t
OBVIOUS

(* s gives up what it had and points to nothing, or to characters of the   *)
(* client.                                                                 *)
LEMMA BorrowPreserves ==
    ASSUME StringInv, NEW s \in Strings, NEW b, NEW n \in Nat, NEW v,
           \/ b = kEmptyString /\ n = 0 /\ v = <<>>
           \/ b \in lent /\ n \in 0..Len(text[b]) /\ v = SubSeq(text[b], 1, n),
           text' = Cleared(s), SetString(s, b, n, FALSE),
           value' = [value EXCEPT ![s] = v], lent' = lent,
           strings' \subseteq Strings, strings \ {s} \subseteq strings',
           s \in strings' \/ b = kEmptyString
    PROVE  StringInv'
<1> USE HidlStringAssumption DEF StringInv, SetString, Cleared
<1>1. v \in Seq(Characters) /\ Len(v) = n
  <2>1. CASE b = kEmptyString /\ n = 0 /\ v = <<>>
    BY <2>1
  <2>2. CASE b \in lent /\ n \in 0..Len(text[b]) /\ v = SubSeq(text[b], 1, n)
    <3>1. text[b] \in Seq(Characters)
      BY <2>2 DEF StringTypeOK, BlocksOwned
    <3> QED BY <2>2, <3>1, PrefixOfText
  <2> QED BY <2>1, <2>2
<1>2. StringTypeOK'
  BY <1>1 DEF StringTypeOK
<1>3. BlocksOwned'
  BY DEF StringTypeOK, BlocksOwned
<1>4. BlocksReachable'
  BY DEF StringTypeOK, BlocksOwned, BlocksReachable
<1>5. BorrowedIsLent'
  BY DEF StringTypeOK, BorrowedIsLent
<1>6. Holds(s)'
  <2>1. sBuffer'[s] = b /\ sSize'[s] = n /\ value'[s] = v
    BY DEF StringTypeOK
  <2>2. b \in lent => text'[b] = text[b] /\ text[b] # Freed /\ b # kEmptyString
    BY DEF StringTypeOK, BlocksOwned
  <2> QED BY <1>1, <2>1, <2>2 DEF Holds
<1>7. ASSUME NEW w \in Strings \ {s} PROVE Holds(w)'
  <2>1. sBuffer'[w] = sBuffer[w] /\ sSize'[w] = sSize[w] /\ value'[w] = value[w]
    BY DEF StringTypeOK
  <2>2. sBuffer[w] # kEmptyString => text'[sBuffer[w]] = text[sBuffer[w]]
    BY DEF StringTypeOK, BlocksOwned
  <2> QED BY <2>1, <2>2, HoldsStill
<1> QED BY <1>2, <1>3, <1>4, <1>5, <1>6, <1>7

(* s gets characters of its own, in an array that nobody uses.             *)
LEMMA CopyPreserves ==
    ASSUME StringInv, NEW s \in strings, NEW t \in Seq(Characters),
           CopyFromText(s, t), value' = [value EXCEPT ![s] = t],
           UNCHANGED <<strings, lent>>
    PROVE  StringInv'
<1> USE HidlStringAssumption DEF StringInv, SetString
<1>0. PICK b \in Blocks : /\ Cleared(s)[b] = Freed
                          /\ text' = [Cleared(s) EXCEPT ![b] = t]
                          /\ SetString(s, b, Len(t), TRUE)
  BY DEF CopyFromText
<1>a. s \in Strings /\ t # Freed
  BY DEF StringTypeOK
<1>b. text' = [c \in Blocks |-> IF c = b THEN t
               ELSE IF sOwnsBuffer[s] /\ sBuffer[s] = c THEN Freed ELSE text[c]]
  BY <1>0 DEF Cleared
<1>c. text[b] = Freed \/ (sOwnsBuffer[s] /\ sBuffer[s] = b)
  BY <1>0 DEF Cleared
<1>d. \A w \in Strings \ {s} : sBuffer[w] # b
  BY <1>c, <1>a DEF BlocksOwned, BorrowedIsLent, StringTypeOK, Holds
<1>e. b \notin lent
  BY <1>c, <1>a DEF BlocksOwned
<1>2. StringTypeOK'
  <2>1. text' \in [Blocks -> Seq(Characters) \union {Freed}]
    BY <1>b DEF StringTypeOK
  <2>2. value' \in [Strings -> Seq(Characters)] /\ sSize' \in [Strings -> Nat]
    BY <1>0 DEF StringTypeOK
  <2>3. sBuffer' \in [Strings -> Blocks \union {kEmptyString}]
        /\ sOwnsBuffer' \in [Strings -> BOOLEAN]
    BY <1>0 DEF StringTypeOK
  <2> QED BY <2>1, <2>2, <2>3 DEF StringTypeOK
<1>3. BlocksOwned'
  BY <1>0, <1>a, <1>b, <1>c, <1>d, <1>e DEF StringTypeOK, BlocksOwned
<1>4. BlocksReachable'
  BY <1>0, <1>a, <1>b DEF StringTypeOK, BlocksOwned, BlocksReachable
<1>5. BorrowedIsLent'
  BY <1>0, <1>a DEF StringTypeOK, BorrowedIsLent
<1>6. Holds(s)'
  <2>1. sBuffer'[s] = b /\ sSize'[s] = Len(t) /\ value'[s] = t /\ text'[b] = t
    BY <1>0, <1>a, <1>b DEF StringTypeOK
  <2>2. t = SubSeq(t, 1, Len(t)) /\ Len(t) \in 0..Len(t) /\ b # kEmptyString
    BY PrefixOfText
  <2> QED BY <1>a, <2>1, <2>2 DEF Holds
<1>7. ASSUME NEW w \in Strings \ {s} PROVE Holds(w)'
  <2>1. sBuffer'[w] = sBuffer[w] /\ sSize'[w] = sSize[w] /\ value'[w] = value[w]
    BY <1>0 DEF StringTypeOK
  <2>2. sBuffer[w] # kEmptyString => text'[sBuffer[w]] = text[sBuffer[w]]
    BY <1>a, <1>b, <1>d DEF StringTypeOK, BlocksOwned
  <2> QED BY <2>1, <2>2, HoldsStill
<1> QED BY <1>2, <1>3, <1>4, <1>5, <1>6, <1>7

(* A move hands the characters and the ownership on.                       *)
LEMMA MoveStringPreserves ==
    ASSUME StringInv, NEW s \in Strings, NEW w \in Strings, MoveAssignString(s, w)
    PROVE  StringInv'
<1> USE HidlStringAssumption DEF StringInv
<1>0. /\ s \in strings /\ w \in strings \ {s} /\ s # w
      /\ text' = [c \in Blocks |-> IF sOwnsBuffer[s] /\ sBuffer[s] = c THEN Freed ELSE text[c]]
      /\ sBuffer' = [sBuffer EXCEPT ![s] = sBuffer[w], ![w] = kEmptyString]
      /\ sSize' = [sSize EXCEPT ![s] = sSize[w], ![w] = 0]
      /\ sOwnsBuffer' = [sOwnsBuffer EXCEPT ![s] = sOwnsBuffer[w], ![w] = FALSE]
      /\ value' = [value EXCEPT ![s] = value[w], ![w] = <<>>]
      /\ strings' = strings /\ lent' = lent
  BY DEF MoveAssignString, MoveFromString, Cleared
<1>2. StringTypeOK'
  <2>1. text' \in [Blocks -> Seq(Characters) \union {Freed}]
    BY <1>0 DEF StringTypeOK
  <2>2. value' \in [Strings -> Seq(Characters)]
    BY <1>0, <<>> \in Seq(Characters) DEF StringTypeOK
  <2>4. sSize' \in [Strings -> Nat]
    BY <1>0, 0 \in Nat DEF StringTypeOK
  <2>3. sBuffer' \in [Strings -> Blocks \union {kEmptyString}]
        /\ sOwnsBuffer' \in [Strings -> BOOLEAN]
    BY <1>0 DEF StringTypeOK
  <2> QED BY <1>0, <2>1, <2>2, <2>3, <2>4 DEF StringTypeOK
<1>a. \A u \in Strings :
         /\ sBuffer'[u] = IF u = w THEN kEmptyString ELSE IF u = s THEN sBuffer[w] ELSE sBuffer[u]
         /\ sOwnsBuffer'[u] = IF u = w THEN FALSE ELSE IF u = s THEN sOwnsBuffer[w]
                                                               ELSE sOwnsBuffer[u]
  BY <1>0 DEF StringTypeOK
<1>3. BlocksOwned'
  <2>1. \A c \in lent : text'[c] # Freed
    BY <1>0 DEF StringTypeOK, BlocksOwned
  <2>2. ASSUME NEW u \in Strings, sOwnsBuffer'[u]
        PROVE  /\ sBuffer'[u] \in Blocks \ lent
               /\ text'[sBuffer'[u]] # Freed
               /\ \A v \in Strings \ {u} : sBuffer'[v] # sBuffer'[u]
    <3>1. PICK x \in Strings : /\ x # s /\ sOwnsBuffer[x] /\ sBuffer[x] = sBuffer'[u]
                               /\ IF u = s THEN x = w ELSE x = u /\ u # w
      BY <1>0, <1>a, <2>2
    <3>2. /\ sBuffer[x] \in Blocks \ lent /\ text[sBuffer[x]] # Freed
          /\ \A v \in Strings \ {x} : sBuffer[v] # sBuffer[x]
      BY <3>1 DEF BlocksOwned
    <3>3. text'[sBuffer[x]] # Freed
      BY <1>0, <3>1, <3>2
    <3>4. ASSUME NEW v \in Strings \ {u} PROVE sBuffer'[v] # sBuffer'[u]
      <4>1. CASE v = w
        BY <1>a, <3>1, <3>2, <4>1
      <4>2. CASE v = s
        <5>1. sBuffer'[v] = sBuffer[w] /\ w \in Strings /\ v # u
          BY <1>0, <1>a, <4>2 DEF StringTypeOK
        <5>2. x = u /\ u # w
          BY <3>1, <4>2, <5>1
        <5> QED BY <3>1, <3>2, <5>1, <5>2
      <4>3. CASE v \notin {s, w}
        BY <1>a, <3>1, <3>2, <4>3
      <4> QED BY <4>1, <4>2, <4>3
    <3> QED BY <3>1, <3>2, <3>3, <3>4
  <2> QED BY <1>0, <2>1, <2>2 DEF BlocksOwned
<1>4. BlocksReachable'
  <2>1. ASSUME NEW c \in Blocks, text'[c] # Freed, c \notin lent
        PROVE  \E u \in Strings : sOwnsBuffer'[u] /\ sBuffer'[u] = c
    <3>1. PICK u \in Strings : sOwnsBuffer[u] /\ sBuffer[u] = c
      BY <1>0, <2>1 DEF BlocksReachable
    <3>2. u # s
      BY <1>0, <2>1, <3>1
    <3>3. CASE u = w
      <4>1. s \in Strings /\ s # w
        BY <1>0 DEF StringTypeOK
      <4>2. sOwnsBuffer'[s] /\ sBuffer'[s] = c
        BY <1>a, <3>1, <3>3, <4>1
      <4> QED BY <4>1, <4>2
    <3>4. CASE u # w
      <4>1. sOwnsBuffer'[u] /\ sBuffer'[u] = c
        BY <1>a, <3>1, <3>2, <3>4
      <4> QED BY <4>1
    <3> QED BY <3>3, <3>4
  <2>2. \A u \in Strings \ strings : ~sOwnsBuffer'[u] /\ sBuffer'[u] = kEmptyString
    BY <1>0, <1>a DEF BlocksReachable
  <2> QED BY <1>0, <2>1, <2>2 DEF BlocksReachable
<1>5. BorrowedIsLent'
  BY <1>0 DEF StringTypeOK, BorrowedIsLent
<1>6. Holds(s)' /\ Holds(w)'
  <2>1. sBuffer'[s] = sBuffer[w] /\ sSize'[s] = sSize[w] /\ value'[s] = value[w]
    BY <1>0 DEF StringTypeOK
  <2>2. sBuffer[w] # kEmptyString => text'[sBuffer[w]] = text[sBuffer[w]]
    BY <1>0 DEF StringTypeOK, BlocksOwned
  <2>3. sBuffer'[w] = kEmptyString /\ sSize'[w] = 0 /\ value'[w] = <<>>
    BY <1>0 DEF StringTypeOK
  <2>4. Holds(w)
    OBVIOUS
  <2> QED BY <2>1, <2>2, <2>3, <2>4 DEF Holds
<1>7. ASSUME NEW u \in Strings \ {s, w} PROVE Holds(u)'
  <2>1. sBuffer'[u] = sBuffer[u] /\ sSize'[u] = sSize[u] /\ value'[u] = value[u]
    BY <1>0 DEF StringTypeOK
  <2>2. sBuffer[u] # kEmptyString => text'[sBuffer[u]] = text[sBuffer[u]]
    BY <1>0 DEF StringTypeOK, BlocksOwned
  <2> QED BY <2>1, <2>2, HoldsStill
<1> QED BY <1>2, <1>3, <1>4, <1>5, <1>6, <1>7

(* The client allocates and frees only arrays that no string points to.    *)
LEMMA ClientPreserves ==
    ASSUME StringInv, NEW b \in Blocks, NEW t \in Seq(Characters),
           ClientLends(b, t) \/ ClientFrees(b)
    PROVE  StringInv'
<1> USE HidlStringAssumption DEF StringInv
<1>0. /\ UNCHANGED <<strings, sBuffer, sSize, sOwnsBuffer, value>>
      /\ \/ text[b] = Freed /\ text' = [text EXCEPT ![b] = t] /\ lent' = lent \union {b}
         \/ /\ b \in lent /\ text' = [text EXCEPT ![b] = Freed] /\ lent' = lent \ {b}
            /\ \A s \in strings : sBuffer[s] # b
  BY DEF ClientLends, ClientFrees
<1>a. t \in Seq(Characters) /\ t # Freed
  OBVIOUS
<1>b. \A w \in Strings : sBuffer[w] # b
  BY <1>0 DEF BlocksOwned, BlocksReachable, BorrowedIsLent, StringTypeOK
<1>2. StringTypeOK'
  <2>1. text' \in [Blocks -> Seq(Characters) \union {Freed}] /\ lent' \subseteq Blocks
    BY <1>0 DEF StringTypeOK
  <2> QED BY <1>0, <2>1 DEF StringTypeOK
<1>3. BlocksOwned'
  <2>1. \A c \in lent' : text'[c] # Freed
    BY <1>0, <1>a DEF StringTypeOK, BlocksOwned
  <2>2. \A c \in Blocks \ {b} : text'[c] = text[c] /\ (c \in lent' <=> c \in lent)
    BY <1>0 DEF StringTypeOK
  <2> QED BY <1>0, <1>b, <2>1, <2>2 DEF BlocksOwned
<1>4. BlocksReachable'
  <2>1. ASSUME NEW c \in Blocks, text'[c] # Freed
        PROVE  c \in lent' \/ \E s \in Strings : sOwnsBuffer[s] /\ sBuffer[s] = c
    BY <1>0, <2>1 DEF StringTypeOK, BlocksReachable
  <2> QED BY <1>0, <2>1 DEF BlocksReachable
<1>5. BorrowedIsLent'
  BY <1>0, <1>b DEF StringTypeOK, BorrowedIsLent
<1>7. ASSUME NEW u \in Strings PROVE Holds(u)'
  <2>1. sBuffer'[u] = sBuffer[u] /\ sSize'[u] = sSize[u] /\ value'[u] = value[u]
    BY <1>0
  <2>2. sBuffer[u] # kEmptyString => text'[sBuffer[u]] = text[sBuffer[u]]
    BY <1>0, <1>b DEF StringTypeOK
  <2> QED BY <2>1, <2>2, HoldsStill
<1> QED BY <1>2, <1>3, <1>4, <1>5, <1>7

-----------------------------------------------------------------------------
(* Every step of the strings and of the client preserves the invariant.    *)
LEMMA StringNextPreserves == StringInv /\ [StringNext]_stringVars => StringInv'
<1> SUFFICES ASSUME StringInv, [StringNext]_stringVars PROVE StringInv'
  OBVIOUS
<1> USE DEF StringInv
<1>1. ASSUME NEW s \in Strings, ConstructString(s) PROVE StringInv'
  <2>1. ~sOwnsBuffer[s] /\ text' = text
    BY <1>1 DEF ConstructString, BlocksReachable
  <2>2. text' = Cleared(s)
    BY <2>1 DEF Cleared, StringTypeOK
  <2> QED BY <1>1, <2>2, BorrowPreserves DEF ConstructString, StringTypeOK
<1>2. ASSUME NEW s \in Strings, Clear(s) \/ DestroyString(s) PROVE StringInv'
  BY <1>2, BorrowPreserves DEF Clear, DestroyString, StringTypeOK
<1>3. ASSUME NEW s \in Strings, NEW b \in lent, NEW n \in 0..Len(text[b]),
             SetToExternalString(s, b, n)
      PROVE  StringInv'
  <2>1. text[b] \in Seq(Characters)
    BY DEF BlocksOwned, StringTypeOK
  <2>2. n \in Nat
    BY <2>1
  <2> QED BY <1>3, <2>2, BorrowPreserves DEF SetToExternalString, StringTypeOK
<1>4. ASSUME NEW s \in Strings, NEW t \in Texts, AssignText(s, t) PROVE StringInv'
  BY <1>4, CopyPreserves, HidlStringAssumption DEF AssignText
<1>5. ASSUME NEW s \in Strings, NEW w \in Strings, CopyAssignString(s, w) PROVE StringInv'
  <2>1. Read(w) = value[w] /\ value[w] \in Seq(Characters)
    BY <1>5 DEF Read, Holds, StringTypeOK
  <2> QED BY <1>5, <2>1, CopyPreserves DEF CopyAssignString
<1>6. ASSUME NEW s \in Strings, NEW w \in Strings, MoveAssignString(s, w) PROVE StringInv'
  BY <1>6, MoveStringPreserves
<1>7. ASSUME NEW b \in Blocks, ClientFrees(b) PROVE StringInv'
  <2>1. <<>> \in Seq(Characters)
    OBVIOUS
  <2> QED BY <1>7, <2>1, ClientPreserves
<1>8. ASSUME NEW b \in Blocks, NEW t \in Texts, ClientLends(b, t) PROVE StringInv'
  BY <1>8, ClientPreserves, HidlStringAssumption
<1>9. CASE UNCHANGED stringVars
  BY <1>9 DEF stringVars, StringTypeOK, BlocksOwned, BlocksReachable, BorrowedIsLent, Holds
<1> QED BY <1>1, <1>2, <1>3, <1>4, <1>5, <1>6, <1>7, <1>8, <1>9 DEF StringNext

(* The invariant holds in every reachable state.                           *)
THEOREM StringInvariant == StringSpec => []StringInv
<1>1. StringInit => StringInv
  BY HidlStringAssumption DEF StringInit, StringInv, StringTypeOK, BlocksOwned,
     BlocksReachable, BorrowedIsLent, Holds
<1> QED BY <1>1, StringNextPreserves, PTL DEF StringSpec

(***************************************************************************)
(* Whatever strings are constructed, copied, moved, assigned, resized or   *)
(* pointed at a client's characters, and whatever arrays the client        *)
(* allocates and frees in between as setToExternal() allows, c_str() of    *)
(* every string is the value its user gave it: no string reads freed or    *)
(* changed characters (HidlSupport.cpp).                                   *)
(***************************************************************************)
THEOREM StringsKeepTheirValues == StringSpec => []StringKeepsValue
<1>1. StringInv => StringKeepsValue
  BY DEF StringInv, StringKeepsValue, Holds, Read, StringTypeOK
<1> QED BY <1>1, StringInvariant, PTL

(***************************************************************************)
(* No character array that a hidl_string allocated is deleted twice,       *)
(* deleted under another string, or lost: moveFrom(), copyFrom() and       *)
(* clear() keep every array with exactly one owner.                        *)
(***************************************************************************)
THEOREM StringBlocksHaveOneOwner == StringSpec => []StringBlockHasOneOwner
<1>1. StringInv => StringBlockHasOneOwner
  <2> SUFFICES ASSUME StringInv, NEW b \in Blocks, text[b] # Freed
               PROVE  IF b \in lent
                      THEN {s \in strings : sOwnsBuffer[s] /\ sBuffer[s] = b} = {}
                      ELSE \E s \in strings :
                              {w \in strings : sOwnsBuffer[w] /\ sBuffer[w] = b} = {s}
    BY DEF StringBlockHasOneOwner
  <2> USE DEF StringInv
  <2>1. CASE b \in lent
    BY <2>1 DEF BlocksOwned, StringTypeOK
  <2>2. CASE b \notin lent
    <3>1. PICK s \in Strings : sOwnsBuffer[s] /\ sBuffer[s] = b
      BY <2>2 DEF BlocksReachable
    <3>2. s \in strings
      BY <3>1 DEF BlocksReachable
    <3>3. \A w \in strings : sOwnsBuffer[w] /\ sBuffer[w] = b => w = s
      BY <3>1 DEF BlocksOwned, StringTypeOK
    <3>4. {w \in strings : sOwnsBuffer[w] /\ sBuffer[w] = b} = {s}
      BY <3>1, <3>2, <3>3
    <3> QED BY <2>2, <3>2, <3>4
  <2> QED BY <2>1, <2>2
<1> QED BY <1>1, StringInvariant, PTL

-----------------------------------------------------------------------------
(***************************************************************************)
(* Part 4: Return, return_status and the unchecked error.                  *)
(***************************************************************************)
StatusTypeOK ==
    /\ results \subseteq Results
    /\ mStatus \in [Results -> Errors \union {Ok}]
    /\ mCheckedStatus \in [Results -> BOOLEAN]
    /\ raised \subseteq Errors
    /\ emptied \subseteq results

(* An object holds an error that a result was made with, and is alone to   *)
(* hold it; one that is not constructed holds none.                        *)
HeldWasRaised ==
    /\ \A r \in Results : mStatus[r] # Ok => mStatus[r] \in raised
    /\ \A r, q \in Results : mStatus[r] = mStatus[q] /\ mStatus[r] # Ok => r = q
    /\ \A r \in Results \ results : mStatus[r] = Ok
    /\ seen \subseteq raised

StatusInv ==
    /\ StatusTypeOK
    /\ HeldWasRaised
    /\ ErrorNotSwallowed
    /\ AbortsOnlyOnUnseen

-----------------------------------------------------------------------------
(* A call that ends the process leaves every object as it was.             *)
LEMMA AbortPreserves ==
    ASSUME StatusInv, Abort
    PROVE  StatusInv'
BY DEF Abort, StatusInv, StatusTypeOK, HeldWasRaised, ErrorNotSwallowed,
   AbortsOnlyOnUnseen, Unchecked

(* A new error has a new holder, and nobody was told of it.                *)
LEMMA ConstructResultPreserves ==
    ASSUME StatusInv, NEW r \in Results, NEW s \in (Errors \ raised) \union {Ok},
           ConstructResult(r, s)
    PROVE  StatusInv'
<1> USE ReturnStatusAssumption DEF StatusInv, ConstructResult
<1>1. StatusTypeOK'
  BY DEF StatusTypeOK
<1>2. HeldWasRaised'
  BY DEF StatusTypeOK, HeldWasRaised
<1>3. ErrorNotSwallowed'
  <2> SUFFICES ASSUME NEW e \in raised' \ seen'
               PROVE  \E q \in results' : mStatus'[q] = e /\ ~mCheckedStatus'[q]
    BY DEF ErrorNotSwallowed
  <2>1. CASE e = s
    BY <2>1 DEF StatusTypeOK
  <2>2. CASE e # s
    <3>1. PICK q \in results : mStatus[q] = e /\ ~mCheckedStatus[q]
      BY <2>2 DEF ErrorNotSwallowed
    <3> QED BY <3>1 DEF StatusTypeOK
  <2> QED BY <2>1, <2>2
<1>4. AbortsOnlyOnUnseen'
  <2>1. r \notin emptied' /\ (mStatus'[r] # Ok => mStatus'[r] \notin seen')
    BY DEF StatusTypeOK, HeldWasRaised
  <2>2. ASSUME NEW q \in results, Unchecked(q)'
        PROVE  Unchecked(q) /\ mStatus'[q] = mStatus[q]
    BY <2>2 DEF StatusTypeOK, Unchecked
  <2>3. ASSUME NEW q \in results, Unchecked(q)'
        PROVE  mStatus'[q] \notin seen' /\ q \notin emptied'
    BY <2>2, <2>3 DEF AbortsOnlyOnUnseen
  <2> QED BY <2>1, <2>3 DEF AbortsOnlyOnUnseen, Unchecked
<1> QED BY <1>1, <1>2, <1>3, <1>4

(* An object is marked as checked when the client is told its error.       *)
LEMMA TellPreserves ==
    ASSUME StatusInv, NEW r \in results,
           mCheckedStatus' = [mCheckedStatus EXCEPT ![r] = TRUE],
           seen' = seen \union ({mStatus[r]} \ {Ok}),
           UNCHANGED <<results, mStatus, raised, emptied>>
    PROVE  StatusInv'
<1> USE ReturnStatusAssumption DEF StatusInv
<1>1. StatusTypeOK'
  BY DEF StatusTypeOK
<1>2. HeldWasRaised'
  <2>1. seen' \subseteq raised'
    BY DEF StatusTypeOK, HeldWasRaised
  <2> QED BY <2>1 DEF HeldWasRaised
<1>3. ErrorNotSwallowed'
  <2> SUFFICES ASSUME NEW e \in raised \ seen'
               PROVE  \E q \in results : mStatus[q] = e /\ ~mCheckedStatus'[q]
    BY DEF ErrorNotSwallowed
  <2>1. PICK q \in results : mStatus[q] = e /\ ~mCheckedStatus[q]
    BY DEF ErrorNotSwallowed
  <2>2. q # r
    BY <2>1 DEF StatusTypeOK
  <2> QED BY <2>1, <2>2 DEF StatusTypeOK
<1>4. AbortsOnlyOnUnseen'
  <2> SUFFICES ASSUME NEW q \in results, Unchecked(q)'
               PROVE  mStatus[q] \notin seen' /\ q \notin emptied
    BY DEF AbortsOnlyOnUnseen
  <2>1. q # r /\ Unchecked(q)
    BY DEF StatusTypeOK, Unchecked
  <2>2. mStatus[q] # mStatus[r]
    BY <2>1 DEF StatusTypeOK, HeldWasRaised, Unchecked
  <2> QED BY <2>1, <2>2 DEF AbortsOnlyOnUnseen
<1> QED BY <1>1, <1>2, <1>3, <1>4

(* The target of a move holds no unchecked error.  What the source held    *)
(* goes to the target with its flag, and the source is left checked.       *)
LEMMA MoveResultPreserves ==
    ASSUME StatusInv, NEW r \in Results, NEW q \in results, ~Unchecked(r), Swap(r, q),
           results' = results \union {r}, emptied' = (emptied \ {r}) \union {q},
           UNCHANGED <<raised, seen>>
    PROVE  StatusInv'
<1> USE ReturnStatusAssumption DEF StatusInv, Swap
<1>1. StatusTypeOK'
  BY DEF StatusTypeOK
<1>2. HeldWasRaised'
  BY DEF StatusTypeOK, HeldWasRaised
<1>3. ErrorNotSwallowed'
  <2> SUFFICES ASSUME NEW e \in raised \ seen
               PROVE  \E h \in results' : mStatus'[h] = e /\ ~mCheckedStatus'[h]
    BY DEF ErrorNotSwallowed
  <2>1. PICK h \in results : mStatus[h] = e /\ ~mCheckedStatus[h]
    BY DEF ErrorNotSwallowed
  <2>2. h # r
    BY <2>1 DEF StatusTypeOK, Unchecked
  <2>3. CASE h = q
    <3>1. mStatus'[r] = e /\ ~mCheckedStatus'[r]
      BY <2>1, <2>2, <2>3 DEF StatusTypeOK
    <3> QED BY <3>1
  <2>4. CASE h # q
    <3>1. mStatus'[h] = e /\ ~mCheckedStatus'[h]
      BY <2>1, <2>2, <2>4 DEF StatusTypeOK
    <3> QED BY <2>1, <3>1
  <2> QED BY <2>3, <2>4
<1>4. AbortsOnlyOnUnseen'
  <2> SUFFICES ASSUME NEW h \in results', Unchecked(h)'
               PROVE  mStatus'[h] \notin seen /\ h \notin emptied'
    BY DEF AbortsOnlyOnUnseen
  <2>1. h # q
    BY DEF StatusTypeOK, Unchecked
  <2>2. CASE h = r
    <3>1. Unchecked(q) /\ mStatus'[h] = mStatus[q]
      BY <2>1, <2>2 DEF StatusTypeOK, Unchecked
    <3> QED BY <2>1, <2>2, <3>1 DEF AbortsOnlyOnUnseen
  <2>3. CASE h # r
    <3>1. h \in results /\ Unchecked(h) /\ mStatus'[h] = mStatus[h]
      BY <2>1, <2>3 DEF StatusTypeOK, Unchecked
    <3> QED BY <2>1, <2>3, <3>1 DEF AbortsOnlyOnUnseen
  <2> QED BY <2>2, <2>3
<1> QED BY <1>1, <1>2, <1>3, <1>4

(* Only an object without an unchecked error can be destroyed.             *)
LEMMA DestroyResultPreserves ==
    ASSUME StatusInv, NEW r \in Results, DestroyResult(r)
    PROVE  StatusInv'
<1>1. CASE Unchecked(r)
  BY <1>1, AbortPreserves DEF DestroyResult
<1>2. CASE ~Unchecked(r)
  <2> USE <1>2, ReturnStatusAssumption DEF StatusInv, DestroyResult
  <2>1. StatusTypeOK'
    BY DEF StatusTypeOK
  <2>2. HeldWasRaised'
    BY DEF StatusTypeOK, HeldWasRaised
  <2>3. ErrorNotSwallowed'
    <3> SUFFICES ASSUME NEW e \in raised \ seen
                 PROVE  \E h \in results' : mStatus'[h] = e /\ ~mCheckedStatus'[h]
      BY DEF ErrorNotSwallowed
    <3>1. PICK h \in results : mStatus[h] = e /\ ~mCheckedStatus[h]
      BY DEF ErrorNotSwallowed
    <3>2. h # r
      BY <3>1 DEF StatusTypeOK, Unchecked
    <3> QED BY <3>1, <3>2 DEF StatusTypeOK
  <2>4. AbortsOnlyOnUnseen'
    BY DEF StatusTypeOK, AbortsOnlyOnUnseen, Unchecked
  <2> QED BY <2>1, <2>2, <2>3, <2>4
<1> QED BY <1>1, <1>2

-----------------------------------------------------------------------------
(* Every step of the client and of the calls preserves the invariant.      *)
LEMMA StatusNextPreserves == StatusInv /\ [StatusNext]_statusVars => StatusInv'
<1> SUFFICES ASSUME StatusInv, [StatusNext]_statusVars PROVE StatusInv'
  OBVIOUS
<1>1. ASSUME NEW r \in Results, NEW s \in (Errors \ raised) \union {Ok}, ConstructResult(r, s)
      PROVE  StatusInv'
  BY <1>1, ConstructResultPreserves
<1>2. ASSUME NEW r \in Results, isOk(r) PROVE StatusInv'
  BY <1>2, TellPreserves DEF isOk, Tell
<1>3. ASSUME NEW r \in Results, isDeadObject(r) PROVE StatusInv'
  <2>1. CASE DeadObjectSeen(r)
    <3>1. {mStatus[r]} \cap DeadObjects = {mStatus[r]} \ {Ok}
      BY <2>1, ReturnStatusAssumption DEF DeadObjectSeen
    <3> QED BY <1>3, <2>1, <3>1, TellPreserves DEF isDeadObject
  <2>2. CASE ~DeadObjectSeen(r)
    BY <1>3, <2>2 DEF isDeadObject, StatusInv, StatusTypeOK, HeldWasRaised,
       ErrorNotSwallowed, AbortsOnlyOnUnseen, Unchecked
  <2> QED BY <2>1, <2>2
<1>4. ASSUME NEW r \in Results, Value(r) PROVE StatusInv'
  BY <1>4, TellPreserves, AbortPreserves DEF Value, Tell
<1>5. ASSUME NEW r \in Results, DestroyResult(r) PROVE StatusInv'
  BY <1>5, DestroyResultPreserves
<1>6. ASSUME NEW r \in Results, NEW q \in Results, MoveConstructResult(r, q) PROVE StatusInv'
  <2>1. r \notin emptied /\ ~Unchecked(r)
    BY <1>6 DEF MoveConstructResult, StatusInv, StatusTypeOK, HeldWasRaised, Unchecked
  <2>2. emptied' = (emptied \ {r}) \union {q}
    BY <1>6, <2>1 DEF MoveConstructResult
  <2> QED BY <1>6, <2>1, <2>2, MoveResultPreserves DEF MoveConstructResult
<1>7. ASSUME NEW r \in Results, NEW q \in Results, MoveAssignResult(r, q) PROVE StatusInv'
  <2>1. CASE Unchecked(r)
    BY <1>7, <2>1, AbortPreserves DEF MoveAssignResult
  <2>2. CASE ~Unchecked(r)
    <3>1. results' = results \union {r}
      BY <1>7, <2>2 DEF MoveAssignResult
    <3> QED BY <1>7, <2>2, <3>1, MoveResultPreserves DEF MoveAssignResult
  <2> QED BY <2>1, <2>2
<1>8. ASSUME NEW r \in Results, NEW q \in Results, StatusOf(r, q) PROVE StatusInv'
  BY <1>8, AbortPreserves, ConstructResultPreserves DEF StatusOf
<1>9. CASE UNCHANGED statusVars
  BY <1>9 DEF statusVars, StatusInv, StatusTypeOK, HeldWasRaised, ErrorNotSwallowed,
     AbortsOnlyOnUnseen, Unchecked
<1> QED BY <1>1, <1>2, <1>3, <1>4, <1>5, <1>6, <1>7, <1>8, <1>9 DEF StatusNext

(* The invariant holds in every reachable state.                           *)
THEOREM StatusInvariant == StatusSpec => []StatusInv
<1>1. StatusInit => StatusInv
  BY DEF StatusInit, StatusInv, StatusTypeOK, HeldWasRaised, ErrorNotSwallowed,
     AbortsOnlyOnUnseen, Unchecked
<1> QED BY <1>1, StatusNextPreserves, PTL DEF StatusSpec

(***************************************************************************)
(* A transport error that a call returned is never dropped unseen: until   *)
(* the client has been told, some Return object still holds it unchecked,  *)
(* however the objects are moved and destroyed (Status.h, return_status).  *)
(***************************************************************************)
THEOREM ErrorsNotSwallowed == StatusSpec => []ErrorNotSwallowed
<1>1. StatusInv => ErrorNotSwallowed
  BY DEF StatusInv
<1> QED BY <1>1, StatusInvariant, PTL

(***************************************************************************)
(* A Return object whose destruction or assignment would abort holds an    *)
(* error nobody was told of: along any chain of moves a checked result     *)
(* stays checked, and one that was moved from is safe to destroy.          *)
(***************************************************************************)
THEOREM CheckedResultsAreSafe == StatusSpec => []AbortsOnlyOnUnseen
<1>1. StatusInv => AbortsOnlyOnUnseen
  BY DEF StatusInv
<1> QED BY <1>1, StatusInvariant, PTL

-----------------------------------------------------------------------------
(***************************************************************************)
(* Part 5: shared memory. Every descriptor has one owner who closes it,    *)
(* and what can be mapped is whole.                                        *)
(***************************************************************************)
(* A client's object is empty or an ashmem region.                         *)
EmptyOrAshmem ==
    \A m \in Memories : mem[m] = EmptyMemory \/ \E f \in Fds : mem[m] = AshmemOf(f)

MemoryTypeOK ==
    /\ batch \in Seq(Fds)
    /\ DOMAIN mem = Memories /\ mem = [m \in Memories |-> mem[m]]
    /\ maps \subseteq Fds
    /\ openFds \subseteq Fds

(* FdsAccountedFor, said of one descriptor at a time.                      *)
EveryFdOwned ==
    /\ \A f \in openFds :
          \/ f \in FdsOf(batch) \/ f \in maps
          \/ \E m \in Memories : mem[m].fd = f
    /\ FdsOf(batch) \subseteq openFds
    /\ maps \subseteq openFds
    /\ \A f \in maps : f \notin FdsOf(batch)
    /\ \A m \in Memories :
          mem[m].fd # NoFd => /\ mem[m].fd \in openFds
                              /\ mem[m].fd \notin FdsOf(batch)
                              /\ mem[m].fd \notin maps
    /\ \A m, w \in Memories : m # w /\ mem[m].fd = mem[w].fd => mem[m].fd = NoFd

MemoryInv ==
    /\ MemoryTypeOK
    /\ EmptyOrAshmem
    /\ EveryFdOwned

-----------------------------------------------------------------------------
(* One more memory in the batch.                                           *)
LEMMA FdsOfAppend ==
    ASSUME NEW s \in Seq(Fds), NEW f \in Fds
    PROVE  FdsOf(Append(s, f)) = FdsOf(s) \union {f}
<1>1. FdsOf(s) \union {f} \subseteq FdsOf(Append(s, f))
  <2>1. ASSUME NEW i \in DOMAIN s PROVE s[i] \in FdsOf(Append(s, f))
    BY i \in DOMAIN Append(s, f), Append(s, f)[i] = s[i] DEF FdsOf
  <2>2. f \in FdsOf(Append(s, f))
    BY Len(s) + 1 \in DOMAIN Append(s, f), Append(s, f)[Len(s) + 1] = f DEF FdsOf
  <2> QED BY <2>1, <2>2 DEF FdsOf
<1>2. FdsOf(Append(s, f)) \subseteq FdsOf(s) \union {f}
  BY DEF FdsOf
<1> QED BY <1>1, <1>2

(* The empty memory has no handle and no name.                             *)
LEMMA EmptyFields == EmptyMemory.fd = NoFd /\ EmptyMemory.name = ""
BY DEF EmptyMemory

(* The new descriptor was closed, so nobody has it.                        *)
LEMMA AllocateOnePreserves ==
    ASSUME MemoryInv, NEW f \in Fds, AllocateOne(f)
    PROVE  MemoryInv'
<1> USE SharedMemoryAssumption DEF MemoryInv, callVars, AllocateOne
<1>0. FdsOf(batch') = FdsOf(batch) \union {f}
  BY FdsOfAppend DEF MemoryTypeOK
<1>1. MemoryTypeOK'
  BY <1>0 DEF MemoryTypeOK
<1>2. EmptyOrAshmem'
  BY <1>0 DEF MemoryTypeOK, EmptyOrAshmem
<1>3. EveryFdOwned'
  BY <1>0 DEF MemoryTypeOK, EveryFdOwned
<1> QED BY <1>1, <1>2, <1>3

(* The allocator closes what it had, and only that.                        *)
LEMMA EndOfCallPreserves ==
    ASSUME MemoryInv, EndOfCall
    PROVE  MemoryInv'
<1> USE SharedMemoryAssumption DEF MemoryInv, callVars, EndOfCall, cleanup
<1>0. FdsOf(batch') = {}
  BY DEF FdsOf
<1>1. MemoryTypeOK'
  BY <1>0 DEF MemoryTypeOK
<1>2. EmptyOrAshmem'
  BY <1>0 DEF MemoryTypeOK, EmptyOrAshmem
<1>3. EveryFdOwned'
  BY <1>0 DEF MemoryTypeOK, EveryFdOwned
<1> QED BY <1>1, <1>2, <1>3

(* An assignment closes m's descriptor and takes one that is closed.       *)
LEMMA AssignPreserves ==
    ASSUME MemoryInv, NEW m \in Memories, NEW v,
           v = EmptyMemory \/ \E f \in Fds : v = AshmemOf(f),
           Assign(m, v), UNCHANGED <<callVars, mappers, maps>>
    PROVE  MemoryInv'
<1> USE SharedMemoryAssumption DEF MemoryInv, callVars
<1>0. UNCHANGED <<batch, maps>>
  OBVIOUS
<1>1. CASE v.fd = NoFd
  <2>0. /\ openFds' = openFds \ {mem[m].fd}
        /\ mem' = [mem EXCEPT ![m] = v]
    BY <1>1 DEF Assign
  <2>a. v = EmptyMemory
    BY <1>1 DEF AshmemOf
  <2>b. \A x \in Memories : mem'[x].fd = IF x = m THEN NoFd ELSE mem[x].fd
    BY <1>1, <2>0 DEF MemoryTypeOK
  <2>c. openFds' = openFds \ {mem[m].fd}
    BY <2>0
  <2>1. MemoryTypeOK'
    BY <1>0, <2>0, <2>a DEF MemoryTypeOK
  <2>2. EmptyOrAshmem'
    BY <1>0, <2>0, <2>a DEF MemoryTypeOK, EmptyOrAshmem
  <2>3. EveryFdOwned'
    BY <1>0, <2>b, <2>c DEF MemoryTypeOK, EveryFdOwned
  <2> QED BY <2>1, <2>2, <2>3
<1>2. CASE v.fd # NoFd
  <2>0. PICK f \in Fds \ (openFds \ {mem[m].fd}) :
            /\ openFds' = (openFds \ {mem[m].fd}) \union {f}
            /\ mem' = [mem EXCEPT ![m] = [v EXCEPT !.fd = f]]
    BY <1>2 DEF Assign
  <2>a. [v EXCEPT !.fd = f] = AshmemOf(f)
    <3>1. PICK g \in Fds : v = AshmemOf(g)
      BY <1>2, EmptyFields
    <3> QED BY <3>1 DEF AshmemOf
  <2>b. \A x \in Memories : mem'[x].fd = IF x = m THEN f ELSE mem[x].fd
    BY <2>0, <2>a DEF MemoryTypeOK, AshmemOf
  <2>c. openFds' = (openFds \ {mem[m].fd}) \union {f}
    BY <2>0
  <2>1. MemoryTypeOK'
    BY <1>0, <2>0, <2>a DEF MemoryTypeOK
  <2>2. EmptyOrAshmem'
    BY <1>0, <2>0, <2>a DEF MemoryTypeOK, EmptyOrAshmem
  <2>3. EveryFdOwned'
    BY <1>0, <2>b, <2>c DEF MemoryTypeOK, EveryFdOwned
  <2> QED BY <2>1, <2>2, <2>3
<1> QED BY <1>1, <1>2

(* The descriptor of w passes to m.                                        *)
LEMMA MoveMemoryPreserves ==
    ASSUME MemoryInv, NEW m \in Memories, NEW w \in Memories, MoveMemory(m, w)
    PROVE  MemoryInv'
<1> USE SharedMemoryAssumption DEF MemoryInv, callVars, MoveMemory, MovedFrom
<1>0. \A x \in Memories : mem'[x].fd = IF x = m THEN mem[w].fd
                                  ELSE IF x = w THEN NoFd ELSE mem[x].fd
  BY DEF MemoryTypeOK, EmptyMemory
<1>1. MemoryTypeOK'
  BY <1>0 DEF MemoryTypeOK
<1>2. EmptyOrAshmem'
  BY <1>0 DEF MemoryTypeOK, EmptyOrAshmem
<1>3. EveryFdOwned'
  <2>0. /\ batch' = batch /\ maps' = maps /\ openFds' = openFds \ {mem[m].fd} /\ m # w
        /\ FdsOf(batch)' = FdsOf(batch) /\ NoFd \notin Fds
    BY DEF FdsOf
  <2>1. ASSUME NEW f \in openFds'
        PROVE  f \in FdsOf(batch) \/ f \in maps \/ \E x \in Memories : mem'[x].fd = f
    <3>1. f \in openFds /\ f # mem[m].fd
      BY <2>0
    <3>2. CASE mem[w].fd = f
      BY <1>0, <3>2
    <3>3. CASE \E x \in Memories \ {m, w} : mem[x].fd = f
      BY <1>0, <3>3
    <3> QED BY <3>1, <3>2, <3>3 DEF EveryFdOwned
  <2>2. FdsOf(batch) \subseteq openFds' /\ maps \subseteq openFds'
    BY <2>0 DEF EveryFdOwned, MemoryTypeOK, FdsOf
  <2>3. ASSUME NEW x \in Memories, mem'[x].fd # NoFd
        PROVE  /\ mem'[x].fd \in openFds' /\ mem'[x].fd \notin FdsOf(batch)
               /\ mem'[x].fd \notin maps
    <3>1. PICK y \in Memories \ {m} : mem'[x].fd = mem[y].fd
      BY <1>0, <2>0, <2>3
    <3> QED BY <3>1, <2>0, <2>3 DEF EveryFdOwned
  <2>4. ASSUME NEW x \in Memories, NEW y \in Memories, x # y, mem'[x].fd = mem'[y].fd
        PROVE  mem'[x].fd = NoFd
    <3> DEFINE from(z) == IF z = m THEN w ELSE z
    <3>1. \A z \in Memories \ {w} : from(z) \in Memories /\ mem'[z].fd = mem[from(z)].fd
      BY <1>0, <2>0
    <3>2. CASE x = w \/ y = w
      BY <1>0, <2>0, <2>4, <3>2
    <3>3. CASE x # w /\ y # w
      <4>1. from(x) # from(y) /\ x \in Memories \ {w} /\ y \in Memories \ {w}
        BY <2>4, <3>3
      <4> HIDE DEF from
      <4>2. /\ from(x) \in Memories /\ from(y) \in Memories
            /\ mem'[x].fd = mem[from(x)].fd /\ mem'[y].fd = mem[from(y)].fd
        BY <4>1, <3>1
      <4>3. \A z, u \in Memories : z # u /\ mem[z].fd = mem[u].fd => mem[z].fd = NoFd
        BY DEF EveryFdOwned
      <4> QED BY <4>1, <4>2, <4>3, <2>4, Zenon
    <3> QED BY <3>2, <3>3
  <2> QED BY <2>0, <2>1, <2>2, <2>3, <2>4 DEF EveryFdOwned
<1> QED BY <1>1, <1>2, <1>3

(* What m had is closed.                                                   *)
LEMMA RenewMemoryPreserves ==
    ASSUME MemoryInv, NEW m \in Memories, RenewMemory(m)
    PROVE  MemoryInv'
<1> USE SharedMemoryAssumption DEF MemoryInv, callVars, RenewMemory
<1>0. \A x \in Memories : mem'[x].fd = IF x = m THEN NoFd ELSE mem[x].fd
  BY DEF MemoryTypeOK, EmptyMemory
<1>1. MemoryTypeOK'
  BY <1>0 DEF MemoryTypeOK
<1>2. EmptyOrAshmem'
  BY <1>0 DEF MemoryTypeOK, EmptyOrAshmem
<1>3. EveryFdOwned'
  BY <1>0 DEF MemoryTypeOK, EveryFdOwned
<1> QED BY <1>1, <1>2, <1>3

(* The mapping's descriptor is nobody else's.                              *)
LEMMA UnmapPreserves ==
    ASSUME MemoryInv, NEW f \in Fds, Unmap(f)
    PROVE  MemoryInv'
<1> USE SharedMemoryAssumption DEF MemoryInv, callVars, Unmap
<1>1. MemoryTypeOK'
  BY DEF MemoryTypeOK
<1>2. EmptyOrAshmem'
  BY DEF MemoryTypeOK, EmptyOrAshmem
<1>3. EveryFdOwned'
  BY DEF MemoryTypeOK, EveryFdOwned
<1> QED BY <1>1, <1>2, <1>3

(* A mapping takes a descriptor that is closed.                            *)
LEMMA mapMemoryPreserves ==
    ASSUME MemoryInv, NEW m \in Memories, NEW ok \in BOOLEAN, mapMemory(m, ok)
    PROVE  MemoryInv'
<1> USE SharedMemoryAssumption DEF MemoryInv, callVars, mapMemory
<1>1. CASE ok
  <2>0. PICK f \in Fds \ openFds : maps' = maps \union {f} /\ openFds' = openFds \union {f}
    BY <1>1 DEF MapRegion
  <2>1. MemoryTypeOK'
    BY <2>0 DEF MemoryTypeOK
  <2>2. EmptyOrAshmem'
    BY <2>0 DEF MemoryTypeOK, EmptyOrAshmem
  <2>3. EveryFdOwned'
    BY <2>0 DEF MemoryTypeOK, EveryFdOwned
  <2> QED BY <2>1, <2>2, <2>3
<1>2. CASE ~ok
  <2>0. UNCHANGED <<maps, openFds>>
    BY <1>2 DEF MapRegion
  <2>1. MemoryTypeOK'
    BY <2>0 DEF MemoryTypeOK
  <2>2. EmptyOrAshmem'
    BY <2>0 DEF MemoryTypeOK, EmptyOrAshmem
  <2>3. EveryFdOwned'
    BY <2>0 DEF MemoryTypeOK, EveryFdOwned
  <2> QED BY <2>1, <2>2, <2>3
<1> QED BY <1>1, <1>2

-----------------------------------------------------------------------------
(* Nothing is open at first.                                               *)
LEMMA MemoryInitEstablishes == MemoryInit => MemoryInv
<1> SUFFICES ASSUME MemoryInit PROVE MemoryInv
  OBVIOUS
<1>1. MemoryTypeOK /\ EmptyOrAshmem
  BY DEF MemoryInit, MemoryTypeOK, EmptyOrAshmem
<1>2. FdsOf(batch) = {}
  BY DEF MemoryInit, FdsOf
<1>3. \A m \in Memories : mem[m].fd = NoFd
  BY DEF MemoryInit, EmptyMemory
<1>4. EveryFdOwned
  BY <1>2, <1>3 DEF MemoryInit, EveryFdOwned
<1> QED BY <1>1, <1>4 DEF MemoryInv

(* Every step of allocator, clients and mapper preserves the invariant.    *)
LEMMA MemoryNextPreserves == MemoryInv /\ [MemoryNext]_memoryVars => MemoryInv'
<1> SUFFICES ASSUME MemoryInv, [MemoryNext]_memoryVars PROVE MemoryInv'
  OBVIOUS
<1>1. ASSUME NEW f \in Fds, AllocateOne(f) \/ Unmap(f) PROVE MemoryInv'
  BY <1>1, AllocateOnePreserves, UnmapPreserves
<1>2. ASSUME UNCHANGED <<batch, mem, maps, openFds>> PROVE MemoryInv'
  BY <1>2 DEF MemoryInv, MemoryTypeOK, EmptyOrAshmem, EveryFdOwned
<1>3. ASSUME NEW n \in 0..(MaxBatch + 1), Request(n) PROVE MemoryInv'
  BY <1>2, <1>3 DEF Request
<1>4. CASE AllocateOneFails \/ BatchComplete
  BY <1>2, <1>4 DEF AllocateOneFails, BatchComplete
<1>5. CASE EndOfCall
  BY <1>5, EndOfCallPreserves
<1>6. ASSUME NEW m \in Memories, Receive(m) PROVE MemoryInv'
  <2>1. CASE Assign(m, EmptyMemory)
    BY <1>6, <2>1, AssignPreserves DEF Receive
  <2>2. ASSUME NEW i \in DOMAIN batch, Assign(m, AshmemOf(batch[i])) PROVE MemoryInv'
    <3>1. batch[i] \in Fds
      BY DEF MemoryInv, MemoryTypeOK
    <3> QED BY <1>6, <2>2, <3>1, AssignPreserves DEF Receive
  <2> QED BY <1>6, <2>1, <2>2 DEF Receive
<1>7. ASSUME NEW m \in Memories, RenewMemory(m) PROVE MemoryInv'
  BY <1>7, RenewMemoryPreserves
<1>8. ASSUME NEW m \in Memories, NEW ok \in BOOLEAN, mapMemory(m, ok) PROVE MemoryInv'
  BY <1>8, mapMemoryPreserves
<1>9. ASSUME NEW m \in Memories, NEW w \in Memories, CopyMemory(m, w) PROVE MemoryInv'
  <2>1. mem[w] = EmptyMemory \/ \E f \in Fds : mem[w] = AshmemOf(f)
    BY DEF MemoryInv, EmptyOrAshmem
  <2> QED BY <1>9, <2>1, AssignPreserves DEF CopyMemory
<1>10. ASSUME NEW m \in Memories, NEW w \in Memories, MoveMemory(m, w) PROVE MemoryInv'
  BY <1>10, MoveMemoryPreserves
<1>11. CASE UNCHANGED memoryVars
  BY <1>2, <1>11 DEF memoryVars
<1> QED
  BY <1>1, <1>3, <1>4, <1>5, <1>6, <1>7, <1>8, <1>9, <1>10, <1>11 DEF MemoryNext

-----------------------------------------------------------------------------
(* The invariant holds in every reachable state.                           *)
THEOREM MemoryInvariant == MemorySpec => []MemoryInv
<1>1. MemoryInit => MemoryInv
  BY MemoryInitEstablishes
<1>2. MemoryInv /\ [MemoryNext]_memoryVars => MemoryInv'
  BY MemoryNextPreserves
<1> QED BY <1>1, <1>2, PTL DEF MemorySpec

(***************************************************************************)
(* Allocator, hidl_memory objects and mappings never share a descriptor,   *)
(* and every open one belongs to one of them: a batch that fails half way  *)
(* leaks nothing, and its cleanup closes nothing a client still has.       *)
(***************************************************************************)
THEOREM DescriptorsAccountedFor == MemorySpec => []FdsAccountedFor
<1>1. ASSUME MemoryInv PROVE FdsAccountedFor
  <2> DEFINE held == {mem[m].fd : m \in Memories} \ {NoFd}
  <2>1. openFds \subseteq FdsOf(batch) \union held \union maps
    BY <1>1, SharedMemoryAssumption DEF MemoryInv, MemoryTypeOK, EveryFdOwned
  <2>2. FdsOf(batch) \union held \union maps \subseteq openFds
    BY <1>1 DEF MemoryInv, EveryFdOwned
  <2>3. FdsOf(batch) \cap (held \union maps) = {} /\ held \cap maps = {}
    BY <1>1 DEF MemoryInv, EveryFdOwned
  <2>4. \A m, w \in Memories : m # w /\ mem[m].fd = mem[w].fd => mem[m].fd = NoFd
    BY <1>1 DEF MemoryInv, EveryFdOwned
  <2> QED BY <2>1, <2>2, <2>3, <2>4 DEF FdsAccountedFor
<1> QED BY <1>1, MemoryInvariant, PTL

(***************************************************************************)
(* A hidl_memory for which mapMemory finds a mapper has an open handle and *)
(* the size of its region, so AshmemMapper dereferences no null handle.    *)
(***************************************************************************)
THEOREM MappableIsWhole == MemorySpec => []MappableMemoryIsWhole
<1>1. ASSUME MemoryInv PROVE MappableMemoryIsWhole
  <2>1. SUFFICES ASSUME NEW m \in Memories, mem[m].name = "ashmem"
                 PROVE  mem[m].fd \in openFds /\ mem[m] = AshmemOf(mem[m].fd)
    BY DEF MappableMemoryIsWhole, HIDL_FETCH_IMapper
  <2>2. mem[m] # EmptyMemory
    BY <2>1, EmptyFields, "" # "ashmem"
  <2>3. PICK f \in Fds : mem[m] = AshmemOf(f)
    BY <1>1, <2>2 DEF MemoryInv, EmptyOrAshmem
  <2>4. mem[m].fd = f
    BY <2>3 DEF AshmemOf
  <2> QED BY <1>1, <2>3, <2>4, SharedMemoryAssumption DEF MemoryInv, EveryFdOwned
<1> QED BY <1>1, MemoryInvariant, PTL
==============================================================================
