------------------------------ MODULE HidlArray -------------------------------
(***************************************************************************)
(* Element access of hidl_array<T, SIZE1, SIZES...> (base/include/hidl/    *)
(* HidlSupport.h): each operator[] consumes one dimension and moves a      *)
(* pointer into the flat mBuffer.  The constructor from std::array, the    *)
(* conversion to it, and operator[] of hidl_array all go this way.         *)
(***************************************************************************)
EXTENDS Naturals, Sequences, FiniteSets

CONSTANTS Shapes   \* sequences of dimensions

ASSUME HidlArrayAssumption == Shapes \subseteq Seq(Nat)

VARIABLES shape,   \* <<SIZE1, SIZES...>>
          path,    \* the indexes given so far
          base     \* the accessor's mBase, as an offset in mBuffer

arrayVars == <<shape, path, base>>

ArrayInit == shape \in Shapes /\ path = <<>> /\ base = 0

(* Plausible bugs, used only to show that the properties can fail.         *)
ProductOfFirst(sizes) == IF sizes = <<>> THEN 1 ELSE sizes[1]

-----------------------------------------------------------------------------
(* details::product<SIZES...>::value, 1 for no dimension.                  *)
product(sizes) ==
    LET from[n \in 0..Len(sizes)] ==
            IF n = Len(sizes) THEN 1 ELSE sizes[n + 1] * from[n + 1]
    IN  from[0]

elementCount == product(shape)

(* The dimensions an accessor has left.                                    *)
SIZES(n) == SubSeq(shape, n + 1, Len(shape))

(* operator[](index) of hidl_array, accessor and const_accessor.           *)
Index(index) ==
    /\ path' = Append(path, index)
    /\ base' = base + index * product(SIZES(Len(path) + 1))
    /\ UNCHANGED shape

ArrayNext ==
    /\ Len(path) < Len(shape)
    /\ \E index \in 0..(shape[Len(path) + 1] - 1) : Index(index)

ArraySpec == ArrayInit /\ [][ArrayNext]_arrayVars

-----------------------------------------------------------------------------
(* The index tuples of an array, and the order of a nested std::array.     *)
Tuples == {t \in [DOMAIN shape -> UNION {0..(shape[i] - 1) : i \in DOMAIN shape}] :
              \A i \in DOMAIN shape : t[i] < shape[i]}
Before(t, u) == \E i \in DOMAIN shape :
                    t[i] < u[i] /\ \A j \in 1..(i - 1) : t[j] = u[j]

(***************************************************************************)
(* hidl_array lays its elements out as the nested std::array does: a full  *)
(* index reaches the element with as many elements before it as there are  *)
(* smaller index tuples, so no two tuples share an element, none is out of *)
(* bounds, and copies to and from std::array keep every element.           *)
(***************************************************************************)
ArrayIsRowMajor ==
    Len(path) = Len(shape) =>
        /\ base = Cardinality({t \in Tuples : Before(t, path)})
        /\ base < elementCount
==============================================================================
