-------------------------- MODULE Algorithms_proofs ---------------------------
(***************************************************************************)
(* The sequential algorithms for every input: array layout, queue layout,  *)
(* the search for instrumentation and passthrough libraries, and what is   *)
(* written to a parcel and read back. Part 1 gives the induction over data *)
(* that product() and the index tuples need.                               *)
(***************************************************************************)
EXTENDS MQDescriptor, HidlArray, Instrumentor, PassthroughManager,
        ParcelReferences, ParcelValues, Integers, FiniteSetTheorems,
        WellFoundedInduction, SequenceTheorems, TLAPS

-----------------------------------------------------------------------------
(***************************************************************************)
(* Part 1: hidl_array.                                                     *)
(***************************************************************************)
(* Every nonempty set of natural numbers has a least element.              *)
LEMMA LeastElement ==
    ASSUME NEW T, T \subseteq Nat, T # {}
    PROVE  \E n \in T : \A m \in T : n <= m
<1> DEFINE C == {0..n : n \in T}
           R == StrictSubsetOrdering(Nat)
<1>1. \A n \in T : 0..n \in SUBSET Nat /\ IsFiniteSet(0..n)
  BY FS_Interval
<1>2. C \subseteq FiniteSubsetsOf(Nat) /\ C # {}
  BY <1>1 DEF FiniteSubsetsOf
<1>3. IsWellFoundedOn(R, FiniteSubsetsOf(Nat))
  BY FS_StrictSubsetOrderingWellFounded
<1>4. PICK X \in C : \A Y \in C : ~(<<Y, X>> \in R)
  <2> HIDE DEF C, R
  <2> QED BY <1>2, <1>3, WFMin, Zenon
<1>5. PICK n \in T : X = 0..n
  OBVIOUS
<1>6. ASSUME NEW m \in T PROVE n <= m
  <2> SUFFICES ASSUME m < n PROVE FALSE
    OBVIOUS
  <2>1. 0..m \subseteq 0..n /\ n \in 0..n /\ n \notin 0..m
    OBVIOUS
  <2>2. <<0..m, 0..n>> \in R
    BY <2>1, <1>1 DEF StrictSubsetOrdering
  <2> QED BY <2>2, <1>4, <1>5
<1> QED BY <1>6

(* Induction over an interval, for a set of numbers.                       *)
LEMMA IntervalInduction ==
    ASSUME NEW N \in Nat, NEW G, 0 \in G, \A n \in 0..(N - 1) : n \in G => n + 1 \in G
    PROVE  0..N \subseteq G
<1> DEFINE T == (0..N) \ G
<1> SUFFICES ASSUME T # {} PROVE FALSE
  OBVIOUS
<1>1. T \subseteq Nat
  OBVIOUS
<1>2. PICK n \in T : \A m \in T : n <= m
  <2> HIDE DEF T
  <2> QED BY <1>1, LeastElement
<1>3. n # 0 /\ n \in 1..N
  OBVIOUS
<1>4. n - 1 \in 0..(N - 1) /\ n - 1 \notin T
  BY <1>2, <1>3
<1>5. n - 1 \in G
  BY <1>4
<1>6. n - 1 + 1 \in G /\ n - 1 + 1 = n
  BY <1>3, <1>4, <1>5
<1> QED BY <1>6

-----------------------------------------------------------------------------
(* The recursion that product() stands for.                                *)
IsProduct(f, sizes) ==
    f = [n \in 0..Len(sizes) |-> IF n = Len(sizes) THEN 1 ELSE sizes[n + 1] * f[n + 1]]

(* A function that satisfies the recursion, for sizes of any length.       *)
LEMMA ProductExists ==
    ASSUME NEW sizes \in Seq(Nat)
    PROVE  \E f \in [0..Len(sizes) -> Nat] : IsProduct(f, sizes)
<1> DEFINE N == Len(sizes)
           Upper(f, d) == /\ f \in [(N - d)..N -> Nat] /\ f[N] = 1
                          /\ \A n \in (N - d)..(N - 1) : f[n] = sizes[n + 1] * f[n + 1]
           G == {d \in 0..N : \E f : Upper(f, d)}
<1>1. N \in Nat /\ \A n \in 0..(N - 1) : sizes[n + 1] \in Nat
  OBVIOUS
<1> HIDE DEF N
<1>2. 0 \in G
  <2> DEFINE f == [n \in N..N |-> 1]
  <2>1. Upper(f, 0)
    BY <1>1
  <2> HIDE DEF Upper
  <2> QED BY <2>1, <1>1
<1>3. ASSUME NEW d \in 0..(N - 1), d \in G PROVE d + 1 \in G
  <2>1. PICK f : Upper(f, d)
    BY <1>3
  <2> DEFINE g == [n \in (N - (d + 1))..N |->
                      IF n = N - (d + 1) THEN sizes[n + 1] * f[n + 1] ELSE f[n]]
  <2>2. d \in Nat /\ d + 1 \in 0..N /\ N - (d + 1) \in 0..(N - 1)
    BY <1>1
  <2>3. /\ g[N - (d + 1)] = sizes[N - (d + 1) + 1] * f[N - (d + 1) + 1]
        /\ N - (d + 1) + 1 = N - d
        /\ \A n \in (N - d)..N : g[n] = f[n]
    BY <1>1, <2>2
  <2>4. f[N - d] \in Nat /\ sizes[N - (d + 1) + 1] \in Nat
    <3>1. N - d \in (N - d)..N
      BY <1>1, <2>2
    <3>2. f[N - d] \in Nat
      BY <3>1, <2>1
    <3> QED BY <3>2, <2>2, <1>1
  <2>5. sizes[N - (d + 1) + 1] * f[N - (d + 1) + 1] \in Nat
    BY <2>3, <2>4
  <2>6. g \in [(N - (d + 1))..N -> Nat]
    <3>1. ASSUME NEW n \in (N - (d + 1))..N PROVE g[n] \in Nat
      BY <1>1, <2>1, <2>2, <2>3, <2>5
    <3> QED BY <3>1
  <2> HIDE DEF g
  <2>7. g[N] = 1
    BY <1>1, <2>1, <2>2, <2>3
  <2>8. ASSUME NEW n \in (N - (d + 1))..(N - 1) PROVE g[n] = sizes[n + 1] * g[n + 1]
    <3>1. CASE n = N - (d + 1)
      <4>1. n + 1 = N - d /\ N - d \in (N - d)..N
        BY <3>1, <1>1, <2>2
      <4> QED BY <4>1, <3>1, <2>3
    <3>2. CASE n # N - (d + 1)
      <4>1. n \in (N - d)..(N - 1) /\ n + 1 \in (N - d)..N /\ n \in (N - d)..N
        BY <3>2, <1>1, <2>2
      <4> QED BY <4>1, <2>1, <2>3
    <3> QED BY <3>1, <3>2
  <2>9. Upper(g, d + 1)
    BY <2>6, <2>7, <2>8
  <2> HIDE DEF Upper
  <2> QED BY <2>9, <2>2
<1>4. N \in G
  <2> HIDE DEF G
  <2>1. 0..N \subseteq G
    BY <1>1, <1>2, <1>3, IntervalInduction
  <2> QED BY <2>1, <1>1
<1>5. PICK f : Upper(f, N)
  BY <1>4
<1>6. f \in [0..N -> Nat] /\ f[N] = 1 /\ \A n \in 0..(N - 1) : f[n] = sizes[n + 1] * f[n + 1]
  BY <1>1, <1>5
<1>7. f = [n \in 0..N |-> IF n = N THEN 1 ELSE sizes[n + 1] * f[n + 1]]
  BY <1>1, <1>6
<1> QED BY <1>6, <1>7 DEF IsProduct, N

(* There is one such function: by induction from the last size back.       *)
LEMMA ProductUnique ==
    ASSUME NEW sizes \in Seq(Nat), NEW f, NEW g, IsProduct(f, sizes), IsProduct(g, sizes)
    PROVE  f = g
<1> DEFINE N == Len(sizes)
           G == {d \in 0..N : f[N - d] = g[N - d]}
<1>1. N \in Nat
  OBVIOUS
<1>2. /\ f[N] = 1 /\ \A n \in 0..(N - 1) : f[n] = sizes[n + 1] * f[n + 1]
      /\ g[N] = 1 /\ \A n \in 0..(N - 1) : g[n] = sizes[n + 1] * g[n + 1]
  BY <1>1 DEF IsProduct
<1>d. f = [n \in 0..N |-> f[n]] /\ g = [n \in 0..N |-> g[n]]
  BY DEF IsProduct
<1> HIDE DEF N
<1>3. 0 \in G
  BY <1>1, <1>2
<1>4. ASSUME NEW d \in 0..(N - 1), d \in G PROVE d + 1 \in G
  <2>1. d + 1 \in 0..N /\ N - (d + 1) \in 0..(N - 1) /\ N - (d + 1) + 1 = N - d
    BY <1>1
  <2>2. f[N - (d + 1)] = g[N - (d + 1)]
    BY <1>2, <1>4, <2>1
  <2> QED BY <2>1, <2>2
<1>5. 0..N \subseteq G
  <2> HIDE DEF G
  <2> QED BY <1>1, <1>3, <1>4, IntervalInduction
<1>6. ASSUME NEW n \in 0..N PROVE f[n] = g[n]
  <2>1. N - n \in 0..N /\ N - (N - n) = n
    BY <1>1
  <2> QED BY <2>1, <1>5
<1> QED BY <1>d, <1>6

(* So product() is defined by its recursion: 1 for no size, else the first *)
(* size times the product of the rest.                                     *)
LEMMA ProductIs ==
    ASSUME NEW sizes \in Seq(Nat), NEW f, IsProduct(f, sizes)
    PROVE  product(sizes) = f[0]
<1>1. product(sizes) = (CHOOSE g : IsProduct(g, sizes))[0]
  BY DEF product, IsProduct
<1>2. IsProduct(CHOOSE g : IsProduct(g, sizes), sizes)
  BY Zenon
<1>3. (CHOOSE g : IsProduct(g, sizes)) = f
  BY <1>2, ProductUnique
<1> QED BY <1>1, <1>3

(* The sizes that are left behind the first k dimensions.                  *)
LEMMA SizesLeft ==
    ASSUME shape \in Seq(Nat), NEW k \in 0..Len(shape)
    PROVE  /\ SIZES(k) \in Seq(Nat) /\ Len(SIZES(k)) = Len(shape) - k
           /\ \A i \in 1..(Len(shape) - k) : SIZES(k)[i] = shape[k + i]
<1> DEFINE n == Len(shape)
           m == k + 1
           s == SubSeq(shape, m, n)
<1>1. n \in Nat /\ DOMAIN shape = 1..n /\ \A i \in 1..n : shape[i] \in Nat
  OBVIOUS
<1>2. k \in Int /\ m \in Int /\ n \in Int /\ k <= n /\ 0 <= k
  BY <1>1
<1>3. \A i \in m..n : shape[i] \in Nat
  BY <1>1, <1>2
<1> HIDE DEF m, n
<1>4. /\ s \in Seq(Nat)
      /\ Len(s) = IF m <= n THEN n - m + 1 ELSE 0
      /\ \A i \in 1..(n - m + 1) : s[i] = shape[m + i - 1]
  BY <1>2, <1>3, SubSeqProperties
<1> HIDE DEF s
<1>5. Len(s) = n - k
  BY <1>2, <1>4 DEF m
<1>6. ASSUME NEW i \in 1..(n - k) PROVE s[i] = shape[k + i]
  <2>1. i \in 1..(n - m + 1) /\ m + i - 1 = k + i
    BY <1>2 DEF m
  <2> QED BY <1>4, <2>1
<1> QED BY <1>4, <1>5, <1>6 DEF SIZES, s, n, m

(* The number of elements behind the first k dimensions.                   *)
Below(P) ==
    /\ P \in [0..Len(shape) -> Nat]
    /\ P[Len(shape)] = 1
    /\ \A k \in 0..(Len(shape) - 1) : P[k] = shape[k + 1] * P[k + 1]

(* The products of the sizes that are left, for each number of indexes.    *)
LEMMA SizesBelow ==
    ASSUME shape \in Seq(Nat)
    PROVE  \E P : /\ Below(P) /\ elementCount = P[0]
                  /\ \A k \in 0..Len(shape) : product(SIZES(k)) = P[k]
<1> DEFINE N == Len(shape)
<1>1. N \in Nat
  OBVIOUS
<1>2. PICK P \in [0..N -> Nat] : IsProduct(P, shape)
  BY ProductExists
<1>3. P[N] = 1 /\ \A k \in 0..(N - 1) : P[k] = shape[k + 1] * P[k + 1]
  BY <1>1, <1>2 DEF IsProduct
<1>4. elementCount = P[0]
  BY <1>2, ProductIs DEF elementCount
<1>5. ASSUME NEW k \in 0..N PROVE product(SIZES(k)) = P[k]
  <2> DEFINE s == SIZES(k)
             f == [i \in 0..(N - k) |-> P[k + i]]
  <2>1. s \in Seq(Nat) /\ Len(s) = N - k /\ \A i \in 1..(N - k) : s[i] = shape[k + i]
    BY SizesLeft
  <2> HIDE DEF s
  <2>2. ASSUME NEW i \in 0..(N - k)
        PROVE  P[k + i] = IF i = N - k THEN 1 ELSE s[i + 1] * f[i + 1]
    <3>1. CASE i = N - k
      BY <3>1, <1>1, <1>3
    <3>2. CASE i # N - k
      <4>1. /\ k + i \in 0..(N - 1) /\ i + 1 \in 1..(N - k) /\ i + 1 \in 0..(N - k)
            /\ k + i + 1 = k + (i + 1)
        BY <3>2, <1>1
      <4>2. P[k + i] = shape[k + (i + 1)] * P[k + (i + 1)]
        BY <4>1, <1>3
      <4>3. s[i + 1] = shape[k + (i + 1)] /\ f[i + 1] = P[k + (i + 1)]
        BY <4>1, <2>1
      <4> HIDE DEF f
      <4> QED BY <4>2, <4>3, <3>2
    <3> QED BY <3>1, <3>2
  <2>3. IsProduct(f, s)
    <3>1. f = [i \in 0..(N - k) |-> IF i = N - k THEN 1 ELSE s[i + 1] * f[i + 1]]
      BY <2>2
    <3> HIDE DEF f
    <3> QED BY <3>1, <2>1 DEF IsProduct
  <2>4. f[0] = P[k]
    BY <1>1
  <2> HIDE DEF f
  <2>5. product(s) = f[0]
    BY <2>1, <2>3, ProductIs
  <2> QED BY <2>4, <2>5 DEF s
<1> QED BY <1>2, <1>3, <1>4, <1>5 DEF Below

-----------------------------------------------------------------------------
(* The tuples that agree with u in the first m indexes, and those of them  *)
(* whose next index is below c.                                            *)
Agreeing(u, m) == {t \in Tuples : \A j \in 1..m : t[j] = u[j]}
Slice(u, m, c) == {t \in Agreeing(u, m) : t[m + 1] < c}
InRange(u, m) == \A j \in 1..m : u[j] \in 0..(shape[j] - 1)

(* A finite set of n elements.                                             *)
Counted(S, n) == IsFiniteSet(S) /\ Cardinality(S) = n

(* What an index tuple of the array is.                                    *)
LEMMA TuplesAre ==
    ASSUME shape \in Seq(Nat), NEW t
    PROVE  t \in Tuples <=> t = [j \in 1..Len(shape) |-> t[j]] /\ InRange(t, Len(shape))
<1>1. DOMAIN shape = 1..Len(shape) /\ \A j \in 1..Len(shape) : shape[j] \in Nat
  OBVIOUS
<1> DEFINE U == UNION {0..(shape[i] - 1) : i \in DOMAIN shape}
<1>2. \A j \in 1..Len(shape) : \A x \in 0..(shape[j] - 1) : x \in U
  BY <1>1
<1>3. \A x \in U : x \in Nat
  BY <1>1
<1>4. Tuples = {f \in [DOMAIN shape -> U] : \A i \in DOMAIN shape : f[i] < shape[i]}
  BY DEF Tuples
<1> HIDE DEF U
<1>5. ASSUME t \in Tuples
      PROVE  t = [j \in 1..Len(shape) |-> t[j]] /\ InRange(t, Len(shape))
  <2>1. t \in [DOMAIN shape -> U] /\ \A i \in DOMAIN shape : t[i] < shape[i]
    BY <1>4, <1>5
  <2>2. t = [j \in 1..Len(shape) |-> t[j]]
    BY <2>1, <1>1
  <2>3. ASSUME NEW j \in 1..Len(shape) PROVE t[j] \in 0..(shape[j] - 1)
    <3>1. t[j] \in Nat /\ t[j] < shape[j] /\ shape[j] \in Nat
      BY <2>1, <1>1, <1>3
    <3> QED BY <3>1
  <2> QED BY <2>2, <2>3 DEF InRange
<1>6. ASSUME t = [j \in 1..Len(shape) |-> t[j]], InRange(t, Len(shape))
      PROVE  t \in Tuples
  <2>1. \A j \in 1..Len(shape) : t[j] \in U /\ t[j] < shape[j]
    BY <1>1, <1>2, <1>6 DEF InRange
  <2>2. t \in [1..Len(shape) -> U]
    BY <2>1, <1>6
  <2> QED BY <2>1, <2>2, <1>1, <1>4
<1> QED BY <1>5, <1>6

(* One tuple has all of the given indexes.                                 *)
LEMMA OneFullTuple ==
    ASSUME shape \in Seq(Nat), NEW u, InRange(u, Len(shape))
    PROVE  Counted(Agreeing(u, Len(shape)), 1)
<1> DEFINE N == Len(shape)
           w == [j \in 1..N |-> u[j]]
<1>1. w \in Tuples
  <2>1. InRange(w, N)
    BY DEF InRange
  <2>2. w = [j \in 1..N |-> w[j]]
    OBVIOUS
  <2> HIDE DEF w
  <2> QED BY <2>1, <2>2, TuplesAre
<1>2. \A t \in Agreeing(u, N) : t = w
  BY TuplesAre DEF Agreeing
<1>3. w \in Agreeing(u, N)
  BY <1>1 DEF Agreeing
<1> HIDE DEF w
<1>4. Agreeing(u, N) = {w}
  BY <1>2, <1>3
<1> QED BY <1>4, FS_Singleton DEF Counted

(* The count of two sets that share nothing.                               *)
LEMMA DisjointUnion ==
    ASSUME NEW S, NEW T, NEW m \in Nat, NEW n \in Nat, Counted(S, m), Counted(T, n),
           S \cap T = {}
    PROVE  Counted(S \cup T, m + n)
<1>1. /\ IsFiniteSet(S) /\ Cardinality(S) = m /\ IsFiniteSet(T) /\ Cardinality(T) = n
      /\ Cardinality(S \cap T) = 0
  BY FS_EmptySet DEF Counted
<1>2. /\ IsFiniteSet(S \cup T)
      /\ Cardinality(S \cup T) = Cardinality(S) + Cardinality(T) - Cardinality(S \cap T)
  BY <1>1, FS_Union
<1> QED BY <1>1, <1>2 DEF Counted

(* Each value of the next index adds the same number of tuples.            *)
LEMMA SliceCount ==
    ASSUME shape \in Seq(Nat), NEW m \in 0..(Len(shape) - 1), NEW q \in Nat,
           \A v : InRange(v, m + 1) => Counted(Agreeing(v, m + 1), q),
           NEW u, InRange(u, m), NEW c \in 0..shape[m + 1]
    PROVE  Counted(Slice(u, m, c), c * q)
<1> DEFINE G == {d \in 0..shape[m + 1] : Counted(Slice(u, m, d), d * q)}
<1>1. /\ shape[m + 1] \in Nat /\ m \in Nat /\ m + 1 \in 1..Len(shape)
  OBVIOUS
<1>t. \A t \in Tuples : t[m + 1] \in Nat
  BY <1>1, TuplesAre DEF InRange
<1>2. 0 \in G
  <2>1. Slice(u, m, 0) = {}
    BY <1>t DEF Slice, Agreeing
  <2>2. 0 * q = 0
    OBVIOUS
  <2>3. Counted(Slice(u, m, 0), 0 * q)
    BY <2>1, <2>2, FS_EmptySet DEF Counted
  <2> QED BY <2>3, <1>1
<1>3. ASSUME NEW d \in 0..(shape[m + 1] - 1), d \in G PROVE d + 1 \in G
  <2> DEFINE v == [j \in 1..(m + 1) |-> IF j = m + 1 THEN d ELSE u[j]]
  <2>1. d \in Nat /\ d + 1 \in 0..shape[m + 1]
    BY <1>1
  <2>2. v[m + 1] = d /\ \A j \in 1..m : v[j] = u[j]
    BY <1>1
  <2> HIDE DEF v
  <2>3. \A j \in 1..(m + 1) : j = m + 1 \/ j \in 1..m
    BY <1>1
  <2>4. InRange(v, m + 1)
    BY <2>2, <2>3 DEF InRange
  <2>5. Counted(Agreeing(v, m + 1), q)
    BY <2>4
  <2>6. Agreeing(v, m + 1) = {t \in Agreeing(u, m) : t[m + 1] = d}
    <3>1. m + 1 \in 1..(m + 1) /\ \A j \in 1..m : j \in 1..(m + 1)
      BY <1>1
    <3> QED BY <2>2, <2>3, <3>1 DEF Agreeing
  <2>7. Slice(u, m, d + 1) = Slice(u, m, d) \cup Agreeing(v, m + 1)
    <3>1. \A t \in Tuples : t[m + 1] < d + 1 <=> t[m + 1] < d \/ t[m + 1] = d
      BY <2>1, <1>t
    <3>2. Agreeing(u, m) \subseteq Tuples
      BY DEF Agreeing
    <3>3. ASSUME NEW t PROVE t \in Slice(u, m, d + 1) <=>
                               t \in Slice(u, m, d) \/ t \in Agreeing(v, m + 1)
      BY <3>1, <3>2, <2>6, Zenon DEF Slice
    <3> QED BY <3>3
  <2>8. Slice(u, m, d) \cap Agreeing(v, m + 1) = {}
    <3>1. \A t \in Tuples : ~(t[m + 1] < d /\ t[m + 1] = d)
      BY <2>1, <1>t
    <3>2. Agreeing(u, m) \subseteq Tuples
      BY DEF Agreeing
    <3> QED BY <3>1, <3>2, <2>6 DEF Slice
  <2>9. d * q \in Nat /\ (d + 1) * q = d * q + q
    BY <2>1
  <2>10. Counted(Slice(u, m, d), d * q)
    BY <1>3
  <2>11. Counted(Slice(u, m, d + 1), d * q + q)
    <3> DEFINE n == d * q
    <3>1. n \in Nat /\ Counted(Slice(u, m, d), n)
      BY <2>9, <2>10
    <3> HIDE DEF n
    <3>2. Counted(Slice(u, m, d) \cup Agreeing(v, m + 1), n + q)
      BY <3>1, <2>5, <2>8, DisjointUnion
    <3> QED BY <3>2, <2>7 DEF n
  <2> QED BY <2>1, <2>9, <2>11
<1>4. 0..shape[m + 1] \subseteq G
  <2> HIDE DEF G
  <2> QED BY <1>1, <1>2, <1>3, IntervalInduction
<1> QED BY <1>4

(* As many tuples agree with m given indexes as the sub-array behind them  *)
(* has elements: by induction from the full tuple back.                    *)
LEMMA AgreeCount ==
    ASSUME shape \in Seq(Nat), NEW P, Below(P)
    PROVE  \A m \in 0..Len(shape) : \A u :
               InRange(u, m) => Counted(Agreeing(u, m), P[m])
<1> DEFINE N == Len(shape)
           Good(m) == \A u : InRange(u, m) => Counted(Agreeing(u, m), P[m])
           G == {d \in 0..N : Good(N - d)}
<1>1. N \in Nat /\ P[N] = 1 /\ \A k \in 0..N : P[k] \in Nat
  <2>1. N \in Nat
    OBVIOUS
  <2>2. P[N] = 1 /\ P \in [0..N -> Nat]
    BY DEF Below
  <2> QED BY <2>1, <2>2
<1>2. Good(N)
  BY <1>1, OneFullTuple
<1>3. ASSUME NEW m \in 0..(N - 1), Good(m + 1) PROVE Good(m)
  <2> SUFFICES ASSUME NEW u, InRange(u, m) PROVE Counted(Agreeing(u, m), P[m])
    OBVIOUS
  <2>1. m + 1 \in 1..N /\ shape[m + 1] \in Nat /\ P[m + 1] \in Nat
    BY <1>1
  <2>2. Counted(Slice(u, m, shape[m + 1]), shape[m + 1] * P[m + 1])
    <3>1. \A v : InRange(v, m + 1) => Counted(Agreeing(v, m + 1), P[m + 1])
      BY <1>3
    <3>2. shape[m + 1] \in 0..shape[m + 1]
      BY <2>1
    <3> QED BY <3>1, <3>2, <2>1, SliceCount
  <2>3. Slice(u, m, shape[m + 1]) = Agreeing(u, m)
    <3>1. \A t \in Tuples : t[m + 1] < shape[m + 1]
      BY <2>1, TuplesAre DEF InRange
    <3> QED BY <3>1 DEF Slice, Agreeing
  <2>4. P[m] = shape[m + 1] * P[m + 1]
    BY DEF Below
  <2> QED BY <2>2, <2>3, <2>4
<1> HIDE DEF Good
<1>4. 0 \in G
  BY <1>1, <1>2
<1>5. ASSUME NEW d \in 0..(N - 1), d \in G PROVE d + 1 \in G
  <2>1. /\ N - (d + 1) \in 0..(N - 1) /\ N - (d + 1) + 1 = N - d /\ d + 1 \in 0..N
    BY <1>1
  <2>2. Good(N - (d + 1) + 1)
    BY <1>5, <2>1
  <2>3. Good(N - (d + 1))
    BY <2>1, <2>2, <1>3
  <2> QED BY <2>1, <2>3
<1>6. 0..N \subseteq G
  <2> HIDE DEF G, N
  <2> QED BY <1>1, <1>4, <1>5, IntervalInduction
<1>7. ASSUME NEW m \in 0..N PROVE Good(m)
  <2>1. N - m \in 0..N /\ N - (N - m) = m
    BY <1>1
  <2> QED BY <2>1, <1>6
<1> QED BY <1>7 DEF Good

-----------------------------------------------------------------------------
(* The tuples that an earlier index than one of the given sets apart.      *)
Earlier(u, m) ==
    {t \in Tuples : \E i \in 1..m : t[i] < u[i] /\ \A j \in 1..(i - 1) : t[j] = u[j]}

(* An accessor's base is behind the elements of all earlier tuples, and    *)
(* what is left of the array holds the sub-array it stands for.            *)
ArrayInv ==
    /\ shape \in Seq(Nat)
    /\ path \in Seq(Nat) /\ Len(path) <= Len(shape)
    /\ InRange(path, Len(path))
    /\ base \in Nat
    /\ Counted(Earlier(path, Len(path)), base)
    /\ base + product(SIZES(Len(path))) <= elementCount

(* Behind the sub-array that an index leads to are those of later indexes. *)
LEMMA SubArrayFits ==
    ASSUME NEW s \in Nat, NEW i \in Nat, NEW q \in Nat
    PROVE  s * q = (s - (i + 1)) * q + i * q + q
OBVIOUS

(* A product of natural numbers is one.                                    *)
LEMMA TimesNat ==
    ASSUME NEW a \in Nat, NEW b \in Nat
    PROVE  a * b \in Nat
OBVIOUS

(* operator[] steps over the sub-arrays of the smaller indexes, which hold *)
(* the tuples that come earlier.                                           *)
LEMMA IndexPreserves ==
    ASSUME ArrayInv, Len(path) < Len(shape),
           NEW index \in 0..(shape[Len(path) + 1] - 1), Index(index)
    PROVE  ArrayInv'
<1> DEFINE m == Len(path)
           N == Len(shape)
<1>1. /\ shape \in Seq(Nat) /\ path \in Seq(Nat) /\ m \in Nat /\ N \in Nat /\ m \in 0..(N - 1)
      /\ InRange(path, m) /\ base \in Nat /\ Counted(Earlier(path, m), base)
      /\ base + product(SIZES(m)) <= elementCount
      /\ shape[m + 1] \in Nat /\ index \in Nat /\ index < shape[m + 1]
  BY DEF ArrayInv
<1>2. PICK P : /\ Below(P) /\ elementCount = P[0]
               /\ \A k \in 0..N : product(SIZES(k)) = P[k]
  BY <1>1, SizesBelow
<1>3. /\ product(SIZES(m)) = P[m] /\ product(SIZES(m + 1)) = P[m + 1]
      /\ P[m] \in Nat /\ P[m + 1] \in Nat /\ P[0] \in Nat /\ P[m] = shape[m + 1] * P[m + 1]
  <2>1. m \in 0..N /\ m + 1 \in 0..N /\ 0 \in 0..N
    BY <1>1
  <2>2. P \in [0..N -> Nat] /\ P[m] = shape[m + 1] * P[m + 1]
    BY <1>1, <1>2 DEF Below
  <2> QED BY <2>1, <2>2, <1>2
<1>4. /\ path' = Append(path, index) /\ base' = base + index * P[m + 1] /\ shape' = shape
  BY <1>3 DEF Index
<1> HIDE DEF m, N
<1>5. /\ path' \in Seq(Nat) /\ Len(path') = m + 1 /\ path'[m + 1] = index
      /\ \A j \in 1..m : path'[j] = path[j]
  BY <1>1, <1>4 DEF m
<1>6. /\ Len(path') <= Len(shape') /\ shape' \in Seq(Nat)
  BY <1>1, <1>4, <1>5 DEF N
<1>7. \A j \in 1..(m + 1) : path'[j] \in 0..(shape[j] - 1)
  <2>1. \A j \in 1..(m + 1) : j \in 1..m \/ j = m + 1
    BY <1>1
  <2> QED BY <2>1, <1>1, <1>5 DEF InRange, m
<1>8. index * P[m + 1] \in Nat
  <2>1. index \in Nat /\ P[m + 1] \in Nat
    BY <1>1, <1>3
  <2> QED BY <2>1, TimesNat
<1>9. base' \in Nat
  <2> DEFINE a == index * P[m + 1]
  <2>1. a \in Nat /\ base \in Nat /\ base' = base + a
    BY <1>1, <1>4, <1>8
  <2> HIDE DEF a
  <2> QED BY <2>1
<1>10. Counted(Slice(path, m, index), index * P[m + 1])
  <2>1. \A v : InRange(v, m + 1) => Counted(Agreeing(v, m + 1), P[m + 1])
    <3>1. m + 1 \in 0..N
      BY <1>1
    <3> QED BY <3>1, <1>1, <1>2, AgreeCount DEF N
  <2>2. index \in 0..shape[m + 1]
    BY <1>1
  <2> QED BY <2>1, <2>2, <1>1, <1>3, SliceCount DEF N
<1> DEFINE E == {t \in Tuples : \E i \in 1..(m + 1) :
                    t[i] < path'[i] /\ \A j \in 1..(i - 1) : t[j] = path'[j]}
<1>11. E = Earlier(path, m) \cup Slice(path, m, index)
  <2>1. \A i \in 1..m : \A j \in 1..(i - 1) : j \in 1..m
    BY <1>1
  <2>2. \A i \in 1..(m + 1) : i \in 1..m \/ i = m + 1
    BY <1>1
  <2>3. \A i \in 1..m : i \in 1..(m + 1)
    BY <1>1
  <2>4. m + 1 \in 1..(m + 1) /\ (m + 1) - 1 = m
    BY <1>1
  <2>5. ASSUME NEW t \in E PROVE t \in Earlier(path, m) \cup Slice(path, m, index)
    <3>1. PICK i \in 1..(m + 1) : t[i] < path'[i] /\ \A j \in 1..(i - 1) : t[j] = path'[j]
      OBVIOUS
    <3>2. CASE i \in 1..m
      BY <3>1, <3>2, <1>5, <2>1 DEF Earlier
    <3>3. CASE i = m + 1
      <4>1. 1..(i - 1) = 1..m
        BY <3>3, <1>1
      <4>2. t \in Tuples /\ t[m + 1] < index /\ \A j \in 1..m : t[j] = path[j]
        BY <4>1, <3>1, <3>3, <1>5
      <4> QED BY <4>2 DEF Slice, Agreeing
    <3> QED BY <2>2, <3>2, <3>3
  <2>6. ASSUME NEW t \in Earlier(path, m) PROVE t \in E
    <3>1. PICK i \in 1..m : t[i] < path[i] /\ \A j \in 1..(i - 1) : t[j] = path[j]
      BY DEF Earlier
    <3>2. t[i] < path'[i] /\ \A j \in 1..(i - 1) : t[j] = path'[j]
      BY <3>1, <1>5, <2>1
    <3> QED BY <3>2, <2>3 DEF Earlier
  <2>7. ASSUME NEW t \in Slice(path, m, index) PROVE t \in E
    <3>1. t \in Tuples /\ t[m + 1] < index /\ \A j \in 1..m : t[j] = path[j]
      BY DEF Slice, Agreeing
    <3>2. t[m + 1] < path'[m + 1] /\ \A j \in 1..((m + 1) - 1) : t[j] = path'[j]
      BY <3>1, <1>5, <2>4
    <3>3. \E i \in 1..(m + 1) : t[i] < path'[i] /\ \A j \in 1..(i - 1) : t[j] = path'[j]
      BY <3>2, <2>4, Zenon
    <3> QED BY <3>1, <3>3
  <2> HIDE DEF E
  <2> QED BY <2>5, <2>6, <2>7
<1>12. Earlier(path, m) \cap Slice(path, m, index) = {}
  <2> SUFFICES ASSUME NEW t \in Earlier(path, m), t \in Slice(path, m, index) PROVE FALSE
    OBVIOUS
  <2>1. PICK i \in 1..m : t[i] < path[i]
    BY DEF Earlier
  <2>2. t[i] = path[i]
    BY DEF Slice, Agreeing
  <2>3. path[i] \in Nat
    <3>1. i \in 1..Len(path) /\ path \in Seq(Nat)
      BY <1>1 DEF m
    <3> QED BY <3>1
  <2> QED BY <2>1, <2>2, <2>3
<1>13. Counted(E, base')
  <2> HIDE DEF E
  <2> QED BY <1>1, <1>4, <1>8, <1>10, <1>11, <1>12, DisjointUnion
<1>14. (base + index * P[m + 1]) + P[m + 1] <= P[0]
  <2>1. shape[m + 1] - (index + 1) \in Nat
    BY <1>1
  <2>2. (shape[m + 1] - (index + 1)) * P[m + 1] \in Nat
    <3>1. P[m + 1] \in Nat
      BY <1>3
    <3> QED BY <2>1, <3>1, TimesNat
  <2>3. P[m] = (shape[m + 1] - (index + 1)) * P[m + 1] + index * P[m + 1] + P[m + 1]
    <3>1. shape[m + 1] \in Nat /\ index \in Nat /\ P[m + 1] \in Nat
      BY <1>1, <1>3
    <3>2. shape[m + 1] * P[m + 1]
             = (shape[m + 1] - (index + 1)) * P[m + 1] + index * P[m + 1] + P[m + 1]
      BY <3>1, SubArrayFits
    <3> QED BY <3>2, <1>3
  <2>4. base + P[m] <= P[0]
    BY <1>1, <1>2, <1>3
  <2> DEFINE a == (shape[m + 1] - (index + 1)) * P[m + 1]
             b == index * P[m + 1]
  <2>5. a \in Nat /\ b \in Nat /\ P[m] = a + b + P[m + 1]
    BY <2>2, <2>3, <1>8
  <2> HIDE DEF a, b
  <2>6. (base + b) + P[m + 1] <= P[0]
    <3>1. base \in Nat /\ P[m] \in Nat /\ P[m + 1] \in Nat /\ P[0] \in Nat
      BY <1>1, <1>3
    <3> QED BY <2>4, <2>5, <3>1
  <2> QED BY <2>6 DEF b
<1>15. InRange(path, Len(path))'
  BY <1>4, <1>5, <1>7 DEF InRange
<1>16. Earlier(path, Len(path))' = E
  BY <1>4, <1>5 DEF Earlier, Tuples
<1>17. elementCount' = P[0] /\ product(SIZES(Len(path)))' = P[m + 1]
  BY <1>2, <1>3, <1>4, <1>5 DEF elementCount, SIZES
<1> HIDE DEF E
<1>18. Counted(Earlier(path, Len(path)), base)'
  BY <1>13, <1>16 DEF Counted
<1>19. (base + product(SIZES(Len(path))) <= elementCount)'
  BY <1>4, <1>14, <1>17
<1> QED BY <1>5, <1>6, <1>9, <1>15, <1>18, <1>19 DEF ArrayInv

(* The invariant holds for every shape and every sequence of indexes.      *)
LEMMA ArrayInvariant == ArraySpec => []ArrayInv
<1>1. ArrayInit => ArrayInv
  <2> SUFFICES ASSUME ArrayInit PROVE ArrayInv
    OBVIOUS
  <2>1. shape \in Seq(Nat) /\ path = <<>> /\ base = 0
    BY HidlArrayAssumption DEF ArrayInit
  <2>2. PICK P : /\ Below(P) /\ elementCount = P[0]
                 /\ \A k \in 0..Len(shape) : product(SIZES(k)) = P[k]
    BY <2>1, SizesBelow
  <2>3. product(SIZES(0)) = P[0] /\ P[0] \in Nat
    BY <2>1, <2>2 DEF Below
  <2>4. Earlier(path, 0) = {}
    BY DEF Earlier
  <2>5. Counted(Earlier(path, 0), 0)
    BY <2>4, FS_EmptySet DEF Counted
  <2>6. Len(path) = 0 /\ path \in Seq(Nat)
    BY <2>1
  <2> QED BY <2>1, <2>2, <2>3, <2>5, <2>6 DEF ArrayInv, InRange
<1>2. ArrayInv /\ [ArrayNext]_arrayVars => ArrayInv'
  <2> SUFFICES ASSUME ArrayInv, [ArrayNext]_arrayVars PROVE ArrayInv'
    OBVIOUS
  <2>1. CASE ArrayNext
    BY <2>1, IndexPreserves DEF ArrayNext
  <2>2. CASE UNCHANGED arrayVars
    BY <2>2 DEF arrayVars, ArrayInv, InRange, Counted, Earlier, Tuples, SIZES, elementCount
  <2> QED BY <2>1, <2>2
<1> QED BY <1>1, <1>2, PTL DEF ArraySpec

(***************************************************************************)
(* Element t of a hidl_array of any number of dimensions of any sizes,     *)
(* reached by operator[] index by index, is at the offset equal to the     *)
(* number of index tuples that come before t, which lies within the array: *)
(* distinct tuples never share an element, and the layout is that of the C *)
(* array the parcel carries (HidlSupport.h, details::product and           *)
(* const_accessor).                                                        *)
(***************************************************************************)
THEOREM ArraysAreRowMajor == ArraySpec => []ArrayIsRowMajor
<1>1. ArrayInv => ArrayIsRowMajor
  <2> SUFFICES ASSUME ArrayInv, Len(path) = Len(shape)
               PROVE  /\ base = Cardinality({t \in Tuples : Before(t, path)})
                      /\ base < elementCount
    BY DEF ArrayIsRowMajor
  <2>1. PICK P : /\ Below(P) /\ elementCount = P[0]
                 /\ \A k \in 0..Len(shape) : product(SIZES(k)) = P[k]
    BY SizesBelow DEF ArrayInv
  <2>2. /\ Len(shape) \in Nat /\ base \in Nat /\ P[0] \in Nat
        /\ product(SIZES(Len(path))) = 1
    BY <2>1 DEF ArrayInv, Below
  <2>3. base < elementCount
    BY <2>1, <2>2 DEF ArrayInv
  <2>4. {t \in Tuples : Before(t, path)} = Earlier(path, Len(path))
    <3>1. DOMAIN shape = 1..Len(path)
      BY DEF ArrayInv
    <3> QED BY <3>1 DEF Before, Earlier
  <2> QED BY <2>3, <2>4 DEF ArrayInv, Counted
<1> QED BY <1>1, ArrayInvariant, PTL

-----------------------------------------------------------------------------
(***************************************************************************)
(* Part 2: the message queue descriptor.                                   *)
(***************************************************************************)
(* A queue that was laid out has the grantors of its size.                 *)
GrantorsOfSize ==
    outcome = "laidOut" =>
        /\ bufferSize \in 0..SIZE_MAX
        /\ \E count \in {3, 4} :
              /\ mGrantors = [i \in 1..count |-> Grantor(bufferSize, i)]
              /\ \A i \in 1..count : ~TooLarge(Offset(bufferSize)[i])

(* Arithmetic of one word: no wrap-around,                                 *)
LEMMA ModSmall ==
    ASSUME NEW a \in Nat, NEW n \in Nat, a < n PROVE a % n = a
OBVIOUS

(* one wrap-around,                                                        *)
LEMMA ModOnce ==
    ASSUME NEW a \in Nat, NEW n \in Nat, n <= a, a < 2 * n PROVE a % n = a - n
OBVIOUS

(* and a word-aligned number stays aligned when it wraps around at a       *)
(* multiple of a word.                                                     *)
LEMMA ModMultiple ==
    ASSUME NEW a \in Nat, NEW n \in Nat, n > 0, a % Word = 0, n % Word = 0
    PROVE  a % n \in 0..(n - 1) /\ (a % n) % Word = 0
<1>1. /\ a \div n \in Nat /\ a % n \in 0..(n - 1)
      /\ a = n * (a \div n) + (a % n)
  OBVIOUS
<1>2. a = 8 * (a \div 8) /\ n = 8 * (n \div 8) /\ a \div 8 \in Nat /\ n \div 8 \in Nat
  BY DEF Word
<1>3. a % n = 8 * ((a \div 8) - (n \div 8) * (a \div n))
  BY <1>1, <1>2
<1> DEFINE k == (a \div 8) - (n \div 8) * (a \div n)
<1>4. k \in Int
  BY <1>1, <1>2
<1>5. a % n = 8 * k
  BY <1>3
<1> HIDE DEF k
<1>6. (8 * k) % 8 = 0
  BY <1>4
<1> QED BY <1>1, <1>5, <1>6 DEF Word

(* The next word boundary is less than a word away.                        *)
LEMMA Align ==
    ASSUME NEW n \in Nat
    PROVE  /\ alignToWordBoundary(n) \in Nat
           /\ alignToWordBoundary(n) % Word = 0
           /\ n <= alignToWordBoundary(n) /\ alignToWordBoundary(n) < n + Word
BY DEF alignToWordBoundary, RoundedDown, Word

(* The read and the write counter fill a word each, and the data follow    *)
(* them at 16.                                                             *)
LEMMA AlignValues ==
    /\ alignToWordBoundary(0) = 0 /\ alignToWordBoundary(8) = 8
    /\ alignToWordBoundary(16) = 16
BY DEF alignToWordBoundary, RoundedDown, Word

(* Every queue the constructor laid out has the grantors of its size.      *)
LEMMA QueueInvariant == QueueSpec => []GrantorsOfSize
<1>1. QueueInit => GrantorsOfSize
  BY DEF QueueInit, GrantorsOfSize
<1>2. GrantorsOfSize /\ [QueueNext]_queueVars => GrantorsOfSize'
  <2> SUFFICES ASSUME GrantorsOfSize, [QueueNext]_queueVars PROVE GrantorsOfSize'
    OBVIOUS
  <2>1. ASSUME NEW size \in 0..SIZE_MAX, NEW eventFlag \in BOOLEAN, Lay(size, eventFlag)
        PROVE  GrantorsOfSize'
    <3> DEFINE count == IF eventFlag THEN 4 ELSE 3
    <3>1. count \in {3, 4}
      OBVIOUS
    <3>2. /\ bufferSize' = size
          /\ IF \E i \in 1..count : TooLarge(Offset(size)[i])
             THEN outcome' = "aborted" /\ UNCHANGED mGrantors
             ELSE /\ mGrantors' = [i \in 1..count |-> Grantor(size, i)]
                  /\ outcome' = "laidOut"
      BY <2>1 DEF Lay
    <3> HIDE DEF count
    <3> QED BY <3>1, <3>2 DEF GrantorsOfSize
  <2>2. ASSUME NEW offset \in 0..(2 * Word),
               CopyGrantors(<<[offset |-> offset, extent |-> Word]>>)
        PROVE  GrantorsOfSize'
    BY <2>2 DEF CopyGrantors, GrantorsOfSize
  <2>3. CASE UNCHANGED queueVars
    BY <2>3 DEF queueVars, GrantorsOfSize
  <2> QED BY <2>1, <2>2, <2>3 DEF QueueNext
<1> QED BY <1>1, <1>2, PTL DEF QueueSpec

(* The four places, given the place of the event flag word.                *)
LEMMA GrantorValues ==
    ASSUME NEW size \in 0..SIZE_MAX
    PROVE  /\ Grantor(size, 1) = [offset |-> 0, extent |-> 8]
           /\ Grantor(size, 2) = [offset |-> 8, extent |-> 8]
           /\ Grantor(size, 3) = [offset |-> 16, extent |-> size]
           /\ Grantor(size, 4) =
                 [offset |-> alignToWordBoundary((16 + size) % SizeValues) % OffsetValues,
                  extent |-> 4]
<1>1. 0 % OffsetValues = 0 /\ 8 % OffsetValues = 8 /\ 16 % OffsetValues = 16
  BY MQDescriptorAssumption, ModSmall DEF Word
<1>2. /\ Offset(size)[1] = 0 /\ Offset(size)[2] = 8 /\ Offset(size)[3] = 16
      /\ Offset(size)[4] = (16 + size) % SizeValues
  BY DEF Offset
<1>3. /\ memSize(size)[1] = 8 /\ memSize(size)[2] = 8 /\ memSize(size)[3] = size
      /\ memSize(size)[4] = 4
  BY DEF memSize
<1> QED BY <1>1, <1>2, <1>3, AlignValues DEF Grantor

(* Where the event flag word is put: behind the data if that place has an  *)
(* offset, else inside the counters or the data.                           *)
LEMMA EventFlagPlace ==
    ASSUME NEW size \in 0..SIZE_MAX, ~TooLarge((16 + size) % SizeValues)
    PROVE  LET t == Grantor(size, 4).offset IN
           /\ t \in Nat /\ t % Word = 0
           /\ IF alignToWordBoundary(16 + size) < OffsetValues
              THEN t >= 16 + size
              ELSE t \in {0, 8} \/ (16 <= t /\ t < 16 + size)
<1> DEFINE o == (16 + size) % SizeValues
           A == alignToWordBoundary(o)
           t == A % OffsetValues
<1>s. size \in Nat /\ size < SizeValues /\ SizeValues \in Nat /\ OffsetValues \in Nat
  BY MQDescriptorAssumption DEF SIZE_MAX
<1>w. 16 < OffsetValues /\ OffsetValues <= SizeValues
  BY MQDescriptorAssumption DEF Word
<1>o. o \in Nat
  BY <1>s, <1>w
<1>a. A \in Nat /\ A % Word = 0 /\ o <= A /\ A < o + Word
  BY <1>o, Align
<1>t. t \in 0..(OffsetValues - 1) /\ t % Word = 0
  <2> HIDE DEF A, o
  <2>1. OffsetValues % Word = 0 /\ OffsetValues > 0
    BY <1>s, <1>w, MQDescriptorAssumption
  <2> QED BY <2>1, <1>a, <1>s, ModMultiple
<1>g. Grantor(size, 4).offset = t
  BY GrantorValues
<1>b. /\ alignToWordBoundary(16 + size) \in Nat
      /\ 16 + size <= alignToWordBoundary(16 + size)
  BY Align, <1>s
<1>1. CASE 16 + size >= SizeValues
  <2>1. o = 16 + size - SizeValues
    <3> DEFINE sum == 16 + size
    <3>1. sum \in Nat /\ SizeValues <= sum /\ sum < 2 * SizeValues
      BY <1>1, <1>s, <1>w
    <3>2. o = sum % SizeValues /\ sum - SizeValues = 16 + size - SizeValues
      BY <1>s
    <3> HIDE DEF sum, o
    <3>3. sum % SizeValues = sum - SizeValues
      BY <3>1, <1>s, ModOnce
    <3> QED BY <3>2, <3>3
  <2>2. ~(alignToWordBoundary(16 + size) < OffsetValues)
    BY <1>1, <1>b, <1>s, <1>w
  <2>3. A \in {0, 8, 16}
    BY <1>a, <1>o, <2>1, <1>s DEF Word
  <2>4. t = A
    BY <2>3, ModSmall, <1>s, <1>w
  <2>5. size > 0
    BY <1>1, <1>s, <1>w
  <2> QED BY <2>2, <2>3, <2>4, <2>5, <1>g, <1>t, <1>s
<1>2. CASE 16 + size < SizeValues
  <2>1. o = 16 + size
    BY <1>2, <1>s, ModSmall
  <2>2. CASE A < OffsetValues
    <3>1. t = A
      BY <2>2, <1>a, <1>s, ModSmall
    <3> QED BY <3>1, <2>1, <2>2, <1>a, <1>g, <1>t, <1>s
  <2>3. CASE A >= OffsetValues
    <3> HIDE DEF t, A, o
    <3>1. t < A
      BY <2>3, <1>t, <1>a, <1>s
    <3>2. t <= A - 8
      BY <3>1, <1>t, <1>a, <1>s DEF Word
    <3>3. t < 16 + size
      BY <3>2, <2>1, <1>a, <1>t, <1>s DEF Word
    <3>4. t < 16 => t \in {0, 8}
      BY <1>t, <1>s DEF Word
    <3>5. ~(alignToWordBoundary(16 + size) < OffsetValues)
      BY <2>1, <2>3, <1>a, <1>s DEF A
    <3> QED BY <3>3, <3>4, <3>5, <1>g, <1>t, <1>s
  <2> QED BY <2>2, <2>3, <1>a, <1>s
<1> QED BY <1>1, <1>2, <1>s

(***************************************************************************)
(* For every width of size_t and of a grantor's offset and every queue     *)
(* size: the read counter, the write counter, the data and the event flag  *)
(* word of a queue that the constructor laid out are word aligned, and     *)
(* they share no byte exactly when the queue has no event flag or the      *)
(* event flag's place behind the data can be said in an offset. Otherwise  *)
(* the narrowing cast wraps around, and the event flag word is always on   *)
(* top of the counters or the data (MQDescriptor.h).                       *)
(***************************************************************************)
THEOREM GrantorsAreDisjoint == QueueSpec => []GrantorsDisjoint
<1>1. GrantorsOfSize => GrantorsDisjoint
  <2> SUFFICES ASSUME GrantorsOfSize, outcome = "laidOut"
               PROVE  /\ \A i \in DOMAIN mGrantors :
                            isAlignedToWordBoundary(mGrantors[i].offset)
                      /\ (\A i, j \in DOMAIN mGrantors :
                              i # j => Bytes(mGrantors[i]) \cap Bytes(mGrantors[j]) = {})
                         <=> (Len(mGrantors) = 3
                              \/ alignToWordBoundary(16 + bufferSize) < OffsetValues)
    BY DEF GrantorsDisjoint
  <2> DEFINE size == bufferSize
             t == Grantor(size, 4).offset
  <2>1. size \in 0..SIZE_MAX /\ size \in Nat
    BY MQDescriptorAssumption DEF GrantorsOfSize, SIZE_MAX
  <2>2. PICK count \in {3, 4} :
           /\ mGrantors = [i \in 1..count |-> Grantor(size, i)]
           /\ \A i \in 1..count : ~TooLarge(Offset(size)[i])
    BY DEF GrantorsOfSize
  <2>3. DOMAIN mGrantors = 1..count /\ Len(mGrantors) = count
    BY <2>2
  <2>4. /\ Bytes(Grantor(size, 1)) = 0..7
        /\ Bytes(Grantor(size, 2)) = 8..15
        /\ Bytes(Grantor(size, 3)) = 16..(16 + size - 1)
        /\ Bytes(Grantor(size, 4)) = t..(t + 3)
    <3> HIDE DEF size
    <3>1. /\ Grantor(size, 1).offset = 0 /\ Grantor(size, 1).extent = 8
          /\ Grantor(size, 2).offset = 8 /\ Grantor(size, 2).extent = 8
          /\ Grantor(size, 3).offset = 16 /\ Grantor(size, 3).extent = size
          /\ Grantor(size, 4).extent = 4
      BY <2>1, GrantorValues
    <3>2. 0 + 8 - 1 = 7 /\ 8 + 8 - 1 = 15
      OBVIOUS
    <3>3. t \in Nat
      <4>1. alignToWordBoundary((16 + size) % SizeValues) \in Nat
        BY <2>1, MQDescriptorAssumption DEF alignToWordBoundary, RoundedDown, Word
      <4>2. t = alignToWordBoundary((16 + size) % SizeValues) % OffsetValues
        BY <2>1, GrantorValues
      <4>3. OffsetValues \in Nat /\ OffsetValues > 0
        BY MQDescriptorAssumption DEF Word
      <4> QED BY <4>1, <4>2, <4>3
    <3>4. Bytes(Grantor(size, 4)) = t..(t + 4 - 1)
      BY <3>1 DEF Bytes
    <3> HIDE DEF t
    <3>5. t + 4 - 1 = t + 3
      BY <3>3
    <3> QED BY <3>1, <3>2, <3>4, <3>5 DEF Bytes
  <2>5. /\ isAlignedToWordBoundary(Grantor(size, 1).offset)
        /\ isAlignedToWordBoundary(Grantor(size, 2).offset)
        /\ isAlignedToWordBoundary(Grantor(size, 3).offset)
    BY <2>1, GrantorValues DEF isAlignedToWordBoundary, Word
  <2> HIDE DEF size, t
  <2>6. CASE count = 3
    <3>1. DOMAIN mGrantors = {1, 2, 3}
      BY <2>3, <2>6
    <3>2. \A i \in {1, 2, 3} : mGrantors[i] = Grantor(size, i)
      BY <2>2, <2>6
    <3>3. /\ (0..7) \cap (8..15) = {} /\ (0..7) \cap (16..(16 + size - 1)) = {}
          /\ (8..15) \cap (16..(16 + size - 1)) = {}
      BY <2>1
    <3>4. \A i, j \in {1, 2, 3} : i # j =>
             Bytes(Grantor(size, i)) \cap Bytes(Grantor(size, j)) = {}
      <4> DEFINE B(i) == Bytes(Grantor(size, i))
      <4>1. /\ B(1) \cap B(2) = {} /\ B(1) \cap B(3) = {} /\ B(2) \cap B(3) = {}
        BY <2>4, <3>3
      <4>2. \A i, j : B(i) \cap B(j) = B(j) \cap B(i)
        OBVIOUS
      <4> HIDE DEF B
      <4>3. \A i, j \in {1, 2, 3} : i # j => B(i) \cap B(j) = {}
        BY <4>1, <4>2
      <4> QED BY <4>3 DEF B
    <3> QED BY <2>3, <2>5, <2>6, <3>1, <3>2, <3>4
  <2>7. CASE count = 4
    <3>1. DOMAIN mGrantors = {1, 2, 3, 4} /\ Len(mGrantors) # 3
      BY <2>3, <2>7
    <3>2. \A i \in {1, 2, 3, 4} : mGrantors[i] = Grantor(size, i)
      BY <2>2, <2>7
    <3>3. ~TooLarge((16 + size) % SizeValues)
      BY <2>2, <2>7 DEF Offset
    <3>4. /\ t \in Nat /\ t % Word = 0
          /\ IF alignToWordBoundary(16 + size) < OffsetValues
             THEN t >= 16 + size
             ELSE t \in {0, 8} \/ (16 <= t /\ t < 16 + size)
      BY <2>1, <3>3, EventFlagPlace DEF t
    <3>5. \A i \in {1, 2, 3, 4} : isAlignedToWordBoundary(Grantor(size, i).offset)
      BY <2>5, <3>4 DEF isAlignedToWordBoundary, t
    <3>6. CASE alignToWordBoundary(16 + size) < OffsetValues
      <4>1. /\ (0..7) \cap (8..15) = {} /\ (0..7) \cap (16..(16 + size - 1)) = {}
            /\ (8..15) \cap (16..(16 + size - 1)) = {}
            /\ (0..7) \cap (t..(t + 3)) = {} /\ (8..15) \cap (t..(t + 3)) = {}
            /\ (16..(16 + size - 1)) \cap (t..(t + 3)) = {}
        BY <2>1, <3>4, <3>6
      <4>2. \A i, j \in {1, 2, 3, 4} : i # j =>
               Bytes(Grantor(size, i)) \cap Bytes(Grantor(size, j)) = {}
        <5> DEFINE B(i) == Bytes(Grantor(size, i))
        <5>1. /\ B(1) \cap B(2) = {} /\ B(1) \cap B(3) = {} /\ B(2) \cap B(3) = {}
              /\ B(1) \cap B(4) = {} /\ B(2) \cap B(4) = {} /\ B(3) \cap B(4) = {}
          BY <2>4, <4>1
        <5>2. \A i, j : B(i) \cap B(j) = B(j) \cap B(i)
          OBVIOUS
        <5> HIDE DEF B
        <5>3. \A i, j \in {1, 2, 3, 4} : i # j => B(i) \cap B(j) = {}
          BY <5>1, <5>2
        <5> QED BY <5>3 DEF B
      <4> QED BY <3>1, <3>2, <3>5, <3>6, <4>2 DEF size
    <3>7. CASE ~(alignToWordBoundary(16 + size) < OffsetValues)
      <4>1. \/ t \in (0..7) \/ t \in (8..15) \/ t \in 16..(16 + size - 1)
        BY <2>1, <3>4, <3>7
      <4>2. \E i \in {1, 2, 3} : t \in Bytes(Grantor(size, i))
        BY <2>4, <4>1
      <4>3. t \in Bytes(Grantor(size, 4))
        BY <2>4, <3>4
      <4>4. PICK i \in {1, 2, 3} : t \in Bytes(mGrantors[i])
        BY <3>2, <4>2
      <4>5. t \in Bytes(mGrantors[4])
        BY <3>2, <4>3
      <4>6. ~(Bytes(mGrantors[i]) \cap Bytes(mGrantors[4]) = {})
        BY <4>4, <4>5
      <4>7. ~(\A i1, j1 \in DOMAIN mGrantors :
                 i1 # j1 => Bytes(mGrantors[i1]) \cap Bytes(mGrantors[j1]) = {})
        BY <3>1, <4>6
      <4> QED BY <3>1, <3>2, <3>5, <3>7, <4>7 DEF size
    <3> QED BY <3>6, <3>7
  <2> QED BY <2>6, <2>7
<1> QED BY <1>1, QueueInvariant, PTL

-----------------------------------------------------------------------------
(***************************************************************************)
(* Part 3: the instrumentation libraries.                                  *)
(***************************************************************************)
(* A sequence of a finite set's elements, each once, has them all.         *)
LEMMA SetToSeqsComplete ==
    ASSUME NEW S, IsFiniteSet(S), NEW s \in SetToSeqs(S)
    PROVE  /\ s \in Seq(S) /\ Len(s) = Cardinality(S)
           /\ DOMAIN s = 1..Cardinality(S)
           /\ \A x \in S : \E i \in DOMAIN s : s[i] = x
<1> DEFINE n == Cardinality(S)
<1>1. n \in Nat
  BY FS_CardinalityType
<1>2. /\ s \in [1..n -> S]
      /\ \A i, j \in 1..n : i # j => s[i] # s[j]
  BY DEF SetToSeqs
<1>3. s \in Injection(1..n, S)
  BY <1>2 DEF Injection, IsInjective
<1>4. Cardinality(1..n) = n
  BY <1>1, FS_Interval
<1> HIDE DEF n
<1>5. s \in Surjection(1..n, S)
  BY <1>1, <1>3, <1>4, FS_Injection DEF n
<1>6. \A x \in S : \E i \in 1..n : s[i] = x
  BY <1>5 DEF Surjection
<1>7. s \in Seq(S) /\ Len(s) = n /\ DOMAIN s = 1..n
  BY <1>1, <1>2
<1> QED BY <1>6, <1>7 DEF n

(* The libraries found: usable, in a directory before the first missing.   *)
Found == (UNION {directories[i] : i \in Searched}) \cap Usable

(* Callbacks are those of one pass over the directories, or none.          *)
InstrumentInv ==
    /\ DOMAIN directories \subseteq Nat \ {0}
    /\ \A i \in DOMAIN directories : directories[i] \in (SUBSET Libraries) \union {Missing}
    /\ property \in BOOLEAN /\ mEnableInstrumentation \in BOOLEAN
    /\ IF mEnableInstrumentation THEN mInstrumentationCallbacks \in SetToSeqs(Found)
       ELSE mInstrumentationCallbacks = <<>>

(* Finitely many libraries are found.                                      *)
LEMMA FoundIsFinite ==
    ASSUME InstrumentInv PROVE IsFiniteSet(Found)
<1>1. \A i \in Searched : i \in DOMAIN directories /\ directories[i] # Missing
  BY DEF Searched, InstrumentInv
<1>2. \A i \in Searched : directories[i] \subseteq Libraries
  BY <1>1 DEF InstrumentInv
<1>3. Found \subseteq Libraries
  BY <1>2 DEF Found
<1> QED BY <1>3, FS_Subset, InstrumentorAssumption

(* The invariant holds in every reachable state.                           *)
LEMMA InstrumentInvariant == InstrumentSpec => []InstrumentInv
<1>1. InstrumentInit => InstrumentInv
  <2> SUFFICES ASSUME InstrumentInit PROVE InstrumentInv
    OBVIOUS
  <2>1. PICK n \in {1, LibPaths} : directories \in [1..n -> (SUBSET Libraries) \union {Missing}]
    BY DEF InstrumentInit
  <2>2. n \in Nat
    BY InstrumentorAssumption
  <2>3. DOMAIN directories = 1..n /\ 1..n \subseteq Nat \ {0}
    BY <2>1, <2>2
  <2>4. \A i \in DOMAIN directories : directories[i] \in (SUBSET Libraries) \union {Missing}
    BY <2>1
  <2>5. /\ property \in BOOLEAN /\ mEnableInstrumentation = FALSE
        /\ mInstrumentationCallbacks = <<>>
    BY DEF InstrumentInit
  <2> QED BY <2>3, <2>4, <2>5 DEF InstrumentInv
<1>2. InstrumentInv /\ [InstrumentNext]_instrumentVars => InstrumentInv'
  <2> SUFFICES ASSUME InstrumentInv, [InstrumentNext]_instrumentVars PROVE InstrumentInv'
    OBVIOUS
  <2>1. ASSUME directories' = directories PROVE Found' = Found
    BY <2>1 DEF Found, Searched
  <2>2. CASE configureInstrumentation
    <3>1. CASE property
      <4>1. PICK s \in Registrations :
               mInstrumentationCallbacks' = mInstrumentationCallbacks \o s
        BY <2>2, <3>1 DEF configureInstrumentation
      <4>2. mInstrumentationCallbacks = <<>>
        BY <2>2, <3>1 DEF configureInstrumentation, InstrumentInv
      <4>3. s \in SetToSeqs(Found)
        BY DEF Registrations, Found
      <4>4. s \in Seq(Found)
        BY <4>3, FoundIsFinite, SetToSeqsComplete
      <4>5. mInstrumentationCallbacks' = s
        BY <4>1, <4>2, <4>4
      <4> QED BY <2>1, <2>2, <3>1, <4>3, <4>5 DEF configureInstrumentation, InstrumentInv
    <3>2. CASE ~property
      BY <2>2, <3>2 DEF configureInstrumentation, InstrumentInv, ClearedCallbacks
    <3> QED BY <3>1, <3>2
  <2>3. CASE SetProperty
    BY <2>1, <2>3 DEF SetProperty, InstrumentInv
  <2>4. CASE UNCHANGED instrumentVars
    BY <2>1, <2>4 DEF instrumentVars, InstrumentInv
  <2> QED BY <2>2, <2>3, <2>4 DEF InstrumentNext
<1> QED BY <1>1, <1>2, PTL DEF InstrumentSpec

(***************************************************************************)
(* While instrumentation is enabled every usable library of the            *)
(* directories searched is called back exactly once per event, however     *)
(* often configureInstrumentation() ran, and while it is disabled none is  *)
(* (HidlInternal.cpp).                                                     *)
(***************************************************************************)
THEOREM CallbacksAreCalledOnce == InstrumentSpec => []CallbacksOnce
<1>1. InstrumentInv => CallbacksOnce
  <2> SUFFICES ASSUME InstrumentInv, mEnableInstrumentation
               PROVE  /\ Len(mInstrumentationCallbacks)
                           = Cardinality(Elements(mInstrumentationCallbacks))
                      /\ \A l \in Usable :
                            l \in Elements(mInstrumentationCallbacks) <=>
                                \E i \in DOMAIN directories :
                                    /\ directories[i] # Missing /\ l \in directories[i]
                                    /\ \A j \in 1..i : directories[j] # Missing
    BY DEF InstrumentInv, CallbacksOnce
  <2> DEFINE s == mInstrumentationCallbacks
  <2>1. s \in SetToSeqs(Found)
    BY DEF InstrumentInv
  <2> HIDE DEF s
  <2>2. /\ s \in Seq(Found) /\ Len(s) = Cardinality(Found)
        /\ \A x \in Found : \E i \in DOMAIN s : s[i] = x
    BY <2>1, FoundIsFinite, SetToSeqsComplete
  <2>3. Elements(s) = Found
    BY <2>2 DEF Elements
  <2>4. \A l \in Usable : l \in Found <=>
           \E i \in DOMAIN directories :
               /\ l \in directories[i] /\ \A j \in 1..i : directories[j] # Missing
    BY DEF Found, Searched
  <2>5. \A i \in DOMAIN directories : i \in 1..i
    BY DEF InstrumentInv
  <2> QED BY <2>2, <2>3, <2>4, <2>5 DEF s
<1> QED BY <1>1, InstrumentInvariant, PTL

-----------------------------------------------------------------------------
(***************************************************************************)
(* Part 4: the passthrough libraries.                                      *)
(***************************************************************************)
Counts == [Processes -> [Impls -> Nat]]

PassthroughTypeOK ==
    /\ dirOf \in [Impls -> Nat]
    /\ todo \in [Processes -> Seq(Impls)]
    /\ ret \in [Processes -> Impls \union {NoImpl}]
    /\ DOMAIN doing = Processes /\ doing = [p \in Processes |-> doing[p]]
    /\ refs \in Counts /\ got \in Counts /\ preloaded \in Counts

(* A library is mapped as often as it serves a get() or was preloaded.     *)
RefsExact ==
    \A p \in Processes, l \in Impls :
        refs[p][l] = got[p][l] + (IF kind[l] = "unloadable" THEN 0 ELSE preloaded[p][l])

(* What serves was got, and lies in the first directory that has it.       *)
ServedExact ==
    \A p \in Processes : ret[p] # NoImpl =>
        /\ kind[ret[p]] = "hasIt"
        /\ got[p][ret[p]] > 0
        /\ \A l \in Impls : kind[l] = "hasIt" => dirOf[ret[p]] <= dirOf[l]

(* A search in progress has passed over no library that has the instance,  *)
(* and goes through the rest directory by directory.                       *)
Searching(libs, c, dir, k) ==
    /\ c = "idle" => libs = <<>>
    /\ \A i, j \in DOMAIN libs : i < j => dir[libs[i]] <= dir[libs[j]]
    /\ c = "get" /\ libs # <<>> =>
          \A l \in Impls : k[l] = "hasIt" => \E i \in DOMAIN libs : libs[i] = l

SearchComplete == \A p \in Processes : Searching(todo[p], doing[p], dirOf, kind)

PassthroughInv ==
    /\ PassthroughTypeOK
    /\ RefsExact
    /\ ServedExact
    /\ SearchComplete

-----------------------------------------------------------------------------
(* A search goes through every library.                                    *)
LEMMA SearchOrderComplete ==
    ASSUME NEW s \in SearchOrders
    PROVE  /\ s \in Seq(Impls)
           /\ \A l \in Impls : \E i \in DOMAIN s : s[i] = l
           /\ \A i, j \in DOMAIN s : i < j => dirOf[s[i]] <= dirOf[s[j]]
<1>1. s \in SetToSeqs(Impls)
  BY DEF SearchOrders
<1>2. \A i, j \in DOMAIN s : i < j => dirOf[s[i]] <= dirOf[s[j]]
  BY DEF SearchOrders
<1> QED BY <1>1, <1>2, SetToSeqsComplete, PassthroughAssumption

(* The tail of a sequence.                                                 *)
LEMMA TailOf ==
    ASSUME NEW s \in Seq(Impls), s # <<>>
    PROVE  /\ Tail(s) \in Seq(Impls)
           /\ DOMAIN Tail(s) = 1..(Len(s) - 1)
           /\ \A i \in DOMAIN Tail(s) : i + 1 \in DOMAIN s /\ Tail(s)[i] = s[i + 1]
           /\ \A i \in DOMAIN s : i # 1 => i - 1 \in DOMAIN Tail(s) /\ Tail(s)[i - 1] = s[i]
           /\ Head(s) = s[1] /\ 1 \in DOMAIN s /\ Head(s) \in Impls
OBVIOUS

(* One more reference or call.                                             *)
LEMMA BumpCounts ==
    ASSUME NEW f \in Counts, NEW p \in Processes, NEW l \in Impls
    PROVE  /\ Bump(f, p, l) \in Counts
           /\ \A q \in Processes, m \in Impls :
                 Bump(f, p, l)[q][m] = IF q = p /\ m = l THEN f[q][m] + 1 ELSE f[q][m]
BY DEF Bump, Counts

(* A search begins with every library, or with none.                       *)
LEMMA OpenLibsPreserves ==
    ASSUME PassthroughInv, NEW p \in Processes, NEW c \in {"get", "preload"},
           NEW valid \in BOOLEAN, openLibs(p, c, valid)
    PROVE  PassthroughInv'
<1> USE DEF PassthroughInv
<1>1. /\ UNCHANGED <<dirOf, kind, refs, got, preloaded>>
      /\ doing' = [doing EXCEPT ![p] = c] /\ ret' = [ret EXCEPT ![p] = NoImpl]
      /\ doing[p] = "idle" /\ c # "idle"
  BY DEF openLibs
<1>2. PICK s \in Seq(Impls) :
          /\ todo' = [todo EXCEPT ![p] = s]
          /\ s = <<>> \/ \A l \in Impls : \E i \in DOMAIN s : s[i] = l
          /\ \A i, j \in DOMAIN s : i < j => dirOf[s[i]] <= dirOf[s[j]]
  <2>1. CASE valid
    BY <2>1, SearchOrderComplete DEF openLibs
  <2>2. CASE ~valid
    <3>1. todo' = [todo EXCEPT ![p] = <<>>]
      BY <1>1, <2>2 DEF openLibs, SearchComplete, Searching, PassthroughTypeOK
    <3>2. <<>> \in Seq(Impls) /\ DOMAIN <<>> = {}
      OBVIOUS
    <3> QED BY <3>1, <3>2
  <2> QED BY <2>1, <2>2
<1>3. PassthroughTypeOK'
  BY <1>1, <1>2 DEF PassthroughTypeOK
<1>4. RefsExact'
  BY <1>1 DEF RefsExact
<1>5. ServedExact'
  BY <1>1 DEF ServedExact, PassthroughTypeOK
<1>6. SearchComplete'
  <2> SUFFICES ASSUME NEW q \in Processes
               PROVE  Searching(todo'[q], doing'[q], dirOf, kind)
    BY <1>1 DEF SearchComplete
  <2>1. CASE q = p
    <3>1. doing'[q] # "idle" /\ todo'[q] = s
      BY <1>1, <1>2, <2>1 DEF PassthroughTypeOK
    <3> QED BY <1>2, <3>1 DEF Searching
  <2>2. CASE q # p
    <3>1. doing'[q] = doing[q] /\ todo'[q] = todo[q]
      BY <1>1, <1>2, <2>2 DEF PassthroughTypeOK
    <3> QED BY <3>1 DEF SearchComplete
  <2> QED BY <2>1, <2>2
<1> QED BY <1>3, <1>4, <1>5, <1>6

(* The search goes on with the rest, having passed a library that a get()  *)
(* cannot use.                                                             *)
LEMMA SearchGoesOn ==
    ASSUME PassthroughTypeOK, SearchComplete, NEW p \in Processes, todo[p] # <<>>,
           doing[p] = "get" => kind[Head(todo[p])] # "hasIt",
           todo' = [todo EXCEPT ![p] = Tail(@)], UNCHANGED <<dirOf, kind, doing>>
    PROVE  SearchComplete'
<1> SUFFICES ASSUME NEW q \in Processes
             PROVE  Searching(todo'[q], doing[q], dirOf, kind)
  BY DEF SearchComplete
<1>1. Searching(todo[q], doing[q], dirOf, kind)
  BY DEF SearchComplete
<1>2. CASE q = p
  <2> DEFINE libs == todo[q]
             rest == Tail(libs)
  <2>1. libs \in Seq(Impls) /\ libs # <<>> /\ todo'[q] = rest
    BY <1>2 DEF PassthroughTypeOK
  <2>2. doing[q] = "get" => kind[Head(libs)] # "hasIt"
    BY <1>2
  <2> HIDE DEF libs
  <2>3. /\ DOMAIN rest = 1..(Len(libs) - 1) /\ Len(libs) \in Nat
        /\ \A i \in DOMAIN rest : i + 1 \in DOMAIN libs /\ rest[i] = libs[i + 1]
        /\ \A i \in DOMAIN libs : i # 1 => i - 1 \in DOMAIN rest /\ rest[i - 1] = libs[i]
        /\ Head(libs) = libs[1]
    BY <2>1, TailOf
  <2> HIDE DEF rest
  <2>4. Searching(libs, doing[q], dirOf, kind)
    BY <1>1 DEF libs
  <2>5. ASSUME NEW i \in DOMAIN rest, NEW j \in DOMAIN rest, i < j
        PROVE  dirOf[rest[i]] <= dirOf[rest[j]]
    <3>1. i + 1 \in DOMAIN libs /\ j + 1 \in DOMAIN libs /\ i + 1 < j + 1
      BY <2>3, <2>5
    <3>2. rest[i] = libs[i + 1] /\ rest[j] = libs[j + 1]
      BY <2>3
    <3> QED BY <2>4, <3>1, <3>2 DEF Searching
  <2>6. ASSUME doing[q] = "get", NEW l \in Impls, kind[l] = "hasIt"
        PROVE  \E i \in DOMAIN rest : rest[i] = l
    <3>1. PICK i \in DOMAIN libs : libs[i] = l
      BY <2>1, <2>4, <2>6 DEF Searching
    <3>2. i # 1
      BY <2>2, <2>3, <2>6, <3>1
    <3> QED BY <2>3, <3>1, <3>2
  <2>7. doing[q] # "idle"
    BY <2>1, <2>4 DEF Searching
  <2>8. Searching(rest, doing[q], dirOf, kind)
    BY <2>5, <2>6, <2>7 DEF Searching
  <2> QED BY <2>1, <2>8
<1>3. CASE q # p
  <2>1. todo'[q] = todo[q]
    BY <1>3 DEF PassthroughTypeOK
  <2> QED BY <1>1, <2>1
<1> QED BY <1>2, <1>3

(* The first library that has the instance serves; the others are closed.  *)
LEMMA TryGetPreserves ==
    ASSUME PassthroughInv, NEW p \in Processes, NEW reached \in BOOLEAN, TryGet(p, reached)
    PROVE  PassthroughInv'
<1> USE DEF PassthroughInv
<1> DEFINE l == Head(todo[p])
<1>1. /\ UNCHANGED <<dirOf, kind, doing, preloaded>>
      /\ doing[p] = "get" /\ todo[p] # <<>>
      /\ todo[p] \in Seq(Impls) /\ l \in Impls /\ l = todo[p][1] /\ 1 \in DOMAIN todo[p]
  BY TailOf DEF TryGet, PassthroughTypeOK
<1>2. CASE kind[l] = "hasIt"
  <2>1. /\ refs' = Bump(refs, p, l) /\ got' = Bump(got, p, l)
        /\ ret' = [ret EXCEPT ![p] = l] /\ todo' = [todo EXCEPT ![p] = <<>>]
    BY <1>2 DEF TryGet, AfterFind
  <2> HIDE DEF l
  <2>a. /\ refs' \in Counts /\ got' \in Counts
        /\ \A q \in Processes, m \in Impls :
              /\ refs'[q][m] = IF q = p /\ m = l THEN refs[q][m] + 1 ELSE refs[q][m]
              /\ got'[q][m] = IF q = p /\ m = l THEN got[q][m] + 1 ELSE got[q][m]
    <3>1. refs \in Counts /\ got \in Counts /\ l \in Impls
      BY <1>1 DEF PassthroughTypeOK
    <3>2. /\ refs' \in Counts
          /\ \A q \in Processes, m \in Impls :
                refs'[q][m] = IF q = p /\ m = l THEN refs[q][m] + 1 ELSE refs[q][m]
      BY <3>1, <2>1, BumpCounts
    <3>3. /\ got' \in Counts
          /\ \A q \in Processes, m \in Impls :
                got'[q][m] = IF q = p /\ m = l THEN got[q][m] + 1 ELSE got[q][m]
      BY <3>1, <2>1, BumpCounts
    <3> QED BY <3>2, <3>3
  <2>b. \A q \in Processes, m \in Impls :
           refs[q][m] \in Nat /\ got[q][m] \in Nat /\ preloaded[q][m] \in Nat
    BY DEF PassthroughTypeOK, Counts
  <2>2. PassthroughTypeOK'
    BY <1>1, <2>1, <2>a DEF PassthroughTypeOK
  <2>3. RefsExact'
    <3> SUFFICES ASSUME NEW q \in Processes, NEW m \in Impls
                 PROVE  refs'[q][m] = got'[q][m] + (IF kind[m] = "unloadable" THEN 0
                                                    ELSE preloaded[q][m])
      BY <1>1 DEF RefsExact
    <3>1. refs[q][m] = got[q][m] + (IF kind[m] = "unloadable" THEN 0 ELSE preloaded[q][m])
      BY DEF RefsExact
    <3> QED BY <2>a, <2>b, <3>1
  <2>4. \A m \in Impls : kind[m] = "hasIt" => dirOf[l] <= dirOf[m]
    <3> SUFFICES ASSUME NEW m \in Impls, kind[m] = "hasIt" PROVE dirOf[l] <= dirOf[m]
      OBVIOUS
    <3>1. PICK i \in DOMAIN todo[p] : todo[p][i] = m
      BY <1>1 DEF SearchComplete, Searching
    <3>2. DOMAIN todo[p] = 1..Len(todo[p]) /\ Len(todo[p]) \in Nat
      BY <1>1
    <3>3. dirOf[l] \in Nat
      BY <1>1 DEF PassthroughTypeOK
    <3>4. CASE i = 1
      BY <1>1, <3>1, <3>3, <3>4
    <3>5. CASE 1 < i
      BY <1>1, <3>1, <3>5 DEF SearchComplete, Searching
    <3> QED BY <3>2, <3>4, <3>5
  <2>5. ServedExact'
    <3> SUFFICES ASSUME NEW q \in Processes, ret'[q] # NoImpl
                 PROVE  /\ kind[ret'[q]] = "hasIt" /\ got'[q][ret'[q]] > 0
                        /\ \A m \in Impls : kind[m] = "hasIt" => dirOf[ret'[q]] <= dirOf[m]
      BY <1>1 DEF ServedExact
    <3>1. CASE q = p
      <4>1. ret'[q] = l
        BY <2>1, <3>1 DEF PassthroughTypeOK
      <4>2. got'[q][l] > 0
        BY <1>1, <2>a, <2>b, <3>1
      <4> QED BY <1>2, <2>4, <4>1, <4>2
    <3>2. CASE q # p
      <4>1. ret'[q] = ret[q] /\ ret[q] \in Impls
        BY <2>1, <3>2 DEF PassthroughTypeOK
      <4>2. got'[q][ret[q]] = got[q][ret[q]]
        BY <2>a, <3>2, <4>1
      <4> QED BY <4>1, <4>2 DEF ServedExact
    <3> QED BY <3>1, <3>2
  <2>6. SearchComplete'
    <3>1. \A q \in Processes : todo'[q] = IF q = p THEN <<>> ELSE todo[q]
      BY <2>1 DEF PassthroughTypeOK
    <3>2. Searching(<<>>, "get", dirOf, kind)
      BY DOMAIN <<>> = {} DEF Searching
    <3> QED BY <1>1, <3>1, <3>2 DEF SearchComplete
  <2> QED BY <2>2, <2>3, <2>5, <2>6
<1>3. CASE kind[l] # "hasIt"
  <2>1. UNCHANGED <<refs, got, ret>> /\ todo' = [todo EXCEPT ![p] = Tail(@)]
    BY <1>3 DEF TryGet
  <2>2. Tail(todo[p]) \in Seq(Impls)
    BY <1>1, TailOf
  <2>3. PassthroughTypeOK'
    BY <1>1, <2>1, <2>2 DEF PassthroughTypeOK
  <2>4. RefsExact' /\ ServedExact'
    BY <1>1, <2>1 DEF RefsExact, ServedExact
  <2>5. SearchComplete'
    BY <1>1, <1>3, <2>1, SearchGoesOn
  <2> QED BY <2>3, <2>4, <2>5
<1> QED BY <1>2, <1>3

(* A preloaded library that loads stays open.                              *)
LEMMA TryPreloadPreserves ==
    ASSUME PassthroughInv, NEW p \in Processes, TryPreload(p)
    PROVE  PassthroughInv'
<1> USE DEF PassthroughInv
<1> DEFINE l == Head(todo[p])
<1>1. /\ UNCHANGED <<dirOf, kind, doing, ret, got>>
      /\ doing[p] = "preload" /\ todo[p] # <<>>
      /\ todo' = [todo EXCEPT ![p] = Tail(@)]
      /\ todo[p] \in Seq(Impls) /\ l \in Impls /\ Tail(todo[p]) \in Seq(Impls)
  BY TailOf DEF TryPreload, PassthroughTypeOK
<1>2. /\ refs' = IF kind[l] = "unloadable" THEN refs ELSE Bump(refs, p, l)
      /\ preloaded' = Bump(preloaded, p, l)
  BY DEF TryPreload
<1> HIDE DEF l
<1>3. /\ refs' \in Counts /\ preloaded' \in Counts
      /\ \A q \in Processes, m \in Impls :
            /\ refs'[q][m] = IF q = p /\ m = l /\ kind[l] # "unloadable"
                             THEN refs[q][m] + 1 ELSE refs[q][m]
            /\ preloaded'[q][m] = IF q = p /\ m = l THEN preloaded[q][m] + 1
                                  ELSE preloaded[q][m]
  <2>1. preloaded \in Counts /\ refs \in Counts /\ l \in Impls
    BY <1>1 DEF PassthroughTypeOK
  <2>a. /\ Bump(preloaded, p, l) \in Counts
        /\ \A q \in Processes, m \in Impls :
              Bump(preloaded, p, l)[q][m] = IF q = p /\ m = l THEN preloaded[q][m] + 1
                                            ELSE preloaded[q][m]
    BY <2>1, BumpCounts
  <2>b. /\ Bump(refs, p, l) \in Counts
        /\ \A q \in Processes, m \in Impls :
              Bump(refs, p, l)[q][m] = IF q = p /\ m = l THEN refs[q][m] + 1
                                       ELSE refs[q][m]
    BY <2>1, BumpCounts
  <2>2. /\ preloaded' \in Counts
        /\ \A q \in Processes, m \in Impls :
              preloaded'[q][m] = IF q = p /\ m = l THEN preloaded[q][m] + 1
                                 ELSE preloaded[q][m]
    BY <1>2, <2>a
  <2>3. CASE kind[l] = "unloadable"
    BY <1>2, <2>2, <2>3 DEF PassthroughTypeOK
  <2>4. CASE kind[l] # "unloadable"
    <3>1. /\ refs' \in Counts
          /\ \A q \in Processes, m \in Impls :
                refs'[q][m] = IF q = p /\ m = l THEN refs[q][m] + 1 ELSE refs[q][m]
      BY <1>2, <2>4, <2>b
    <3> QED BY <2>2, <2>4, <3>1
  <2> QED BY <2>3, <2>4
<1>4. PassthroughTypeOK'
  BY <1>1, <1>3 DEF PassthroughTypeOK
<1>5. \A q \in Processes, m \in Impls :
         refs[q][m] \in Nat /\ got[q][m] \in Nat /\ preloaded[q][m] \in Nat
  BY DEF PassthroughTypeOK, Counts
<1>6. RefsExact'
  <2> SUFFICES ASSUME NEW q \in Processes, NEW m \in Impls
               PROVE  refs'[q][m] = got[q][m] + (IF kind[m] = "unloadable" THEN 0
                                                 ELSE preloaded'[q][m])
    BY <1>1 DEF RefsExact
  <2>1. refs[q][m] = got[q][m] + (IF kind[m] = "unloadable" THEN 0 ELSE preloaded[q][m])
    BY DEF RefsExact
  <2> QED BY <1>3, <1>5, <2>1
<1>7. ServedExact'
  BY <1>1 DEF ServedExact
<1>8. SearchComplete'
  BY <1>1, SearchGoesOn
<1> QED BY <1>4, <1>6, <1>7, <1>8

(* Every step of a process preserves the invariant.                        *)
LEMMA PassthroughNextPreserves ==
    PassthroughInv /\ [PassthroughNext]_passthroughVars => PassthroughInv'
<1> SUFFICES ASSUME PassthroughInv, [PassthroughNext]_passthroughVars PROVE PassthroughInv'
  OBVIOUS
<1>1. ASSUME NEW p \in Processes, Done(p) PROVE PassthroughInv'
  <2>1. /\ UNCHANGED <<dirOf, kind, todo, ret, refs, got, preloaded>>
        /\ doing' = [doing EXCEPT ![p] = "idle"] /\ todo[p] = <<>>
    BY <1>1 DEF Done
  <2>2. PassthroughTypeOK'
    BY <2>1 DEF PassthroughInv, PassthroughTypeOK
  <2>3. RefsExact' /\ ServedExact'
    BY <2>1 DEF PassthroughInv, RefsExact, ServedExact
  <2>4. SearchComplete'
    <3>1. \A q \in Processes : doing'[q] = IF q = p THEN "idle" ELSE doing[q]
      BY <2>1 DEF PassthroughInv, PassthroughTypeOK
    <3>2. Searching(<<>>, "idle", dirOf, kind)
      BY DOMAIN <<>> = {} DEF Searching
    <3> QED BY <2>1, <3>1, <3>2 DEF PassthroughInv, SearchComplete
  <2> QED BY <2>2, <2>3, <2>4 DEF PassthroughInv
<1>2. CASE UNCHANGED passthroughVars
  <2>1. UNCHANGED <<dirOf, kind, todo, doing, ret, refs, got, preloaded>>
    BY <1>2 DEF passthroughVars
  <2> QED BY <2>1 DEF PassthroughInv, PassthroughTypeOK, RefsExact, ServedExact, SearchComplete
<1> QED BY <1>1, <1>2, OpenLibsPreserves, TryGetPreserves, TryPreloadPreserves
        DEF PassthroughNext

(* The invariant holds in every reachable state.                           *)
THEOREM PassthroughInvariant == PassthroughSpec => []PassthroughInv
<1>1. PassthroughInit => PassthroughInv
  <2> SUFFICES ASSUME PassthroughInit PROVE PassthroughInv
    OBVIOUS
  <2>1. /\ dirOf \in [Impls -> 1..PathCount]
        /\ todo = [p \in Processes |-> <<>>] /\ doing = [p \in Processes |-> "idle"]
        /\ ret = [p \in Processes |-> NoImpl]
        /\ refs = [p \in Processes |-> [l \in Impls |-> 0]] /\ got = refs /\ preloaded = refs
    BY DEF PassthroughInit
  <2>2. dirOf \in [Impls -> Nat]
    BY <2>1, 1..PathCount \subseteq Nat, PassthroughAssumption
  <2>3. refs \in Counts /\ got \in Counts /\ preloaded \in Counts
    BY <2>1 DEF Counts
  <2>4. PassthroughTypeOK
    BY <2>1, <2>2, <2>3 DEF PassthroughTypeOK
  <2>5. RefsExact
    BY <2>1 DEF RefsExact
  <2>6. ServedExact /\ SearchComplete
    <3>1. Searching(<<>>, "idle", dirOf, kind)
      BY DOMAIN <<>> = {} DEF Searching
    <3> QED BY <2>1, <3>1 DEF ServedExact, SearchComplete
  <2> QED BY <2>4, <2>5, <2>6 DEF PassthroughInv
<1> QED BY <1>1, PassthroughNextPreserves, PTL DEF PassthroughSpec

(***************************************************************************)
(* For any number of processes, libraries and directories: the service a   *)
(* passthrough get() returns comes from the first directory with a library *)
(* that has it, and debugDump() names the process there. A process maps a  *)
(* library exactly as often as the library serves one of its get() calls   *)
(* or was preloaded, so every handle that openLibs() opened in vain is     *)
(* closed (ServiceManagement.cpp).                                         *)
(***************************************************************************)
THEOREM PassthroughIsExact == PassthroughSpec => []PassthroughGetExact
<1>1. PassthroughInv => PassthroughGetExact
  <2> SUFFICES ASSUME PassthroughInv, NEW p \in Processes
               PROVE  /\ ret[p] # NoImpl =>
                            /\ kind[ret[p]] = "hasIt" /\ p \in debugDump[ret[p]]
                            /\ \A l \in Impls : kind[l] = "hasIt" => dirOf[ret[p]] <= dirOf[l]
                      /\ \A l \in Impls :
                            refs[p][l] = got[p][l] + (IF kind[l] = "unloadable" THEN 0
                                                      ELSE preloaded[p][l])
    BY DEF PassthroughGetExact
  <2>1. ASSUME ret[p] # NoImpl PROVE p \in debugDump[ret[p]]
    <3>1. ret[p] \in Impls /\ got[p][ret[p]] > 0
      BY <2>1 DEF PassthroughInv, PassthroughTypeOK, ServedExact
    <3>2. got[p][ret[p]] \in Nat /\ preloaded[p][ret[p]] \in Nat
      BY <3>1 DEF PassthroughInv, PassthroughTypeOK, Counts
    <3>3. refs[p][ret[p]] = got[p][ret[p]] + (IF kind[ret[p]] = "unloadable" THEN 0
                                              ELSE preloaded[p][ret[p]])
      BY <3>1 DEF PassthroughInv, RefsExact
    <3>4. refs[p][ret[p]] > 0
      BY <3>1, <3>2, <3>3
    <3> QED BY <3>1, <3>4 DEF debugDump, pids
  <2> QED BY <2>1 DEF PassthroughInv, ServedExact, RefsExact
<1> QED BY <1>1, PassthroughInvariant, PTL

-----------------------------------------------------------------------------
(***************************************************************************)
(* Part 5: values in a parcel.                                             *)
(***************************************************************************)
(* What has arrived of the objects q.                                      *)
PrefixOf(p, q) ==
    /\ Len(p) \in 0..Len(q) /\ DOMAIN p = 1..Len(p)
    /\ \A i \in 1..Len(p) : p[i] = q[i]

(* What was sent, what the parcel holds of it, and what was made of that.  *)
SentInv ==
    /\ sent \in Values \union OtherReplies
    /\ content \in Values \union OtherReplies
    /\ \/ content = sent
       \/ sent \in Embedded /\ content \in Embedded /\ content.what = sent.what
    /\ parcelled.result = OK => PrefixOf(parcelled.objects, Written(content))
    /\ sent.what = "status" =>
          IF sent.mException = EX_TRANSACTION_FAILED
          THEN parcelled = [result |-> sent.mErrorCode, objects |-> <<>>]
          ELSE parcelled.result = OK => parcelled.objects = StatusObjects(sent)

ParcelInv ==
    /\ sent # Nothing => SentInv
    /\ received # Nothing =>
          /\ sent # Nothing
          /\ parcelled.result = OK => received = ReadBack(sent, parcelled.objects)
          /\ parcelled.result # OK =>
                received = IF IsReply(sent) THEN NoResults(fromStatusT(parcelled.result))
                           ELSE [status |-> parcelled.result]

(* What a Status may be.                                                   *)
LEMMA StatusCases ==
    ASSUME NEW s \in StatusValues
    PROVE  \/ s = Status(EX_NONE, OK, EmptyMessage)
           \/ \E e \in Errors : s = Status(EX_TRANSACTION_FAILED, e, EmptyMessage)
           \/ \E ex \in Exceptions \union Reserved, m \in Messages : s = Status(ex, OK, m)
<1>1. CASE s \in {fromStatusT(e) : e \in Errors \union {OK}}
  <2>1. PICK e \in Errors \union {OK} : s = fromStatusT(e)
    BY <1>1
  <2> QED BY <2>1, ParcelValuesAssumption DEF fromStatusT
<1>2. CASE s \in UNION {{fromExceptionCode(ex, m) : ex \in Exceptions \union Reserved} :
                            m \in Messages}
  <2>1. PICK m \in Messages :
           s \in {fromExceptionCode(ex, m) : ex \in Exceptions \union Reserved}
    BY <1>2
  <2> QED BY <2>1 DEF fromExceptionCode
<1> QED BY <1>1, <1>2 DEF StatusValues

(* The kind of a value tells where it is from.                             *)
LEMMA Kinds ==
    /\ \A v \in StatusValues : v.what = "status"
    /\ \A v \in OtherReplies : v.what \in {"header", "exception"}
    /\ \A v \in Versions : v.what = "version"
    /\ \A v \in StringsSent : v.what = "string"
    /\ \A v \in Vectors : v.what = "vec"
    /\ \A v \in Embedded : v.what \in {"string", "vec", "memory", "mq"}
    /\ \A v \in Embedded : v.what = "string" => v \in StringsSent
    /\ \A v \in Embedded : v.what = "vec" => v \in Vectors
    /\ \A v \in Embedded : v.what = "memory" => v.name \in StringsSent
    /\ \A v \in Embedded : v.what = "mq" => v.grantors \in Vectors
<1>1. \A v \in StatusValues : v.what = "status"
  BY StatusCases DEF Status
<1> QED BY <1>1 DEF OtherReplies, Versions, Embedded, StringsSent, Vectors

(* Two objects in a parcel.                                                *)
LEMMA TwoObjects == \A a, b : <<a>> \o <<b>> = <<a, b>>
<1> SUFFICES ASSUME NEW a, NEW b PROVE <<a>> \o <<b>> = <<a, b>>
  OBVIOUS
<1>1. <<a>> \in Seq({a, b}) /\ <<b>> \in Seq({a, b}) /\ <<a, b>> \in Seq({a, b})
  OBVIOUS
<1>2. /\ <<a>> \o <<b>> \in Seq({a, b}) /\ Len(<<a>> \o <<b>>) = 2
      /\ (<<a>> \o <<b>>)[1] = a /\ (<<a>> \o <<b>>)[2] = b
  BY <1>1, ConcatProperties
<1>3. Len(<<a, b>>) = 2 /\ <<a, b>>[1] = a /\ <<a, b>>[2] = b
  OBVIOUS
<1>4. \A i \in 1..Len(<<a>> \o <<b>>) : (<<a>> \o <<b>>)[i] = <<a, b>>[i]
  BY <1>2, <1>3
<1> QED BY <1>1, <1>2, <1>3, <1>4, SeqEqual

(* The objects of each kind of value.                                      *)
LEMMA ObjectsWritten ==
    /\ \A v : v.what = "status" => Written(v) = StatusObjects(v)
    /\ \A v : v.what = "exception" => Written(v) = <<Int32(v.code), Utf16(v.message)>>
    /\ \A v : v.what = "version" => Written(v) = <<Int32(WriteVersion(v))>>
    /\ \A v : v.what = "string" => Written(v) = <<Buffer(v.size + 1, v.terminated, 0)>>
    /\ \A v : v.what = "vec" => Written(v) = <<WriteVec(v, 0)[1]>>
  BY DEF Written, WriteString, WriteVec

(* And of those that embed two.                                           *)
LEMMA ObjectsOfPairs ==
    /\ \A v : v.what = "memory" =>
          Written(v) = <<NativeHandle(v.handle, 0),
                         Buffer(v.name.size + 1, v.name.terminated, 24)>>
    /\ \A v : v.what = "mq" =>
          Written(v) = <<WriteVec(v.grantors, 0)[1], NativeHandle(v.handle, 16)>>
<1>1. 0 + 24 = 24 /\ 0 + 16 = 16
  OBVIOUS
<1>2. ASSUME NEW v, v.what = "memory"
      PROVE  Written(v) = <<NativeHandle(v.handle, 0)>> \o
                          <<Buffer(v.name.size + 1, v.name.terminated, 24)>>
  BY <1>1, <1>2 DEF Written, WriteMemory, WriteString
<1>3. ASSUME NEW v, v.what = "mq"
      PROVE  Written(v) = <<WriteVec(v.grantors, 0)[1]>> \o <<NativeHandle(v.handle, 16)>>
  BY <1>1, <1>3 DEF Written, WriteMQ, WriteVec
<1> QED BY <1>2, <1>3, TwoObjects, Zenon

(* The words of a header: its size counts all but the first.               *)
LEMMA HeaderObjects ==
    ASSUME NEW v \in OtherReplies, v.what = "header"
    PROVE  /\ v.size \in Nat \ {0} /\ Len(Written(v)) = v.size + 1
           /\ \E S : Written(v) \in Seq(S)
           /\ Written(v)[1] = Int32(EX_HAS_REPLY_HEADER) /\ Written(v)[2] = Int32(v.size)
<1> DEFINE word(k) == Int32(CASE k = 1 -> EX_HAS_REPLY_HEADER
                              [] k = 2 -> v.size
                              [] OTHER -> 0)
           w == [k \in 1..(v.size + 1) |-> word(k)]
<1>1. v.size \in Nat \ {0}
  BY ParcelValuesAssumption DEF OtherReplies
<1>2. Written(v) = w
  BY DEF Written
<1>3. word(1) = Int32(EX_HAS_REPLY_HEADER) /\ word(2) = Int32(v.size)
  OBVIOUS
<1> HIDE DEF word
<1>4. w \in Seq({word(k) : k \in 1..(v.size + 1)}) /\ Len(w) = v.size + 1
  BY <1>1
<1>5. w[1] = word(1) /\ w[2] = word(2)
  BY <1>1
<1> QED BY <1>1, <1>2, <1>3, <1>4, <1>5

(* What is written is a sequence of at most two objects, a header apart.   *)
LEMMA WrittenSeq ==
    ASSUME NEW v \in Values \union OtherReplies
    PROVE  \E S : Written(v) \in Seq(S)
<1>1. ASSUME NEW a, NEW b
      PROVE  /\ \E S : <<>> \in Seq(S)
             /\ \E S : <<a>> \in Seq(S)
             /\ \E S : <<a, b>> \in Seq(S)
  <2>1. <<>> \in Seq({a}) /\ <<a>> \in Seq({a}) /\ <<a, b>> \in Seq({a, b})
    OBVIOUS
  <2> QED BY <2>1
<1>2. CASE v.what \in {"exception", "version", "string", "vec"}
  <2>1. (\E a : Written(v) = <<a>>) \/ (\E a, b : Written(v) = <<a, b>>)
    BY <1>2, ObjectsWritten, Zenon
  <2> QED BY <1>1, <2>1, Zenon
<1>3. CASE v.what \in {"memory", "mq"}
  <2>1. \E a, b : Written(v) = <<a, b>>
    BY <1>3, ObjectsOfPairs, Zenon
  <2> QED BY <1>1, <2>1, Zenon
<1>4. CASE v.what = "status"
  <2>1. Written(v) = StatusObjects(v)
    BY <1>4, ObjectsWritten
  <2>2. \/ Written(v) = <<>> \/ \E a : Written(v) = <<a>>
        \/ \E a, b : Written(v) = <<a, b>>
    BY <2>1, Zenon DEF StatusObjects
  <2> QED BY <1>1, <2>2, Zenon
<1>5. CASE v.what = "header"
  <2>1. v \in OtherReplies
    BY <1>5, Kinds DEF Values
  <2> QED BY <2>1, <1>5, HeaderObjects
<1> QED BY <1>2, <1>3, <1>4, <1>5, Kinds DEF Values

(* The first objects are a prefix, all of them as well.                    *)
LEMMA PrefixFacts ==
    ASSUME NEW S, NEW q \in Seq(S)
    PROVE  /\ PrefixOf(q, q)
           /\ \A n \in 0..Len(q) : PrefixOf(SubSeq(q, 1, n), q)
<1>1. PrefixOf(q, q)
  BY DEF PrefixOf
<1>2. ASSUME NEW n \in 0..Len(q) PROVE PrefixOf(SubSeq(q, 1, n), q)
  <2> DEFINE t == SubSeq(q, 1, n)
  <2>1. Len(q) \in Nat /\ n \in Nat /\ n <= Len(q)
    OBVIOUS
  <2>2. t \in Seq(S) /\ Len(t) = n /\ \A i \in 1..n : t[i] = q[i]
    BY <2>1
  <2> HIDE DEF t
  <2>3. PrefixOf(t, q)
    BY <2>1, <2>2 DEF PrefixOf
  <2> QED BY <2>3 DEF t
<1> QED BY <1>1, <1>2

(* Writes that all succeed leave all objects.                              *)
LEMMA InTurnPrefix ==
    ASSUME NEW v \in Values, NEW failAt, InTurn(Written(v), failAt).result = OK
    PROVE  /\ InTurn(Written(v), failAt).objects = Written(v)
           /\ PrefixOf(Written(v), Written(v))
<1>1. PrefixOf(Written(v), Written(v))
  BY WrittenSeq, PrefixFacts
<1>2. NO_MEMORY # OK
  BY DEF NO_MEMORY, OK
<1> QED BY <1>1, <1>2 DEF InTurn

(* Sending establishes the invariant, for this code's writers.             *)
LEMMA SendValueInv ==
    ASSUME NEW v \in Values, NEW failAt, ParcelInv, SendValue(v, failAt)
    PROVE  ParcelInv'
<1>1. /\ sent = Nothing /\ received' = received /\ sent' = v /\ content' = v
      /\ parcelled' = IF v.what = "status" THEN WriteStatus(v, failAt)
                      ELSE InTurn(Written(v), failAt)
  BY DEF SendValue
<1>2. received = Nothing
  BY <1>1 DEF ParcelInv
<1>3. CASE v.what # "status"
  <2>1. parcelled' = InTurn(Written(v), failAt)
    BY <1>1, <1>3
  <2>2. parcelled'.result = OK => PrefixOf(parcelled'.objects, Written(v))
    BY <2>1, InTurnPrefix
  <2>3. SentInv'
    BY <1>1, <1>3, <2>2 DEF SentInv
  <2> QED BY <2>3, <1>1, <1>2 DEF ParcelInv
<1>4. CASE v.what = "status" /\ v.mException = EX_TRANSACTION_FAILED
  <2>1. parcelled' = [result |-> v.mErrorCode, objects |-> <<>>]
    BY <1>1, <1>4 DEF WriteStatus
  <2>2. Written(v) = <<>>
    BY <1>4, ObjectsWritten DEF StatusObjects
  <2>3. PrefixOf(parcelled'.objects, Written(v))
    BY <2>1, <2>2 DEF PrefixOf
  <2>4. SentInv'
    BY <1>1, <1>4, <2>1, <2>3 DEF SentInv
  <2> QED BY <2>4, <1>1, <1>2 DEF ParcelInv
<1>5. CASE v.what = "status" /\ v.mException # EX_TRANSACTION_FAILED
  <2>1. parcelled' = InTurn(Written(v), failAt) /\ Written(v) = StatusObjects(v)
    BY <1>1, <1>5, ObjectsWritten DEF WriteStatus
  <2>2. parcelled'.result = OK =>
           PrefixOf(parcelled'.objects, Written(v)) /\ parcelled'.objects = StatusObjects(v)
    BY <2>1, InTurnPrefix
  <2>3. SentInv'
    BY <1>1, <1>5, <2>2 DEF SentInv
  <2> QED BY <2>3, <1>1, <1>2 DEF ParcelInv
<1> QED BY <1>3, <1>4, <1>5

(* And for other endpoints.                                                *)
LEMMA SendOtherInv ==
    ASSUME NEW v \in OtherReplies \union Versions \union Embedded,
           NEW w \in OtherReplies \union Versions \union Embedded,
           NEW n \in 0..Len(Written(w)), ParcelInv, SendOther(v, w, n)
    PROVE  ParcelInv'
<1>1. /\ sent = Nothing /\ received' = received /\ sent' = v /\ content' = w
      /\ parcelled' = [result |-> OK, objects |-> SubSeq(Written(w), 1, n)]
      /\ v = w \/ (v \in Embedded /\ v.what = w.what)
  BY DEF SendOther
<1>2. received = Nothing
  BY <1>1 DEF ParcelInv
<1>3. w \in Values \union OtherReplies /\ v \in Values \union OtherReplies
  BY DEF Values
<1>4. PrefixOf(parcelled'.objects, Written(w))
  BY <1>1, <1>3, WrittenSeq, PrefixFacts
<1>5. w = v \/ (v \in Embedded /\ w \in Embedded /\ w.what = v.what)
  BY <1>1, Kinds
<1>6. v.what # "status"
  BY Kinds
<1>7. SentInv'
  BY <1>1, <1>3, <1>4, <1>5, <1>6 DEF SentInv
<1> QED BY <1>7, <1>1, <1>2 DEF ParcelInv

(* The invariant holds in every reachable state.                           *)
LEMMA ParcelInvariant == ParcelSpec => []ParcelInv
<1>1. ParcelInit => ParcelInv
  BY DEF ParcelInit, ParcelInv
<1>2. ParcelInv /\ [ParcelNext]_valueParcelVars => ParcelInv'
  <2> SUFFICES ASSUME ParcelInv, [ParcelNext]_valueParcelVars PROVE ParcelInv'
    OBVIOUS
  <2>1. CASE ReceiveValue
    <3>1. /\ sent # Nothing /\ UNCHANGED <<sent, content, parcelled>>
          /\ received' = IF parcelled.result = OK THEN ReadBack(sent, parcelled.objects)
                         ELSE IF IsReply(sent)
                         THEN NoResults(fromStatusT(parcelled.result))
                         ELSE [status |-> parcelled.result]
      BY <2>1 DEF ReceiveValue
    <3>2. SentInv
      BY <3>1 DEF ParcelInv
    <3>3. SentInv'
      BY <3>1, <3>2 DEF SentInv
    <3> QED BY <3>1, <3>3 DEF ParcelInv
  <2>2. CASE UNCHANGED valueParcelVars
    BY <2>2 DEF ParcelInv, SentInv, valueParcelVars
  <2> QED BY <2>1, <2>2, SendValueInv, SendOtherInv DEF ParcelNext
<1> QED BY <1>1, <1>2, PTL DEF ParcelSpec

(* A larger quotient outweighs every remainder.                            *)
LEMMA QuotientOrders ==
    ASSUME NEW V \in Nat, NEW q \in Nat, NEW q1 \in Nat, q < q1,
           NEW r \in 0..(V - 1), NEW r1 \in 0..(V - 1)
    PROVE  q * V + r < q1 * V + r1
<1>1. q1 - q - 1 \in Nat
  OBVIOUS
<1>2. (q1 - q - 1) * V \in Nat
  BY <1>1
<1>3. q1 * V = (q1 - q - 1) * V + q * V + V
  OBVIOUS
<1>4. q * V \in Nat /\ q1 * V \in Nat
  OBVIOUS
<1> QED BY <1>2, <1>3, <1>4

(* Quotient and remainder of a number are unique.                          *)
LEMMA QuotientUnique ==
    ASSUME NEW V \in Nat \ {0}, NEW q \in Nat, NEW r \in 0..(V - 1)
    PROVE  (q * V + r) \div V = q /\ (q * V + r) % V = r
<1> DEFINE x == q * V + r
           d == x \div V
           m == x % V
<1>1. x \in Nat
  OBVIOUS
<1> HIDE DEF x
<1>2. d \in Nat /\ m \in 0..(V - 1) /\ x = d * V + m
  BY <1>1
<1> HIDE DEF d, m
<1>3. ~(d < q)
  BY <1>2, QuotientOrders DEF x
<1>4. ~(q < d)
  BY <1>2, QuotientOrders DEF x
<1>5. d = q
  BY <1>2, <1>3, <1>4
<1>6. q * V \in Nat
  OBVIOUS
<1>7. m = r
  BY <1>2, <1>5, <1>6 DEF x
<1> QED BY <1>5, <1>7 DEF x, d, m

(* The packed form of a version orders as operator< does.                  *)
LEMMA VersionOrder ==
    ASSUME NEW v \in Versions
    PROVE  \A w \in Versions : VersionBefore(w, v) <=> WriteVersion(w) < WriteVersion(v)
<1>1. /\ v.major \in 0..(VersionValues - 1) /\ v.minor \in 0..(VersionValues - 1)
  BY DEF Versions
<1>2. v.major \in Nat /\ v.minor \in Nat /\ VersionValues \in Nat \ {0}
  BY <1>1, ParcelValuesAssumption
<1>3. ASSUME NEW w \in Versions
      PROVE  VersionBefore(w, v) <=> WriteVersion(w) < WriteVersion(v)
  <2>1. w.major \in 0..(VersionValues - 1) /\ w.minor \in 0..(VersionValues - 1)
    BY DEF Versions
  <2>2. w.major \in Nat /\ w.minor \in Nat
    BY <2>1, <1>2
  <2>3. CASE w.major < v.major
    <3>1. WriteVersion(w) < WriteVersion(v)
      BY <2>1, <2>2, <2>3, <1>1, <1>2, QuotientOrders DEF WriteVersion
    <3> QED BY <3>1, <2>3 DEF VersionBefore
  <2>4. CASE v.major < w.major
    <3>1. WriteVersion(v) < WriteVersion(w)
      BY <2>1, <2>2, <2>4, <1>1, <1>2, QuotientOrders DEF WriteVersion
    <3>2. WriteVersion(v) \in Nat /\ WriteVersion(w) \in Nat
      BY <1>2, <2>2 DEF WriteVersion
    <3> QED BY <3>1, <3>2, <2>4, <2>2, <1>2 DEF VersionBefore
  <2>5. CASE v.major = w.major
    <3>1. w.major * VersionValues \in Nat
      BY <2>2, <1>2
    <3> QED BY <3>1, <2>5, <2>2, <1>2 DEF VersionBefore, WriteVersion
  <2> QED BY <2>3, <2>4, <2>5, <2>2, <1>2
<1> QED BY <1>3

(* A version is read as it was written, or not at all.                     *)
LEMMA VersionReadBack ==
    ASSUME NEW v \in Versions, NEW p, PrefixOf(p, Written(v))
    PROVE  IF Len(p) >= 1 THEN ReadVersion(p) = Read(OK, v)
           ELSE ReadVersion(p).status # OK
<1>1. /\ v.major \in 0..(VersionValues - 1) /\ v.minor \in 0..(VersionValues - 1)
      /\ v = [what |-> "version", major |-> v.major, minor |-> v.minor]
  BY DEF Versions
<1>2. v.major \in Nat /\ v.minor \in Nat /\ VersionValues \in Nat \ {0}
  BY <1>1, ParcelValuesAssumption
<1>3. /\ WriteVersion(v) \div VersionValues = v.major
      /\ WriteVersion(v) % VersionValues = v.minor
  BY <1>1, <1>2, QuotientUnique DEF WriteVersion
<1>4. Written(v) = <<Int32(WriteVersion(v))>>
  BY <1>1, ObjectsWritten
<1> DEFINE word == readInt32(p, 1)
<1>5. CASE Len(p) >= 1
  <2>1. 1 \in DOMAIN p /\ p[1] = Int32(WriteVersion(v))
    BY <1>4, <1>5 DEF PrefixOf
  <2>2. word = Read(OK, WriteVersion(v))
    BY <2>1 DEF readInt32, Int32
  <2>3. word.status = OK /\ word.value = WriteVersion(v)
    BY <2>2 DEF Read
  <2> HIDE DEF word
  <2>4. ReadVersion(p) = Read(OK, [what |-> "version", major |-> WriteVersion(v) \div VersionValues,
                                   minor |-> WriteVersion(v) % VersionValues])
    BY <2>3 DEF ReadVersion, word
  <2> QED BY <2>4, <1>1, <1>3, <1>5
<1>6. CASE ~(Len(p) >= 1)
  <2>1. 1 \notin DOMAIN p
    BY <1>4, <1>6 DEF PrefixOf
  <2>2. word.status = NOT_ENOUGH_DATA
    BY <2>1 DEF readInt32, Read
  <2> QED BY <2>2, <1>6 DEF ReadVersion, Read, NOT_ENOUGH_DATA, OK
<1> QED BY <1>5, <1>6

-----------------------------------------------------------------------------
(* How a reply is read, by what is at its head.                            *)
LEMMA ReadsOfReply ==
    ASSUME NEW p
    PROVE  /\ 1 \notin DOMAIN p => ReadStatus(p) = NoResults(fromStatusT(NOT_ENOUGH_DATA))
           /\ \A ex : 1 \in DOMAIN p /\ p[1] = Int32(ex) =>
                /\ ex = EX_NONE => ReadStatus(p) = ReadOk(2)
                /\ ex # EX_NONE /\ 2 \notin DOMAIN p =>
                      ReadStatus(p) = NoResults(fromStatusT(NOT_ENOUGH_DATA))
                /\ ex = EX_HAS_REPLY_HEADER /\ 2 \in DOMAIN p =>
                      /\ \A n : p[2] = Int32(n) => ReadStatus(p) = ReadOk(2 + n)
                      /\ \A m : p[2] = Utf16(m) => ReadStatus(p) = ReadOk(2 + m.length)
                /\ ex \notin {EX_NONE, EX_HAS_REPLY_HEADER} /\ 2 \in DOMAIN p =>
                      \A m : p[2] = Utf16(m) =>
                         ReadStatus(p) = NoResults(IF m = NullMessage
                                                   THEN fromStatusT(UNEXPECTED_NULL)
                                                   ELSE fromExceptionCode(ex, m))
<1> DEFINE code == readInt32(p, 1)
           size == readInt32(p, 2)
           message == readString16(p, 2)
<1>1. /\ EX_NONE # EX_HAS_REPLY_HEADER /\ NOT_ENOUGH_DATA # OK /\ UNEXPECTED_NULL # OK
  BY DEF EX_NONE, EX_HAS_REPLY_HEADER, NOT_ENOUGH_DATA, UNEXPECTED_NULL, OK
<1>2. /\ 1 \notin DOMAIN p => code.status = NOT_ENOUGH_DATA
      /\ \A ex : 1 \in DOMAIN p /\ p[1] = Int32(ex) => code.status = OK /\ code.value = ex
  BY DEF readInt32, Read, Int32
<1>3. /\ 2 \notin DOMAIN p => size.status = NOT_ENOUGH_DATA
      /\ \A n : 2 \in DOMAIN p /\ p[2] = Int32(n) => size.status = OK /\ size.value = n
      /\ \A m : 2 \in DOMAIN p /\ p[2] = Utf16(m) =>
            size.status = OK /\ size.value = m.length
  BY DEF readInt32, Read, Int32, Utf16
<1>4. /\ 2 \notin DOMAIN p => message.status = NOT_ENOUGH_DATA
      /\ \A m : 2 \in DOMAIN p /\ p[2] = Utf16(m) =>
            IF m = NullMessage THEN message.status = UNEXPECTED_NULL
            ELSE message.status = OK /\ message.value = m
  BY DEF readString16, Read, Utf16
<1>5. ReadStatus(p) =
         IF code.status # OK THEN NoResults(fromStatusT(code.status))
         ELSE IF code.value = EX_HAS_REPLY_HEADER
         THEN IF size.status # OK THEN NoResults(fromStatusT(size.status))
              ELSE ReadOk(2 + size.value)
         ELSE IF code.value = EX_NONE THEN ReadOk(2)
         ELSE IF message.status # OK THEN NoResults(fromStatusT(message.status))
         ELSE NoResults(fromExceptionCode(code.value, message.value))
  BY DEF ReadStatus
<1> HIDE DEF code, size, message
<1>6. 1 \notin DOMAIN p => ReadStatus(p) = NoResults(fromStatusT(NOT_ENOUGH_DATA))
  BY <1>1, <1>2, <1>5
<1>7. ASSUME NEW ex, 1 \in DOMAIN p, p[1] = Int32(ex)
      PROVE  /\ ex = EX_NONE => ReadStatus(p) = ReadOk(2)
             /\ ex # EX_NONE /\ 2 \notin DOMAIN p =>
                   ReadStatus(p) = NoResults(fromStatusT(NOT_ENOUGH_DATA))
             /\ ex = EX_HAS_REPLY_HEADER /\ 2 \in DOMAIN p =>
                   /\ \A n : p[2] = Int32(n) => ReadStatus(p) = ReadOk(2 + n)
                   /\ \A m : p[2] = Utf16(m) => ReadStatus(p) = ReadOk(2 + m.length)
             /\ ex \notin {EX_NONE, EX_HAS_REPLY_HEADER} /\ 2 \in DOMAIN p =>
                   \A m : p[2] = Utf16(m) =>
                      ReadStatus(p) = NoResults(IF m = NullMessage
                                                THEN fromStatusT(UNEXPECTED_NULL)
                                                ELSE fromExceptionCode(ex, m))
  <2>1. code.status = OK /\ code.value = ex
    BY <1>2, <1>7
  <2>2. ex = EX_NONE => ReadStatus(p) = ReadOk(2)
    BY <1>1, <1>5, <2>1
  <2>3. ex # EX_NONE /\ 2 \notin DOMAIN p =>
           ReadStatus(p) = NoResults(fromStatusT(NOT_ENOUGH_DATA))
    BY <1>1, <1>3, <1>4, <1>5, <2>1
  <2>4. ex = EX_HAS_REPLY_HEADER /\ 2 \in DOMAIN p =>
           /\ \A n : p[2] = Int32(n) => ReadStatus(p) = ReadOk(2 + n)
           /\ \A m : p[2] = Utf16(m) => ReadStatus(p) = ReadOk(2 + m.length)
    BY <1>3, <1>5, <2>1
  <2>5. ex \notin {EX_NONE, EX_HAS_REPLY_HEADER} /\ 2 \in DOMAIN p =>
           \A m : p[2] = Utf16(m) =>
              ReadStatus(p) = NoResults(IF m = NullMessage THEN fromStatusT(UNEXPECTED_NULL)
                                        ELSE fromExceptionCode(ex, m))
    BY <1>1, <1>4, <1>5, <2>1
  <2> QED BY <2>2, <2>3, <2>4, <2>5
<1> QED BY <1>6, <1>7

(* What the property says of a reply r, whole or not.                      *)
ReplyRight(v, r, whole) ==
    /\ StatusIsOk(r) <=> whole /\ (Succeeds(v) \/ HeaderCode(v))
    /\ whole /\ Throws(v) => r = Thrown(v)
    /\ ~StatusIsOk(r) /\ ~(whole /\ Throws(v)) =>
          r.mException = EX_TRANSACTION_FAILED /\ r.mErrorCode # OK
    /\ v.what = "status" /\ v.mErrorCode # OK => r.mErrorCode = v.mErrorCode

(* An error of the transaction is an error of that code.                   *)
LEMMA TransactionErrors ==
    ASSUME NEW e, e # OK
    PROVE  /\ ~StatusIsOk(fromStatusT(e))
           /\ fromStatusT(e).mException = EX_TRANSACTION_FAILED
           /\ fromStatusT(e).mErrorCode = e
  BY DEF fromStatusT, Status, StatusIsOk, EX_NONE, EX_TRANSACTION_FAILED

(* The codes of failing calls, and those of exceptions, are distinct.      *)
LEMMA ReadErrors == NOT_ENOUGH_DATA # OK /\ UNEXPECTED_NULL # OK /\ NO_MEMORY # OK
  BY DEF NOT_ENOUGH_DATA, UNEXPECTED_NULL, NO_MEMORY, OK

(* The reserved codes.                                                     *)
LEMMA Codes ==
    /\ EX_NONE # EX_TRANSACTION_FAILED /\ EX_NONE # EX_HAS_REPLY_HEADER
    /\ EX_HAS_REPLY_HEADER # EX_TRANSACTION_FAILED
    /\ Reserved = {EX_NONE, EX_HAS_REPLY_HEADER, EX_TRANSACTION_FAILED}
  BY DEF EX_NONE, EX_TRANSACTION_FAILED, EX_HAS_REPLY_HEADER, Reserved

(* A Status that this code has written without error, by its code.         *)
LEMMA StatusReadBack ==
    ASSUME NEW ex, NEW m, m \in Messages \/ m = EmptyMessage,
           NEW s, s = Status(ex, OK, m), NEW p, p = StatusObjects(s)
    PROVE  /\ ReplyRight(s, ReadStatus(p).status, Len(p) >= IF StatusIsOk(s) THEN 1 ELSE 2)
           /\ StatusIsOk(s) => ReadStatus(p).next = Len(p) + 1
<1> DEFINE r == ReadStatus(p).status
           u == String16(m)
<1>1. s.what = "status" /\ s.mException = ex /\ s.mErrorCode = OK /\ s.mMessage = m
  BY DEF Status
<1>2. StatusIsOk(s) <=> ex = EX_NONE
  BY <1>1 DEF StatusIsOk
<1>3. CASE ex = EX_TRANSACTION_FAILED
  <2>1. p = <<>>
    BY <1>1, <1>3 DEF StatusObjects
  <2>2. Len(p) = 0 /\ 1 \notin DOMAIN p
    BY <2>1
  <2>3. r = fromStatusT(NOT_ENOUGH_DATA)
    BY <2>2, ReadsOfReply DEF NoResults
  <2>4. /\ ~StatusIsOk(r) /\ r.mException = EX_TRANSACTION_FAILED /\ r.mErrorCode # OK
    BY <2>3, TransactionErrors, ReadErrors
  <2>5. ~StatusIsOk(s) /\ ~(Len(p) >= 2)
    BY <1>2, <1>3, <2>2, Codes
  <2> HIDE DEF r
  <2>6. ReplyRight(s, r, Len(p) >= IF StatusIsOk(s) THEN 1 ELSE 2)
    BY <1>1, <2>4, <2>5 DEF ReplyRight
  <2> QED BY <2>5, <2>6 DEF r
<1>4. CASE ex = EX_NONE
  <2>1. p = <<Int32(EX_NONE)>>
    BY <1>1, <1>2, <1>4, Codes DEF StatusObjects
  <2>2. Len(p) = 1 /\ 1 \in DOMAIN p /\ p[1] = Int32(EX_NONE)
    BY <2>1
  <2>3. ReadStatus(p) = ReadOk(2)
    BY <2>2, ReadsOfReply
  <2>4. r = Status(EX_NONE, OK, EmptyMessage) /\ ReadStatus(p).next = 2
    BY <2>3 DEF ReadOk
  <2>5. StatusIsOk(r) /\ StatusIsOk(s) /\ Succeeds(s) /\ ~Throws(s)
    BY <1>1, <1>2, <1>4, <2>4, Codes DEF Status, StatusIsOk, Succeeds, Throws
  <2> HIDE DEF r
  <2>6. ReplyRight(s, r, Len(p) >= IF StatusIsOk(s) THEN 1 ELSE 2)
    BY <1>1, <2>2, <2>5 DEF ReplyRight
  <2> QED BY <2>2, <2>4, <2>5, <2>6 DEF r
<1>5. ASSUME ex # EX_TRANSACTION_FAILED, ex # EX_NONE
      PROVE  /\ Len(p) = 2 /\ 1 \in DOMAIN p /\ 2 \in DOMAIN p
             /\ p[1] = Int32(ex) /\ p[2] = Utf16(u)
             /\ ~StatusIsOk(s) /\ ~Succeeds(s)
  <2>1. p = <<Int32(ex), Utf16(u)>>
    BY <1>1, <1>2, <1>5 DEF StatusObjects
  <2> QED BY <1>1, <1>2, <1>5, <2>1 DEF Succeeds
<1>6. CASE ex = EX_HAS_REPLY_HEADER
  <2>1. ReadStatus(p) = ReadOk(2 + u.length)
    BY <1>5, <1>6, Codes, ReadsOfReply
  <2>2. r = Status(EX_NONE, OK, EmptyMessage)
    BY <2>1 DEF ReadOk
  <2>3. StatusIsOk(r) /\ HeaderCode(s) /\ ~Throws(s)
    BY <1>1, <1>6, <2>2, Codes DEF Status, StatusIsOk, HeaderCode, Throws
  <2> HIDE DEF r, u
  <2>4. Len(p) = 2 /\ ~StatusIsOk(s)
    BY <1>5, <1>6, Codes
  <2>5. ReplyRight(s, r, Len(p) >= IF StatusIsOk(s) THEN 1 ELSE 2)
    BY <1>1, <2>3, <2>4 DEF ReplyRight
  <2> QED BY <2>4, <2>5 DEF r
<1>7. CASE ex \notin Reserved
  <2>1. u # NullMessage
    <3>1. m.length \in Nat
      <4>1. TextLengths \subseteq Nat
        BY ParcelValuesAssumption
      <4>2. CASE m \in Messages
        BY <4>1, <4>2 DEF Messages
      <4>3. CASE m = EmptyMessage
        BY <4>3 DEF EmptyMessage
      <4> QED BY <4>2, <4>3
    <3>2. m.length # -1 /\ 0 # -1
      BY <3>1
    <3> QED BY <3>2 DEF String16, EmptyMessage, NullMessage
  <2>2. ReadStatus(p) = NoResults(fromExceptionCode(ex, u))
    BY <1>5, <1>7, <2>1, Codes, ReadsOfReply
  <2>3. r = fromExceptionCode(ex, u) /\ r.mException = ex
    BY <2>2 DEF NoResults, fromExceptionCode, Status
  <2>4. ~StatusIsOk(r) /\ ~HeaderCode(s) /\ Throws(s) /\ Thrown(s) = r
    BY <1>1, <1>7, <2>3, Codes DEF StatusIsOk, HeaderCode, Throws, Thrown
  <2> HIDE DEF r, u
  <2>5. Len(p) = 2 /\ ~StatusIsOk(s) /\ ~Succeeds(s)
    BY <1>5, <1>7, Codes
  <2>6. ReplyRight(s, r, Len(p) >= IF StatusIsOk(s) THEN 1 ELSE 2)
    BY <1>1, <2>4, <2>5 DEF ReplyRight
  <2> QED BY <2>5, <2>6 DEF r
<1> QED BY <1>3, <1>4, <1>6, <1>7, Codes

(* A reply of another endpoint, of which some objects have arrived.        *)
LEMMA OtherReadBack ==
    ASSUME NEW v \in OtherReplies, NEW p, PrefixOf(p, Written(v))
    PROVE  /\ ReplyRight(v, ReadStatus(p).status, Len(p) >= 2)
           /\ Succeeds(v) /\ Len(p) >= Len(Written(v)) => ReadStatus(p).next = Len(p) + 1
<1> DEFINE r == ReadStatus(p).status
<1>1. Len(p) \in Nat /\ DOMAIN p = 1..Len(p)
  BY DEF PrefixOf
<1>2. ASSUME ~(Len(p) >= 2), 1 \in DOMAIN p => \E ex : ex # EX_NONE /\ p[1] = Int32(ex),
             v.what # "status"
      PROVE  ReplyRight(v, r, Len(p) >= 2)
  <2>1. 2 \notin DOMAIN p
    BY <1>1, <1>2
  <2>2. ReadStatus(p) = NoResults(fromStatusT(NOT_ENOUGH_DATA))
    BY <1>2, <2>1, ReadsOfReply
  <2>3. r = fromStatusT(NOT_ENOUGH_DATA)
    BY <2>2 DEF NoResults
  <2>4. /\ ~StatusIsOk(r) /\ r.mException = EX_TRANSACTION_FAILED /\ r.mErrorCode # OK
    BY <2>3, TransactionErrors, ReadErrors
  <2> HIDE DEF r
  <2> QED BY <1>2, <2>4 DEF ReplyRight
<1>3. CASE v.what = "header"
  <2>1. /\ v.size \in Nat \ {0} /\ Len(Written(v)) = v.size + 1
        /\ Written(v)[1] = Int32(EX_HAS_REPLY_HEADER) /\ Written(v)[2] = Int32(v.size)
    BY <1>3, HeaderObjects
  <2>2. Succeeds(v) /\ ~Throws(v)
    BY <1>3 DEF Succeeds, Throws
  <2>3. 1 \in DOMAIN p => p[1] = Int32(EX_HAS_REPLY_HEADER)
    BY <2>1 DEF PrefixOf
  <2>4. CASE Len(p) >= 2
    <3>1. 1 \in DOMAIN p /\ 2 \in DOMAIN p /\ p[2] = Int32(v.size)
      BY <1>1, <2>1, <2>4 DEF PrefixOf
    <3>2. ReadStatus(p) = ReadOk(2 + v.size)
      BY <2>3, <3>1, ReadsOfReply
    <3>3. r = Status(EX_NONE, OK, EmptyMessage) /\ ReadStatus(p).next = 2 + v.size
      BY <3>2 DEF ReadOk
    <3>4. StatusIsOk(r)
      BY <3>3 DEF Status, StatusIsOk
    <3> HIDE DEF r
    <3>5. ReplyRight(v, r, Len(p) >= 2)
      BY <1>3, <2>2, <2>4, <3>4 DEF ReplyRight
    <3>6. Len(p) >= Len(Written(v)) => 2 + v.size = Len(p) + 1
      BY <2>1 DEF PrefixOf
    <3> QED BY <2>4, <3>3, <3>5, <3>6 DEF r
  <2>5. CASE ~(Len(p) >= 2)
    <3>1. ReplyRight(v, r, Len(p) >= 2)
      BY <1>2, <1>3, <2>3, <2>5, Codes
    <3>2. ~(Len(p) >= Len(Written(v)))
      BY <1>1, <2>1, <2>5
    <3> HIDE DEF r
    <3> QED BY <2>5, <3>1, <3>2 DEF r
  <2> QED BY <2>4, <2>5
<1>4. CASE v.what = "exception"
  <2>1. v.code \in Exceptions \union {EX_TRANSACTION_FAILED}
    BY <1>4 DEF OtherReplies
  <2>2. v.code # EX_NONE /\ v.code # EX_HAS_REPLY_HEADER
    BY <2>1, Codes, ParcelValuesAssumption
  <2>3. Written(v) = <<Int32(v.code), Utf16(v.message)>>
    BY <1>4, ObjectsWritten
  <2>4. ~Succeeds(v) /\ ~HeaderCode(v) /\ (Throws(v) <=> v.message # NullMessage)
    BY <1>4 DEF Succeeds, HeaderCode, Throws
  <2>5. 1 \in DOMAIN p => p[1] = Int32(v.code)
    BY <2>3 DEF PrefixOf
  <2>6. CASE Len(p) >= 2
    <3>1. 1 \in DOMAIN p /\ 2 \in DOMAIN p /\ p[2] = Utf16(v.message)
      BY <1>1, <2>3, <2>6 DEF PrefixOf
    <3>2. ReadStatus(p) = NoResults(IF v.message = NullMessage
                                    THEN fromStatusT(UNEXPECTED_NULL)
                                    ELSE fromExceptionCode(v.code, v.message))
      BY <2>2, <2>5, <3>1, ReadsOfReply
    <3>3. r = IF v.message = NullMessage THEN fromStatusT(UNEXPECTED_NULL)
              ELSE fromExceptionCode(v.code, v.message)
      BY <3>2 DEF NoResults
    <3>4. CASE v.message = NullMessage
      <4>1. /\ ~StatusIsOk(r) /\ r.mException = EX_TRANSACTION_FAILED /\ r.mErrorCode # OK
        BY <3>3, <3>4, TransactionErrors, ReadErrors
      <4> HIDE DEF r
      <4>2. ReplyRight(v, r, Len(p) >= 2)
        BY <1>4, <2>4, <2>6, <3>4, <4>1 DEF ReplyRight
      <4> QED BY <2>4, <2>6, <4>2 DEF r
    <3>5. CASE v.message # NullMessage
      <4>1. r = fromExceptionCode(v.code, v.message) /\ ~StatusIsOk(r)
        BY <2>2, <3>3, <3>5 DEF fromExceptionCode, Status, StatusIsOk
      <4>2. Throws(v) /\ Thrown(v) = r
        BY <1>4, <2>4, <3>5, <4>1 DEF Thrown
      <4> HIDE DEF r
      <4>3. ReplyRight(v, r, Len(p) >= 2)
        BY <1>4, <2>4, <2>6, <4>1, <4>2 DEF ReplyRight
      <4> QED BY <2>4, <2>6, <4>3 DEF r
    <3> QED BY <3>4, <3>5
  <2>7. CASE ~(Len(p) >= 2)
    <3>1. ReplyRight(v, r, Len(p) >= 2)
      BY <1>2, <1>4, <2>2, <2>5, <2>7
    <3> HIDE DEF r
    <3> QED BY <2>4, <2>7, <3>1 DEF r
  <2> QED BY <2>6, <2>7
<1> QED BY <1>3, <1>4, Kinds

-----------------------------------------------------------------------------
(* A string written as w is accepted as s if it has its size and its       *)
(* terminator is there.                                                    *)
LEMMA StringReadBack ==
    ASSUME NEW s \in StringsSent, NEW w \in StringsSent, NEW at, NEW p, NEW i,
           i \in DOMAIN p => p[i] = Buffer(w.size + 1, w.terminated, at)
    PROVE  ReadString(s, at, p, i) = OK <=>
               i \in DOMAIN p /\ s.size = w.size /\ w.terminated
<1>1. s.size \in Nat /\ w.size \in Nat
  BY ParcelValuesAssumption DEF StringsSent
<1>2. BAD_VALUE # OK
  BY DEF BAD_VALUE, OK
<1>3. ReadBuffer(p, i, s.size + 1, at) = OK <=> i \in DOMAIN p /\ s.size = w.size
  BY <1>1, <1>2 DEF ReadBuffer, Buffer
<1>4. i \in DOMAIN p => p[i].terminated = w.terminated
  BY DEF Buffer
<1> QED BY <1>2, <1>3, <1>4 DEF ReadString, Then

(* A vector is accepted if it has its size.                                *)
LEMMA VecReadBack ==
    ASSUME NEW s \in Vectors, NEW w \in Vectors, NEW at, NEW p, NEW i,
           i \in DOMAIN p => p[i] = WriteVec(w, at)[1]
    PROVE  ReadVec(s, at, p, i) = OK <=> i \in DOMAIN p /\ s.size = w.size
<1>1. BAD_VALUE # OK
  BY DEF BAD_VALUE, OK
<1>2. i \in DOMAIN p => p[i].type = "buffer" /\ p[i].length = w.size /\ p[i].offset = at
  BY DEF WriteVec, Buffer
<1> QED BY <1>1, <1>2 DEF ReadVec, ReadBuffer

(* A native handle is accepted if it is there.                             *)
LEMMA HandleReadBack ==
    ASSUME NEW present, NEW at, NEW p, NEW i,
           i \in DOMAIN p => p[i] = NativeHandle(present, at)
    PROVE  ReadHandle(p, i, at) = OK <=> i \in DOMAIN p
<1>1. BAD_VALUE # OK
  BY DEF BAD_VALUE, OK
<1> QED BY <1>1 DEF ReadHandle, NativeHandle

(* Embedded values of every kind: the reader finds each child where the    *)
(* writer put it, and refuses the value only for a missing object, a wrong *)
(* size or a string without its terminator.                                *)
LEMMA EmbeddedReadBack ==
    ASSUME NEW v \in Embedded, NEW w \in Embedded, w.what = v.what,
           NEW p, PrefixOf(p, Written(w))
    PROVE  ReadBack(v, p).status = OK <=>
               Len(p) >= Len(Written(v)) /\ SameSizes(v, w) /\ Terminated(w)
<1>1. Len(p) \in Nat /\ DOMAIN p = 1..Len(p)
  BY DEF PrefixOf
<1>2. ~IsReply(v)
  BY Kinds DEF IsReply
<1>3. CASE v.what = "string"
  <2>1. v \in StringsSent /\ w \in StringsSent
    BY <1>3, Kinds
  <2>2. /\ Written(w) = <<Buffer(w.size + 1, w.terminated, 0)>> /\ Len(Written(v)) = 1
    BY <1>3, ObjectsWritten
  <2>3. 1 \in DOMAIN p => p[1] = Buffer(w.size + 1, w.terminated, 0)
    BY <2>2 DEF PrefixOf
  <2>4. ReadString(v, 0, p, 1) = OK <=> 1 \in DOMAIN p /\ v.size = w.size /\ w.terminated
    BY <2>1, <2>3, StringReadBack
  <2>5. ReadBack(v, p).status = ReadString(v, 0, p, 1)
    BY <1>2, <1>3 DEF ReadBack
  <2>6. SameSizes(v, w) = (v.size = w.size) /\ Terminated(w) = w.terminated
    BY <1>3 DEF SameSizes, Terminated
  <2>7. 1 \in DOMAIN p <=> Len(p) >= 1
    BY <1>1
  <2> QED BY <2>2, <2>4, <2>5, <2>6, <2>7
<1>4. CASE v.what = "vec"
  <2>1. v \in Vectors /\ w \in Vectors
    BY <1>4, Kinds
  <2>2. Written(w) = <<WriteVec(w, 0)[1]>> /\ Len(Written(v)) = 1
    BY <1>4, ObjectsWritten
  <2>3. 1 \in DOMAIN p => p[1] = WriteVec(w, 0)[1]
    BY <2>2 DEF PrefixOf
  <2>4. ReadVec(v, 0, p, 1) = OK <=> 1 \in DOMAIN p /\ v.size = w.size
    BY <2>1, <2>3, VecReadBack
  <2>5. ReadBack(v, p).status = ReadVec(v, 0, p, 1)
    BY <1>2, <1>4 DEF ReadBack
  <2>6. SameSizes(v, w) = (v.size = w.size) /\ Terminated(w)
    BY <1>4 DEF SameSizes, Terminated
  <2>7. 1 \in DOMAIN p <=> Len(p) >= 1
    BY <1>1
  <2> QED BY <2>2, <2>4, <2>5, <2>6, <2>7
<1>5. CASE v.what = "memory"
  <2>1. v.name \in StringsSent /\ w.name \in StringsSent
    BY <1>5, Kinds
  <2>2. /\ Written(w) = <<NativeHandle(w.handle, 0),
                          Buffer(w.name.size + 1, w.name.terminated, 24)>>
        /\ Len(Written(v)) = 2
    BY <1>5, ObjectsOfPairs
  <2>3. /\ 1 \in DOMAIN p => p[1] = NativeHandle(w.handle, 0)
        /\ 2 \in DOMAIN p => p[2] = Buffer(w.name.size + 1, w.name.terminated, 24)
    BY <2>2 DEF PrefixOf
  <2>4. ReadHandle(p, 1, 0) = OK <=> 1 \in DOMAIN p
    BY <2>3, HandleReadBack
  <2>5. ReadString(v.name, 24, p, 2) = OK <=>
           2 \in DOMAIN p /\ v.name.size = w.name.size /\ w.name.terminated
    BY <2>1, <2>3, StringReadBack
  <2>6. ReadBack(v, p).status = Then(ReadHandle(p, 1, 0), ReadString(v.name, 24, p, 2))
    <3>1. 0 + 24 = 24
      OBVIOUS
    <3>2. ReadBack(v, p).status = ReadMemory(v, 0, p)
      BY <1>2, <1>5 DEF ReadBack
    <3> QED BY <3>1, <3>2 DEF ReadMemory
  <2>7. SameSizes(v, w) = (v.name.size = w.name.size) /\ Terminated(w) = w.name.terminated
    BY <1>5 DEF SameSizes, Terminated
  <2>8. /\ 2 \in DOMAIN p <=> Len(p) >= 2
        /\ 2 \in DOMAIN p => 1 \in DOMAIN p
    BY <1>1
  <2> QED BY <2>2, <2>4, <2>5, <2>6, <2>7, <2>8 DEF Then
<1>6. CASE v.what = "mq"
  <2>1. v.grantors \in Vectors /\ w.grantors \in Vectors
    BY <1>6, Kinds
  <2>2. /\ Written(w) = <<WriteVec(w.grantors, 0)[1], NativeHandle(w.handle, 16)>>
        /\ Len(Written(v)) = 2
    BY <1>6, ObjectsOfPairs
  <2>3. /\ 1 \in DOMAIN p => p[1] = WriteVec(w.grantors, 0)[1]
        /\ 2 \in DOMAIN p => p[2] = NativeHandle(w.handle, 16)
    BY <2>2 DEF PrefixOf
  <2>4. ReadVec(v.grantors, 0, p, 1) = OK <=>
           1 \in DOMAIN p /\ v.grantors.size = w.grantors.size
    BY <2>1, <2>3, VecReadBack
  <2>5. ReadHandle(p, 2, 16) = OK <=> 2 \in DOMAIN p
    BY <2>3, HandleReadBack
  <2>6. ReadBack(v, p).status = Then(ReadVec(v.grantors, 0, p, 1), ReadHandle(p, 2, 16))
    <3>1. 0 + 16 = 16
      OBVIOUS
    <3>2. ReadBack(v, p).status = ReadMQ(v, 0, p)
      BY <1>2, <1>6 DEF ReadBack
    <3> QED BY <3>1, <3>2 DEF ReadMQ
  <2>7. SameSizes(v, w) = (v.grantors.size = w.grantors.size) /\ Terminated(w)
    BY <1>6 DEF SameSizes, Terminated
  <2>8. /\ 2 \in DOMAIN p <=> Len(p) >= 2
        /\ 2 \in DOMAIN p => 1 \in DOMAIN p
    BY <1>1
  <2> QED BY <2>2, <2>4, <2>5, <2>6, <2>7, <2>8 DEF Then
<1> QED BY <1>3, <1>4, <1>5, <1>6, Kinds

(***************************************************************************)
(* For every version width, error, exception code, message and size of the *)
(* values sent, with any write failing and any object missing: a reply is  *)
(* read as success exactly if it says so and arrives (or has the reserved  *)
(* EX_HAS_REPLY_HEADER as its code) and results are read from where they   *)
(* begin; an exception keeps its code and its convertible message; every   *)
(* other reply is an error of the transaction.  A hidl_version arrives     *)
(* unchanged or not at all and its packed form orders as operator< does;   *)
(* an embedded value is accepted exactly if it is complete, has the sizes  *)
(* its parent tells and is terminated (Status.cpp, HidlBinderSupport.cpp). *)
(***************************************************************************)
THEOREM ParcelsRoundTrip == ParcelSpec => []ParcelRoundTrip
<1>1. ParcelInv => ParcelRoundTrip
  <2> SUFFICES ASSUME ParcelInv, received # Nothing PROVE ParcelRoundTrip
    BY DEF ParcelRoundTrip
  <2> DEFINE p == parcelled.objects
             first == IF sent.what = "status" /\ StatusIsOk(sent) THEN 1 ELSE 2
             r == received.status
  <2>1. /\ SentInv
        /\ parcelled.result = OK => received = ReadBack(sent, p)
        /\ parcelled.result # OK =>
              received = IF IsReply(sent) THEN NoResults(fromStatusT(parcelled.result))
                         ELSE [status |-> parcelled.result]
    BY DEF ParcelInv
  <2>2. CASE IsReply(sent)
    <3>1. /\ sent \in StatusValues \union OtherReplies /\ content = sent
          /\ parcelled.result = OK => PrefixOf(p, Written(sent))
      BY <2>1, <2>2, Kinds DEF SentInv, Values, IsReply
    <3>2. /\ ReplyRight(sent, r, Arrived(first))
          /\ Succeeds(sent) /\ Arrived(Len(Written(sent))) => received.next = Len(p) + 1
      <4>1. CASE parcelled.result # OK
        <5>1. received = NoResults(fromStatusT(parcelled.result))
          BY <2>1, <2>2, <4>1
        <5>2. /\ r = fromStatusT(parcelled.result) /\ ~StatusIsOk(r)
              /\ r.mException = EX_TRANSACTION_FAILED /\ r.mErrorCode = parcelled.result
          BY <4>1, <5>1, TransactionErrors DEF NoResults
        <5>3. sent.what = "status" /\ sent.mErrorCode # OK =>
                 parcelled.result = sent.mErrorCode
          <6> SUFFICES ASSUME sent.what = "status", sent.mErrorCode # OK
                       PROVE  parcelled.result = sent.mErrorCode
            OBVIOUS
          <6>1. sent \in StatusValues
            BY <3>1, Kinds
          <6>2. sent.mException = EX_TRANSACTION_FAILED
            BY <6>1, StatusCases DEF Status
          <6> QED BY <6>2, <2>1 DEF SentInv
        <5>4. \A n : ~Arrived(n)
          BY <4>1 DEF Arrived
        <5> HIDE DEF r
        <5> QED BY <4>1, <5>2, <5>3, <5>4 DEF ReplyRight
      <4>2. CASE parcelled.result = OK /\ sent \in OtherReplies
        <5>1. received = ReadStatus(p)
          BY <2>1, <2>2, <4>2 DEF ReadBack, IsReply
        <5>2. first = 2
          BY <4>2, Kinds
        <5>3. \A n : Arrived(n) <=> Len(p) >= n
          BY <4>2 DEF Arrived
        <5> QED BY <3>1, <4>2, <5>1, <5>2, <5>3, OtherReadBack
      <4>3. CASE parcelled.result = OK /\ sent \in StatusValues
        <5>1. received = ReadStatus(p)
          BY <2>1, <2>2, <4>3 DEF ReadBack, IsReply
        <5>2. sent.what = "status"
          BY <4>3, Kinds
        <5>3. p = StatusObjects(sent)
          <6>1. CASE sent.mException = EX_TRANSACTION_FAILED
            BY <2>1, <5>2, <6>1 DEF SentInv, StatusObjects
          <6>2. CASE sent.mException # EX_TRANSACTION_FAILED
            BY <2>1, <4>3, <5>2, <6>2 DEF SentInv
          <6> QED BY <6>1, <6>2
        <5>4. sent.mErrorCode = OK
          <6>1. sent.mException = EX_TRANSACTION_FAILED => parcelled.result = sent.mErrorCode
            BY <2>1, <5>2 DEF SentInv
          <6> QED BY <6>1, <4>3, StatusCases DEF Status
        <5>5. PICK ex, m : /\ sent = Status(ex, OK, m)
                           /\ m \in Messages \/ m = EmptyMessage
          BY <4>3, <5>4, StatusCases, ParcelValuesAssumption DEF Status
        <5>6. /\ ReplyRight(sent, ReadStatus(p).status, Len(p) >= first)
              /\ StatusIsOk(sent) => ReadStatus(p).next = Len(p) + 1
          BY <5>2, <5>3, <5>5, StatusReadBack
        <5>7. \A n : Arrived(n) <=> Len(p) >= n
          BY <4>3 DEF Arrived
        <5>8. Succeeds(sent) => StatusIsOk(sent)
          BY <5>2 DEF Succeeds
        <5> QED BY <5>1, <5>6, <5>7, <5>8
      <4> QED BY <3>1, <4>1, <4>2, <4>3
    <3> HIDE DEF r
    <3> QED BY <2>2, <3>2 DEF ParcelRoundTrip, ReplyRight, r
  <2>3. CASE sent.what = "version"
    <3>1. sent \in Versions /\ content = sent
      BY <2>1, <2>3, Kinds DEF SentInv, Values
    <3>2. ~IsReply(sent)
      BY <2>3 DEF IsReply
    <3>3. CASE parcelled.result = OK
      <4>1. received = ReadVersion(p) /\ PrefixOf(p, Written(sent))
        BY <2>1, <2>3, <3>1, <3>2, <3>3 DEF ReadBack, SentInv
      <4>2. Arrived(1) <=> Len(p) >= 1
        BY <3>3 DEF Arrived
      <4>3. IF Arrived(1) THEN r = OK /\ received.value = sent ELSE r # OK
        BY <3>1, <4>1, <4>2, VersionReadBack DEF Read
      <4> HIDE DEF r
      <4> QED BY <2>3, <3>1, <3>2, <4>3, VersionOrder DEF ParcelRoundTrip, r
    <3>4. CASE parcelled.result # OK
      <4>1. r # OK /\ ~Arrived(1)
        BY <2>1, <3>2, <3>4 DEF Arrived
      <4> HIDE DEF r
      <4> QED BY <2>3, <3>2, <4>1 DEF ParcelRoundTrip, r
    <3> QED BY <3>3, <3>4
  <2>4. CASE sent \in Embedded
    <3>1. /\ sent.what # "version" /\ ~IsReply(sent)
          /\ content \in Embedded /\ content.what = sent.what
      BY <2>1, <2>4, Kinds DEF SentInv, IsReply
    <3>2. CASE parcelled.result = OK
      <4>1. received = ReadBack(sent, p) /\ PrefixOf(p, Written(content))
        BY <2>1, <3>2 DEF SentInv
      <4>2. r = OK <=> /\ Len(p) >= Len(Written(sent))
                       /\ SameSizes(sent, content) /\ Terminated(content)
        BY <2>4, <3>1, <4>1, EmbeddedReadBack
      <4>3. \A n : Arrived(n) <=> Len(p) >= n
        BY <3>2 DEF Arrived
      <4> HIDE DEF r
      <4> QED BY <3>1, <4>2, <4>3 DEF ParcelRoundTrip, r
    <3>3. CASE parcelled.result # OK
      <4>1. r # OK /\ \A n : ~Arrived(n)
        BY <2>1, <3>1, <3>3 DEF Arrived
      <4> HIDE DEF r
      <4> QED BY <3>1, <4>1 DEF ParcelRoundTrip, r
    <3> QED BY <3>2, <3>3
  <2> QED BY <2>1, <2>2, <2>3, <2>4, Kinds DEF SentInv, Values, IsReply
<1> QED BY <1>1, ParcelInvariant, PTL

-----------------------------------------------------------------------------
(***************************************************************************)
(* Part 6: references in a parcel.                                         *)
(***************************************************************************)
Refs == Targets \union {NullRef}
Objects == [type : {"null", "buffer", "reference"}, parent : Nat, offset : Nat,
            data : Refs, child : Nat, childOffset : Int]
Pending == [buf : Refs, parent : Nat, offset : Nat]
Slot == [parent : Nat, offset : Nat]

ReferenceTypeOK ==
    /\ heap \in [1..Cells -> Refs]
    /\ root \in Refs
    /\ parcel \in Seq(Objects)
    /\ reading \in Nat
    /\ status \in {"OK", "BAD_VALUE", "NO_MEMORY"}
    /\ reading = 0 => stack \in Seq(Pending) /\ readGraph = {}
    /\ reading # 0 => status = "OK"

(* Where a reference leads, given the objects of the parcel.               *)
LeadsTo(p, parent, offset) ==
    IF parent = 0 THEN root ELSE heap[p[parent].data.at + offset]

(* t is in the buffer of that handle, from offset on.                      *)
PlacedAt(p, t, child, offset) ==
    /\ child \in DOMAIN p /\ t # NullRef
    /\ t.at = p[child].data.at + offset /\ Inside(t, p[child].data)

(* Each object of the parcel is what the reference it stands for leads to. *)
ObjectFaithful(p, i) ==
    /\ p[i].parent \in 0..(i - 1)
    /\ p[i].data = LeadsTo(p, p[i].parent, p[i].offset)
    /\ p[i].type = "null" => p[i].data = NullRef /\ p[i].child = 0
    /\ p[i].type = "buffer" => p[i].data \in Targets /\ p[i].childOffset = 0
    /\ p[i].type = "reference" => PlacedAt(p, p[i].data, p[i].child, p[i].childOffset)

ObjectsFaithful == \A i \in DOMAIN parcel : ObjectFaithful(parcel, i)

(* No buffer begins inside one written before it.                          *)
BuffersOnce ==
    \A i, j \in DOMAIN parcel :
        parcel[i].type = "buffer" /\ parcel[j].type = "buffer" /\ i < j
            => parcel[j].data.at \notin CellsOf(parcel[i].data)

(* What is written, or still to be written, is the sender's memory.        *)
FromMemory ==
    /\ \A i \in DOMAIN parcel : parcel[i].data \in InMemory \union {NullRef}
    /\ reading = 0 => \A i \in DOMAIN stack : stack[i].buf \in InMemory \union {NullRef}

(* A structure is refused only for a target that begins inside another and *)
(* reaches beyond it.                                                      *)
RefusalJustified ==
    status = "BAD_VALUE" => \E t, u \in InMemory : t.at \in CellsOf(u) /\ ~Inside(t, u)

(* A reference still to be written knows where it leads.                   *)
PendingFaithful ==
    reading = 0 => \A i \in DOMAIN stack :
        /\ stack[i].parent \in 0..Len(parcel)
        /\ stack[i].buf = LeadsTo(parcel, stack[i].parent, stack[i].offset)

(* Where the references of a stack are.                                    *)
Slots(s) == [i \in DOMAIN s |-> [parent |-> s[i].parent, offset |-> s[i].offset]]

(* The references to be resolved behind object k.                          *)
Opened(p, k) == IF p[k].type = "buffer" THEN RefsAt(k, p[k].data.size) ELSE <<>>

(* S[k] is the stack, writer's or reader's, behind the first k objects.    *)
Replays(S, p) ==
    /\ S \in [0..Len(p) -> Seq(Slot)]
    /\ S[0] = <<[parent |-> 0, offset |-> 0]>>
    /\ \A k \in 1..Len(p) :
          /\ S[k - 1] # <<>>
          /\ Head(S[k - 1]) = [parent |-> p[k].parent, offset |-> p[k].offset]
          /\ S[k] = Opened(p, k) \o Tail(S[k - 1])

(* The reader's stack runs through what the writer's was.                  *)
ReaderFollowsWriter ==
    \E S : /\ Replays(S, parcel)
           /\ reading = 0 => Slots(stack) = S[Len(parcel)]
           /\ reading # 0 => /\ S[Len(parcel)] = <<>>
                             /\ reading \in 1..(Len(parcel) + 1)
                             /\ stack = S[reading - 1]

(* What was read leads where the writer's reference led.                   *)
ReadFaithful ==
    \A e \in readGraph : SamePlace(LeadsTo(parcel, e[1], e[2]), e[3], e[4])

ReferenceInv ==
    /\ ReferenceTypeOK
    /\ ObjectsFaithful
    /\ BuffersOnce
    /\ FromMemory
    /\ RefusalJustified
    /\ PendingFaithful
    /\ ReaderFollowsWriter
    /\ ReadFaithful

-----------------------------------------------------------------------------
(* The slots of a stack, one by one.                                       *)
LEMMA SlotsOf ==
    ASSUME NEW s \in Seq(Pending)
    PROVE  /\ Slots(s) \in Seq(Slot) /\ Len(Slots(s)) = Len(s)
           /\ \A i \in 1..Len(s) : Slots(s)[i] = [parent |-> s[i].parent, offset |-> s[i].offset]
<1>1. DOMAIN s = 1..Len(s) /\ Len(s) \in Nat /\ \A i \in 1..Len(s) : s[i] \in Pending
  OBVIOUS
<1>2. \A r \in Pending : [parent |-> r.parent, offset |-> r.offset] \in Slot
  BY DEF Pending, Slot
<1>3. Slots(s) = [i \in 1..Len(s) |-> [parent |-> s[i].parent, offset |-> s[i].offset]]
  BY <1>1 DEF Slots
<1>4. \A i \in 1..Len(s) : [parent |-> s[i].parent, offset |-> s[i].offset] \in Slot
  BY <1>1, <1>2
<1> DEFINE f == [i \in 1..Len(s) |-> [parent |-> s[i].parent, offset |-> s[i].offset]]
<1>5. f \in [1..Len(s) -> Slot]
  BY <1>4
<1>6. f \in Seq(Slot) /\ Len(f) = Len(s)
  <2> HIDE DEF f
  <2> QED BY <1>1, <1>5
<1> QED BY <1>3, <1>6

(* The slots of a stack without its top.                                   *)
LEMMA SlotsOfTail ==
    ASSUME NEW s \in Seq(Pending), s # <<>>
    PROVE  /\ Slots(s) # <<>> /\ Tail(s) \in Seq(Pending)
           /\ Head(Slots(s)) = [parent |-> Head(s).parent, offset |-> Head(s).offset]
           /\ Slots(Tail(s)) = Tail(Slots(s))
<1>1. Tail(s) \in Seq(Pending) /\ Len(Tail(s)) = Len(s) - 1
      /\ \A i \in 1..(Len(s) - 1) : Tail(s)[i] = s[i + 1]
  OBVIOUS
<1>2. Slots(s) # <<>> /\ Head(Slots(s)) = [parent |-> Head(s).parent, offset |-> Head(s).offset]
  <2>1. Len(s) \in Nat /\ Len(s) > 0 /\ Head(s) = s[1]
    OBVIOUS
  <2>2. /\ Slots(s) \in Seq(Slot) /\ Len(Slots(s)) > 0
        /\ Slots(s)[1] = [parent |-> s[1].parent, offset |-> s[1].offset]
    BY <2>1, SlotsOf
  <2>3. Slots(s) # <<>> /\ Head(Slots(s)) = Slots(s)[1]
    BY <2>2
  <2> QED BY <2>1, <2>2, <2>3
<1>3. Tail(Slots(s)) \in Seq(Slot) /\ Len(Tail(Slots(s))) = Len(s) - 1
      /\ \A i \in 1..(Len(s) - 1) : Tail(Slots(s))[i] = Slots(s)[i + 1]
  BY <1>2, SlotsOf
<1>4. \A i \in 1..(Len(s) - 1) : i + 1 \in 1..Len(s)
  OBVIOUS
<1>5. /\ Slots(Tail(s)) \in Seq(Slot) /\ Len(Slots(Tail(s))) = Len(s) - 1
      /\ \A i \in 1..(Len(s) - 1) :
            Slots(Tail(s))[i] = [parent |-> Tail(s)[i].parent, offset |-> Tail(s)[i].offset]
  BY <1>1, SlotsOf
<1>6. \A i \in 1..(Len(s) - 1) : Slots(Tail(s))[i] = Tail(Slots(s))[i]
  BY <1>1, <1>3, <1>4, <1>5, SlotsOf
<1> QED BY <1>1, <1>2, <1>3, <1>5, <1>6, SeqEqual

(* A target's cells are cells of the memory.                               *)
LEMMA TargetCells ==
    ASSUME NEW t \in Targets
    PROVE  /\ t.at \in Nat /\ t.size \in Nat /\ t.size > 0 /\ t # NullRef
           /\ \A k \in 1..t.size : t.at + (k - 1) \in 1..Cells /\ k - 1 \in Nat
<1>1. /\ t.at \in 1..Cells /\ t.size \in TargetSizes /\ t.at + t.size <= Cells + 1
      /\ t # NullRef
  BY ParcelReferencesAssumption DEF Targets
<1>2. Cells \in Nat /\ t.size \in Nat /\ t.size # 0
  BY <1>1, ParcelReferencesAssumption
<1> QED BY <1>1, <1>2

(* The references inside a buffer are found again from the slots alone.    *)
LEMMA RefsOfSlots ==
    ASSUME ReferenceTypeOK, NEW c \in Targets, NEW h \in Nat, NEW t \in Seq(Pending)
    PROVE  /\ RefsOf(c, h) \in Seq(Pending) /\ RefsAt(h, c.size) \in Seq(Slot)
           /\ Slots(RefsOf(c, h) \o t) = RefsAt(h, c.size) \o Slots(t)
<1> DEFINE z == c.size
<1>1. z \in Nat /\ \A k \in 1..z : c.at + (k - 1) \in 1..Cells /\ k - 1 \in Nat
  BY TargetCells
<1>2. \A k \in 1..z : heap[c.at + (k - 1)] \in Refs
  BY <1>1 DEF ReferenceTypeOK
<1> HIDE DEF z
<1>3. RefsOf(c, h) \in Seq(Pending) /\ Len(RefsOf(c, h)) = z
      /\ \A k \in 1..z : RefsOf(c, h)[k] =
            [buf |-> heap[c.at + (k - 1)], parent |-> h, offset |-> k - 1]
  <2> DEFINE ref(k) == [buf |-> heap[c.at + (k - 1)], parent |-> h, offset |-> k - 1]
             f == [k \in 1..z |-> ref(k)]
  <2>1. \A k \in 1..z : ref(k) \in Pending
    BY <1>1, <1>2 DEF Pending
  <2>2. RefsOf(c, h) = f
    BY DEF RefsOf, z
  <2> HIDE DEF ref
  <2>3. f \in [1..z -> Pending] /\ \A k \in 1..z : f[k] = ref(k)
    BY <2>1
  <2> HIDE DEF f
  <2>4. f \in Seq(Pending) /\ Len(f) = z
    BY <2>3, <1>1
  <2> QED BY <2>2, <2>3, <2>4 DEF ref
<1>4. RefsAt(h, z) \in Seq(Slot) /\ Len(RefsAt(h, z)) = z
      /\ \A k \in 1..z : RefsAt(h, z)[k] = [parent |-> h, offset |-> k - 1]
  <2> DEFINE slot(k) == [parent |-> h, offset |-> k - 1]
             f == [k \in 1..z |-> slot(k)]
  <2>1. \A k \in 1..z : slot(k) \in Slot
    BY <1>1 DEF Slot
  <2>2. RefsAt(h, z) = f
    BY DEF RefsAt
  <2> HIDE DEF slot
  <2>3. f \in [1..z -> Slot] /\ \A k \in 1..z : f[k] = slot(k)
    BY <2>1
  <2> HIDE DEF f
  <2>4. f \in Seq(Slot) /\ Len(f) = z
    BY <2>3, <1>1
  <2> QED BY <2>2, <2>3, <2>4 DEF slot
<1> DEFINE a == RefsOf(c, h) \o t
           b == RefsAt(h, z) \o Slots(t)
           m == z + Len(t)
<1>5. a \in Seq(Pending) /\ Len(a) = m
      /\ \A i \in 1..m : a[i] = IF i <= z THEN RefsOf(c, h)[i] ELSE t[i - z]
  <2> DEFINE R == RefsOf(c, h)
  <2>1. R \in Seq(Pending) /\ Len(R) = z
    BY <1>3
  <2> HIDE DEF R
  <2>2. /\ R \o t \in Seq(Pending) /\ Len(R \o t) = Len(R) + Len(t)
        /\ \A i \in 1..(Len(R) + Len(t)) :
              (R \o t)[i] = IF i <= Len(R) THEN R[i] ELSE t[i - Len(R)]
    BY <2>1, ConcatProperties, Zenon
  <2> QED BY <2>1, <2>2 DEF R
<1>6. b \in Seq(Slot) /\ Len(b) = m
      /\ \A i \in 1..m : b[i] = IF i <= z THEN RefsAt(h, z)[i] ELSE Slots(t)[i - z]
  <2> DEFINE R == RefsAt(h, z)
             u == Slots(t)
  <2>1. R \in Seq(Slot) /\ Len(R) = z /\ u \in Seq(Slot) /\ Len(u) = Len(t)
    BY <1>4, SlotsOf
  <2> HIDE DEF R, u
  <2>2. /\ R \o u \in Seq(Slot) /\ Len(R \o u) = Len(R) + Len(u)
        /\ \A i \in 1..(Len(R) + Len(u)) :
              (R \o u)[i] = IF i <= Len(R) THEN R[i] ELSE u[i - Len(R)]
    BY <2>1, ConcatProperties, Zenon
  <2> QED BY <2>1, <2>2 DEF R, u
<1>7. Slots(a) \in Seq(Slot) /\ Len(Slots(a)) = m
      /\ \A i \in 1..m : Slots(a)[i] = [parent |-> a[i].parent, offset |-> a[i].offset]
  BY <1>5, SlotsOf
<1> HIDE DEF a, b
<1>8. ASSUME NEW i \in 1..m PROVE Slots(a)[i] = b[i]
  <2>1. CASE i <= z
    <3>1. i \in 1..z
      BY <1>1, <2>1
    <3>2. a[i] = [buf |-> heap[c.at + (i - 1)], parent |-> h, offset |-> i - 1]
      BY <3>1, <2>1, <1>3, <1>5
    <3>3. Slots(a)[i] = [parent |-> h, offset |-> i - 1]
      BY <3>2, <1>7
    <3>4. b[i] = [parent |-> h, offset |-> i - 1]
      BY <3>1, <2>1, <1>4, <1>6
    <3> QED BY <3>3, <3>4
  <2>2. CASE ~(i <= z)
    <3>1. i - z \in 1..Len(t)
      BY <1>1, <2>2
    <3>2. Slots(t)[i - z] = [parent |-> t[i - z].parent, offset |-> t[i - z].offset]
      BY <3>1, SlotsOf
    <3> QED BY <3>2, <2>2, <1>5, <1>6, <1>7
  <2> QED BY <2>1, <2>2
<1>9. Slots(a) = b
  BY <1>6, <1>7, <1>8, SeqEqual
<1> QED BY <1>3, <1>4, <1>9 DEF a, b, z

-----------------------------------------------------------------------------
(* What a write appends to the parcel, and what it has then to resolve.    *)
Appended(o, more) ==
    LET r == Head(stack) IN
    /\ o \in Objects
    /\ o.parent = r.parent /\ o.offset = r.offset /\ o.data = r.buf
    /\ o.type = "null" => o.data = NullRef /\ o.child = 0
    /\ o.type = "reference" => PlacedAt(parcel, o.data, o.child, o.childOffset)
    /\ o.type = "buffer" =>
          /\ o.data \in Targets /\ o.childOffset = 0
          /\ \A i \in DOMAIN parcel :
                parcel[i].type = "buffer" => o.data.at \notin CellsOf(parcel[i].data)
    /\ more = IF o.type = "buffer" THEN RefsOf(o.data, Len(parcel) + 1) ELSE <<>>
    /\ parcel' = Append(parcel, o)
    /\ stack' = more \o Tail(stack)

(* A write that fails, as opposed to one that appends an object.           *)
Refused ==
    /\ \/ /\ Head(stack).buf # NullRef
          /\ findBuffer(Head(stack).buf) = {} /\ BadPointer(Head(stack).buf)
          /\ status' = "BAD_VALUE"
       \/ status' = "NO_MEMORY"
    /\ UNCHANGED <<heap, root, parcel, stack, reading, readGraph>>

(* A write appends one object: null, a place in a buffer before, or a      *)
(* buffer with references of its own.                                      *)
LEMMA WriteShape ==
    ASSUME ReferenceTypeOK, ObjectsFaithful, reading = 0, stack # <<>>,
           WriteReference(Head(stack))
    PROVE  \/ Refused
           \/ /\ \E o, more : Appended(o, more)
              /\ UNCHANGED <<heap, root, reading, readGraph, status>>
<1> DEFINE r == Head(stack)
           Object(type, child, offset) ==
               [type |-> type, parent |-> r.parent, offset |-> r.offset,
                data |-> r.buf, child |-> child, childOffset |-> offset]
<1>1. stack \in Seq(Pending) /\ r \in Pending /\ Tail(stack) \in Seq(Pending)
  BY DEF ReferenceTypeOK
<1>2. Tail(stack) = <<>> \o Tail(stack)
  <2> DEFINE t == Tail(stack)
  <2>1. t \in Seq(Pending)
    BY <1>1
  <2> HIDE DEF t
  <2>2. t = <<>> \o t
    BY <2>1
  <2> QED BY <2>2 DEF t
<1>3. r.parent \in Nat /\ r.offset \in Nat /\ r.buf \in Refs
  BY <1>1 DEF Pending
<1>4. \A type \in {"null", "buffer", "reference"}, child \in Nat, offset \in Int :
         Object(type, child, offset) \in Objects
  BY <1>3 DEF Objects
<1>5. DOMAIN parcel \subseteq Nat
  BY DEF ReferenceTypeOK
<1>6. ASSUME r.buf = NullRef, parcel' = Append(parcel, Object("null", 0, 0)),
             stack' = Tail(stack)
      PROVE  \E o, more : Appended(o, more)
  <2>1. Appended(Object("null", 0, 0), <<>>)
    BY <1>2, <1>4, <1>6 DEF Appended
  <2> QED BY <2>1
<1>7. ASSUME r.buf # NullRef, ~BadPointer(r.buf),
             parcel' = Append(parcel, Object("buffer", 0, 0)),
             stack' = RefsOf(r.buf, Len(parcel) + 1) \o Tail(stack)
      PROVE  \E o, more : Appended(o, more)
  <2>1. r.buf \in Targets
    BY <1>3, <1>7 DEF Refs
  <2>2. \A i \in DOMAIN parcel :
           parcel[i].type = "buffer" => r.buf.at \notin CellsOf(parcel[i].data)
    BY <1>7 DEF BadPointer, IsBuffer
  <2>3. Appended(Object("buffer", 0, 0), RefsOf(r.buf, Len(parcel) + 1))
    BY <1>4, <1>7, <2>1, <2>2 DEF Appended
  <2> QED BY <2>3
<1>8. ASSUME r.buf # NullRef, NEW h \in findBuffer(r.buf),
             parcel' = Append(parcel, Object("reference", h, childOffset(r.buf, h))),
             stack' = Tail(stack)
      PROVE  \E o, more : Appended(o, more)
  <2>1. /\ h \in DOMAIN parcel /\ h \in Nat /\ parcel[h].type = "buffer"
        /\ Inside(r.buf, parcel[h].data)
    BY <1>5 DEF findBuffer, IsBuffer
  <2>2. r.buf \in Targets /\ parcel[h].data \in Targets
    BY <1>3, <1>8, <2>1 DEF Refs, ObjectsFaithful, ObjectFaithful
  <2>3. r.buf.at \in Nat /\ parcel[h].data.at \in Nat
    BY <2>2, TargetCells
  <2>4. /\ childOffset(r.buf, h) \in Int
        /\ r.buf.at = parcel[h].data.at + childOffset(r.buf, h)
    BY <2>3 DEF childOffset
  <2>5. Object("reference", h, childOffset(r.buf, h)) \in Objects
    BY <1>4, <2>1, <2>4
  <2>6. PlacedAt(parcel, r.buf, h, childOffset(r.buf, h))
    BY <1>8, <2>1, <2>4 DEF PlacedAt
  <2>7. Appended(Object("reference", h, childOffset(r.buf, h)), <<>>)
    BY <1>2, <1>8, <2>5, <2>6 DEF Appended
  <2> QED BY <2>7
<1>9. Refused \/ UNCHANGED <<heap, root, reading, readGraph, status>>
  BY DEF WriteReference, Refused
<1> QED BY <1>6, <1>7, <1>8, <1>9 DEF WriteReference, Refused

(* The parcel keeps its objects, and so the targets of references in it.   *)
LEMMA AppendKeeps ==
    ASSUME ReferenceTypeOK, NEW o \in Objects, parcel' = Append(parcel, o),
           UNCHANGED <<heap, root>>
    PROVE  /\ parcel' \in Seq(Objects) /\ Len(parcel') = Len(parcel) + 1
           /\ Len(parcel) \in Nat
           /\ DOMAIN parcel = 1..Len(parcel) /\ DOMAIN parcel' = 1..(Len(parcel) + 1)
           /\ \A i \in 1..Len(parcel) : parcel'[i] = parcel[i]
           /\ parcel'[Len(parcel) + 1] = o
           /\ \A i \in 0..Len(parcel) : \A f :
                 LeadsTo(parcel', i, f) = LeadsTo(parcel, i, f)
<1>1. /\ parcel' \in Seq(Objects) /\ Len(parcel') = Len(parcel) + 1
      /\ Len(parcel) \in Nat
      /\ DOMAIN parcel = 1..Len(parcel) /\ DOMAIN parcel' = 1..(Len(parcel) + 1)
      /\ \A i \in 1..Len(parcel) : parcel'[i] = parcel[i]
      /\ parcel'[Len(parcel) + 1] = o
  BY DEF ReferenceTypeOK
<1>2. ASSUME NEW i \in 0..Len(parcel), NEW f 
      PROVE  LeadsTo(parcel', i, f) = LeadsTo(parcel, i, f)
  <2>1. CASE i = 0
    BY <2>1 DEF LeadsTo
  <2>2. CASE i # 0
    <3>1. parcel'[i] = parcel[i]
      BY <1>1, <2>2
    <3> QED BY <3>1, <2>2 DEF LeadsTo
  <2> QED BY <2>1, <2>2
<1> QED BY <1>1, <1>2

(* An object appended preserves the invariant: the replay is extended by   *)
(* one stack.                                                              *)
LEMMA AppendedPreserves ==
    ASSUME ReferenceInv, reading = 0, stack # <<>>, \E o, more : Appended(o, more),
           UNCHANGED <<heap, root, reading, readGraph, status>>
    PROVE  ReferenceInv'
<1> USE DEF ReferenceInv
<1>1. PICK o, more : Appended(o, more)
  OBVIOUS
<1>2. UNCHANGED <<heap, root, reading, readGraph, status>>
  OBVIOUS
<1> DEFINE n == Len(parcel)
           r == Head(stack)
<1>3. /\ o \in Objects
      /\ o.parent = r.parent /\ o.offset = r.offset /\ o.data = r.buf
      /\ o.type = "null" => o.data = NullRef /\ o.child = 0
      /\ o.type = "reference" => PlacedAt(parcel, o.data, o.child, o.childOffset)
      /\ o.type = "buffer" =>
            /\ o.data \in Targets /\ o.childOffset = 0
            /\ \A i \in DOMAIN parcel :
                  parcel[i].type = "buffer" => o.data.at \notin CellsOf(parcel[i].data)
      /\ more = (IF o.type = "buffer" THEN RefsOf(o.data, n + 1) ELSE <<>>)
      /\ parcel' = Append(parcel, o)
      /\ stack' = more \o Tail(stack)
  BY <1>1 DEF Appended
<1>4. /\ parcel' \in Seq(Objects) /\ Len(parcel') = n + 1 /\ n \in Nat
      /\ DOMAIN parcel = 1..n /\ DOMAIN parcel' = 1..(n + 1)
      /\ \A i \in 1..n : parcel'[i] = parcel[i]
      /\ parcel'[n + 1] = o
      /\ \A i \in 0..n : \A f : LeadsTo(parcel', i, f) = LeadsTo(parcel, i, f)
  BY <1>2, <1>3, AppendKeeps
<1>5. /\ stack \in Seq(Pending) /\ r \in Pending /\ Tail(stack) \in Seq(Pending)
      /\ r = stack[1] /\ 1 \in DOMAIN stack
  BY DEF ReferenceTypeOK
<1>6. r.parent \in 0..n /\ r.buf = LeadsTo(parcel, r.parent, r.offset)
  BY <1>5 DEF PendingFaithful
<1> HIDE DEF n, r, ReferenceInv
<1>7. more \in Seq(Pending)
  <2>1. CASE o.type = "buffer"
    <3>1. RefsOf(o.data, n + 1) \in Seq(Pending)
      BY <1>3, <1>4, <1>5, <2>1, RefsOfSlots DEF ReferenceInv
    <3> QED BY <2>1, <3>1, <1>3
  <2>2. CASE o.type # "buffer"
    BY <2>2, <1>3
  <2> QED BY <2>1, <2>2
<1>8. stack' \in Seq(Pending)
  BY <1>3, <1>5, <1>7, ConcatProperties
<1>9. \A i \in DOMAIN stack' :
         \/ i \in DOMAIN more /\ stack'[i] = more[i]
         \/ i - Len(more) \in DOMAIN Tail(stack) /\ stack'[i] = Tail(stack)[i - Len(more)]
  <2> DEFINE t == Tail(stack)
  <2>1. t \in Seq(Pending) /\ stack' = more \o t
    BY <1>3, <1>5
  <2> HIDE DEF t
  <2> QED BY <2>1, <1>7, ConcatProperties DEF t
<1>10. ReferenceTypeOK'
  BY <1>2, <1>4, <1>8 DEF ReferenceTypeOK, ReferenceInv
<1>11. ObjectsFaithful'
  <2>1. ASSUME NEW i \in 1..n PROVE ObjectFaithful(parcel', i)
    <3>1. ObjectFaithful(parcel, i)
      BY <1>4, <2>1 DEF ObjectsFaithful, ReferenceInv
    <3>2. parcel[i].parent \in 0..n /\ parcel'[i] = parcel[i]
      BY <3>1, <2>1, <1>4 DEF ObjectFaithful
    <3>3. LeadsTo(parcel', parcel[i].parent, parcel[i].offset)
            = LeadsTo(parcel, parcel[i].parent, parcel[i].offset)
      BY <3>2, <1>4
    <3>4. parcel[i].type = "reference" =>
             PlacedAt(parcel', parcel[i].data, parcel[i].child, parcel[i].childOffset)
      BY <3>1, <1>4 DEF ObjectFaithful, PlacedAt
    <3> QED BY <3>1, <3>2, <3>3, <3>4 DEF ObjectFaithful
  <2>2. ObjectFaithful(parcel', n + 1)
    <3>1. LeadsTo(parcel', o.parent, o.offset) = LeadsTo(parcel, o.parent, o.offset)
      BY <1>3, <1>4, <1>6
    <3>2. o.parent \in 0..(n + 1 - 1)
      BY <1>3, <1>4, <1>6
    <3>3. o.type = "reference" => PlacedAt(parcel', o.data, o.child, o.childOffset)
      BY <1>3, <1>4 DEF PlacedAt
    <3> QED BY <3>1, <3>2, <3>3, <1>3, <1>4, <1>6 DEF ObjectFaithful
  <2>3. \A i \in DOMAIN parcel' : ObjectFaithful(parcel', i)
    BY <2>1, <2>2, <1>4
  <2> QED BY <2>3, <1>2 DEF ObjectsFaithful, ObjectFaithful, LeadsTo
<1>12. BuffersOnce'
  <2> SUFFICES ASSUME NEW i \in 1..(n + 1), NEW j \in 1..(n + 1), i < j,
                      parcel'[i].type = "buffer", parcel'[j].type = "buffer"
               PROVE  parcel'[j].data.at \notin CellsOf(parcel'[i].data)
    BY <1>4 DEF BuffersOnce
  <2>1. CASE j \in 1..n
    <3>1. i \in 1..n /\ parcel'[i] = parcel[i] /\ parcel'[j] = parcel[j]
      BY <2>1, <1>4
    <3> QED BY <2>1, <3>1, <1>4 DEF BuffersOnce, ReferenceInv
  <2>2. CASE j = n + 1
    <3>1. i \in 1..n /\ parcel'[i] = parcel[i] /\ parcel'[j] = o
      BY <2>2, <1>4
    <3> QED BY <3>1, <1>3, <1>4
  <2> QED BY <2>1, <2>2, <1>4
<1>13. FromMemory'
  <2>1. InMemory' = InMemory
    BY <1>2 DEF InMemory
  <2>2. \A i \in DOMAIN parcel' : parcel'[i].data \in InMemory \union {NullRef}
    <3>1. o.data \in InMemory \union {NullRef}
      BY <1>3, <1>5 DEF FromMemory, ReferenceInv
    <3>2. \A i \in 1..n : parcel[i].data \in InMemory \union {NullRef}
      BY <1>4 DEF FromMemory, ReferenceInv
    <3>3. \A i \in 1..(n + 1) : i \in 1..n \/ i = n + 1
      BY <1>4
    <3> QED BY <3>1, <3>2, <3>3, <1>4
  <2>3. \A i \in DOMAIN Tail(stack) : Tail(stack)[i].buf \in InMemory \union {NullRef}
    <3>1. \A i \in DOMAIN Tail(stack) : Tail(stack)[i] = stack[i + 1] /\ i + 1 \in DOMAIN stack
      BY <1>5
    <3> QED BY <3>1 DEF FromMemory, ReferenceInv
  <2>4. \A i \in DOMAIN more : more[i].buf \in InMemory \union {NullRef}
    <3>1. CASE o.type = "buffer"
      <4>1. \A i \in 1..o.data.size : o.data.at + (i - 1) \in 1..Cells
        BY <1>3, <3>1, TargetCells
      <4>2. \A c \in 1..Cells : heap[c] \in InMemory \union {NullRef}
        BY DEF InMemory
      <4>3. DOMAIN more = 1..o.data.size
            /\ \A i \in 1..o.data.size : more[i].buf = heap[o.data.at + (i - 1)]
        BY <1>3, <3>1 DEF RefsOf
      <4> QED BY <4>1, <4>2, <4>3
    <3>2. CASE o.type # "buffer"
      BY <1>3, <3>2
    <3> QED BY <3>1, <3>2
  <2>5. \A i \in DOMAIN stack' : stack'[i].buf \in InMemory \union {NullRef}
    BY <2>3, <2>4, <1>9
  <2> QED BY <2>1, <2>2, <2>5 DEF FromMemory
<1>14. RefusalJustified'
  BY <1>2 DEF RefusalJustified, InMemory, ReferenceInv
<1>15. PendingFaithful'
  <2>1. \A i \in DOMAIN Tail(stack) :
           /\ Tail(stack)[i].parent \in 0..n
           /\ Tail(stack)[i].buf = LeadsTo(parcel, Tail(stack)[i].parent, Tail(stack)[i].offset)
    <3>1. \A i \in DOMAIN Tail(stack) : Tail(stack)[i] = stack[i + 1] /\ i + 1 \in DOMAIN stack
      BY <1>5
    <3> QED BY <3>1 DEF PendingFaithful, ReferenceInv, n
  <2>2. \A i \in DOMAIN Tail(stack) :
           /\ Tail(stack)[i].parent \in 0..(n + 1)
           /\ Tail(stack)[i].buf = LeadsTo(parcel', Tail(stack)[i].parent, Tail(stack)[i].offset)
    BY <2>1, <1>4
  <2>3. \A i \in DOMAIN more :
           /\ more[i].parent \in 0..(n + 1)
           /\ more[i].buf = LeadsTo(parcel', more[i].parent, more[i].offset)
    <3>1. CASE o.type = "buffer"
      <4>1. \A i \in DOMAIN more : more[i] = [buf |-> heap[o.data.at + (i - 1)],
                                              parent |-> n + 1, offset |-> i - 1]
        BY <1>3, <3>1 DEF RefsOf
      <4>2. \A f : LeadsTo(parcel', n + 1, f) = heap[o.data.at + f]
        BY <1>4 DEF LeadsTo
      <4> QED BY <4>1, <4>2, <1>4
    <3>2. CASE o.type # "buffer"
      BY <1>3, <3>2
    <3> QED BY <3>1, <3>2
  <2>4. \A i \in DOMAIN stack' :
           /\ stack'[i].parent \in 0..(n + 1)
           /\ stack'[i].buf = LeadsTo(parcel', stack'[i].parent, stack'[i].offset)
    BY <2>2, <2>3, <1>9
  <2> QED BY <2>4, <1>2, <1>4 DEF PendingFaithful, LeadsTo
<1>16. ReaderFollowsWriter'
  <2>1. PICK S : Replays(S, parcel) /\ Slots(stack) = S[n]
    BY DEF ReaderFollowsWriter, ReferenceInv, n
  <2> DEFINE top == Opened(parcel', n + 1) \o Tail(S[n])
             T == [k \in 0..(n + 1) |-> IF k = n + 1 THEN top ELSE S[k]]
  <2>2. /\ Tail(S[n]) = Slots(Tail(stack)) /\ S[n] # <<>>
        /\ Head(S[n]) = [parent |-> o.parent, offset |-> o.offset]
    BY <2>1, <1>3, <1>5, SlotsOfTail DEF r
  <2>3. Slots(stack') = top
    <3>1. CASE o.type = "buffer"
      <4>1. n + 1 \in Nat /\ o.data \in Targets /\ ReferenceTypeOK
        BY <3>1, <1>3, <1>4 DEF ReferenceInv
      <4>2. Slots(RefsOf(o.data, n + 1) \o Tail(stack))
              = RefsAt(n + 1, o.data.size) \o Slots(Tail(stack))
        BY <4>1, <1>5, RefsOfSlots
      <4>3. stack' = RefsOf(o.data, n + 1) \o Tail(stack)
        BY <3>1, <1>3
      <4>4. top = RefsAt(n + 1, o.data.size) \o Slots(Tail(stack))
        BY <3>1, <2>2, <1>4 DEF Opened
      <4> QED BY <4>2, <4>3, <4>4
    <3>2. CASE o.type # "buffer"
      <4>1. stack' = Tail(stack)
        BY <3>2, <1>3, <1>5, ConcatEmptySeq
      <4>2. Slots(Tail(stack)) \in Seq(Slot)
        BY <1>5, SlotsOf
      <4>3. top = Slots(Tail(stack))
        BY <4>2, <3>2, <2>2, <1>4, ConcatEmptySeq DEF Opened
      <4> QED BY <4>1, <4>3
    <3> QED BY <3>1, <3>2
  <2>4. top \in Seq(Slot)
    BY <2>3, <1>8, SlotsOf
  <2> HIDE DEF top
  <2>5. /\ S \in [0..n -> Seq(Slot)]
        /\ S[0] = <<[parent |-> 0, offset |-> 0]>>
        /\ \A k \in 1..n :
              /\ S[k - 1] # <<>>
              /\ Head(S[k - 1]) = [parent |-> parcel[k].parent, offset |-> parcel[k].offset]
              /\ S[k] = Opened(parcel, k) \o Tail(S[k - 1])
    BY <2>1 DEF Replays, n
  <2>6. T[n + 1] = top /\ \A k \in 0..n : T[k] = S[k]
    BY <1>4
  <2>7. T \in [0..(n + 1) -> Seq(Slot)]
    BY <2>4, <2>5, <1>4
  <2> HIDE DEF T
  <2>8. ASSUME NEW k \in 1..(n + 1)
        PROVE  /\ T[k - 1] # <<>>
               /\ Head(T[k - 1]) = [parent |-> parcel'[k].parent, offset |-> parcel'[k].offset]
               /\ T[k] = Opened(parcel', k) \o Tail(T[k - 1])
    <3>1. CASE k = n + 1
      <4>1. T[k - 1] = S[n] /\ T[k] = top /\ parcel'[k] = o
        BY <3>1, <2>6, <1>4
      <4> QED BY <4>1, <3>1, <2>2 DEF top
    <3>2. CASE k \in 1..n
      <4>1. T[k - 1] = S[k - 1] /\ T[k] = S[k] /\ parcel'[k] = parcel[k]
        BY <3>2, <2>6, <1>4
      <4> QED BY <4>1, <3>2, <2>5 DEF Opened
    <3>3. k = n + 1 \/ k \in 1..n
      BY <2>8, <1>4
    <3> QED BY <3>1, <3>2, <3>3
  <2>9. T[0] = <<[parent |-> 0, offset |-> 0]>>
    BY <2>5, <2>6, <1>4
  <2>10. Replays(T, parcel')
    BY <2>7, <2>8, <2>9, <1>4 DEF Replays
  <2>11. Slots(stack') = T[Len(parcel')] /\ reading' = 0
    BY <2>3, <2>6, <1>2, <1>4
  <2> QED BY <2>10, <2>11 DEF ReaderFollowsWriter, Replays, Opened, Slots
<1>17. ReadFaithful'
  BY <1>2 DEF ReadFaithful, ReferenceInv, ReferenceTypeOK
<1> QED BY <1>10, <1>11, <1>12, <1>15, <1>16, <1>17, <1>13, <1>14 DEF ReferenceInv

(* A failing write leaves everything as it was; findBuffer's refusal has   *)
(* met a target that begins inside a buffer and lies in none.              *)
LEMMA RefusedPreserves ==
    ASSUME ReferenceInv, reading = 0, stack # <<>>, Refused
    PROVE  ReferenceInv'
<1>1. /\ UNCHANGED <<heap, root, parcel, stack, reading, readGraph>>
      /\ status' \in {"BAD_VALUE", "NO_MEMORY"}
  BY DEF Refused
<1>2. reading = 0
  OBVIOUS
<1>3. ReferenceTypeOK'
  BY <1>2, <1>1 DEF ReferenceInv, ReferenceTypeOK
<1>4. PendingFaithful'
  <2>1. PendingFaithful
    BY DEF ReferenceInv
  <2> QED BY <2>1, <1>1 DEF PendingFaithful, LeadsTo
<1>5. ReaderFollowsWriter'
  <2>1. PICK S : Replays(S, parcel) /\ Slots(stack) = S[Len(parcel)]
    BY <1>2 DEF ReferenceInv, ReaderFollowsWriter
  <2>2. Replays(S, parcel') /\ Slots(stack') = S[Len(parcel')] /\ reading' = 0
    BY <2>1, <1>1, <1>2
  <2> QED BY <2>2 DEF ReaderFollowsWriter, Replays, Opened, Slots
<1> USE DEF ReferenceInv
<1>6. ObjectsFaithful' /\ BuffersOnce'
  BY <1>1 DEF ObjectsFaithful, ObjectFaithful, PlacedAt, LeadsTo, BuffersOnce
<1>7. FromMemory' /\ ReadFaithful'
  BY <1>1 DEF FromMemory, InMemory, ReadFaithful, SamePlace, LeadsTo
<1>8. RefusalJustified'
  <2> SUFFICES ASSUME status' = "BAD_VALUE"
               PROVE  \E t, u \in InMemory : t.at \in CellsOf(u) /\ ~Inside(t, u)
    BY <1>1 DEF RefusalJustified, InMemory
  <2> DEFINE t == Head(stack).buf
  <2>1. t # NullRef /\ findBuffer(t) = {} /\ BadPointer(t)
    BY DEF Refused
  <2>2. PICK i \in DOMAIN parcel : IsBuffer(i) /\ t.at \in CellsOf(parcel[i].data)
    BY <2>1 DEF BadPointer
  <2>3. ~Inside(t, parcel[i].data)
    BY <2>1, <2>2 DEF findBuffer
  <2>4. parcel[i].data \in InMemory
    <3>1. parcel[i].data \in Targets
      BY <2>2 DEF ObjectsFaithful, ObjectFaithful, IsBuffer
    <3> QED BY <3>1, TargetCells DEF FromMemory
  <2>5. t \in InMemory
    <3>1. 1 \in DOMAIN stack /\ Head(stack) = stack[1]
      BY DEF ReferenceTypeOK
    <3> QED BY <2>1, <3>1 DEF FromMemory
  <2> QED BY <2>2, <2>3, <2>4, <2>5
<1> QED BY <1>3, <1>4, <1>6, <1>7, <1>5, <1>8

(* Every write preserves the invariant.                                    *)
LEMMA WritePreserves ==
    ASSUME ReferenceInv, reading = 0, stack # <<>>, WriteReference(Head(stack))
    PROVE  ReferenceInv'
<1>1. ReferenceTypeOK /\ ObjectsFaithful
  BY DEF ReferenceInv
<1> QED BY <1>1, WriteShape, AppendedPreserves, RefusedPreserves

(* The parcel is sent with every reference written.                        *)
LEMMA SendPreserves == ASSUME ReferenceInv, Send PROVE ReferenceInv'
<1> USE DEF ReferenceInv
<1>1. /\ reading = 0 /\ stack = <<>> /\ reading' = 1 /\ status = "OK"
      /\ stack' = <<[parent |-> 0, offset |-> 0]>>
      /\ UNCHANGED <<heap, root, parcel, readGraph, status>>
  BY DEF Send
<1>2. ReferenceTypeOK' /\ PendingFaithful'
  BY <1>1 DEF ReferenceTypeOK, PendingFaithful
<1>3. ObjectsFaithful' /\ BuffersOnce'
  BY <1>1 DEF ObjectsFaithful, ObjectFaithful, PlacedAt, LeadsTo, BuffersOnce
<1>4. FromMemory' /\ RefusalJustified' /\ ReadFaithful'
  BY <1>1 DEF FromMemory, RefusalJustified, InMemory, ReadFaithful, ReferenceTypeOK
<1>5. ReaderFollowsWriter'
  <2>1. PICK S : Replays(S, parcel) /\ Slots(stack) = S[Len(parcel)]
    BY <1>1 DEF ReaderFollowsWriter
  <2>2. S[Len(parcel)] = <<>>
    BY <2>1, <1>1 DEF Slots
  <2>3. Len(parcel) \in Nat /\ S[0] = stack'
    BY <2>1, <1>1 DEF Replays, ReferenceTypeOK
  <2>4. /\ Replays(S, parcel') /\ S[Len(parcel')] = <<>>
        /\ reading' \in 1..(Len(parcel') + 1) /\ stack' = S[reading' - 1]
    BY <2>1, <2>2, <2>3, <1>1
  <2>5. reading' # 0
    BY <1>1
  <2> QED BY <2>4, <2>5 DEF ReaderFollowsWriter, Replays, Opened, Slots
<1> QED BY <1>2, <1>3, <1>5, <1>4

(* A read finds the object the writer wrote for this reference.            *)
LEMMA ReadFinds ==
    ASSUME ReferenceInv, reading > 0, stack # <<>>
    PROVE  /\ reading \in DOMAIN parcel
           /\ parcel[reading].parent = Head(stack).parent
           /\ parcel[reading].offset = Head(stack).offset
           /\ \E S : /\ Replays(S, parcel) /\ S[Len(parcel)] = <<>>
                     /\ S[reading] = Opened(parcel, reading) \o Tail(stack)
                     /\ Tail(stack) \in Seq(Slot)
<1>1. reading \in Nat /\ parcel \in Seq(Objects)
  BY DEF ReferenceInv, ReferenceTypeOK
<1>2. PICK S : /\ Replays(S, parcel) /\ S[Len(parcel)] = <<>>
               /\ reading \in 1..(Len(parcel) + 1) /\ stack = S[reading - 1]
  BY <1>1 DEF ReferenceInv, ReaderFollowsWriter
<1>3. reading # Len(parcel) + 1
  BY <1>1, <1>2
<1>4. reading \in 1..Len(parcel) /\ DOMAIN parcel = 1..Len(parcel)
  BY <1>1, <1>2, <1>3
<1>5. /\ Head(S[reading - 1]) = [parent |-> parcel[reading].parent,
                                 offset |-> parcel[reading].offset]
      /\ S[reading] = Opened(parcel, reading) \o Tail(S[reading - 1])
  BY <1>2, <1>4 DEF Replays
<1>6. S[reading - 1] \in Seq(Slot)
  BY <1>1, <1>2, <1>4 DEF Replays
<1>7. Tail(stack) \in Seq(Slot)
  BY <1>2, <1>6
<1>8. /\ parcel[reading].parent = Head(stack).parent
      /\ parcel[reading].offset = Head(stack).offset
  BY <1>2, <1>5
<1>9. /\ Replays(S, parcel) /\ S[Len(parcel)] = <<>>
      /\ S[reading] = Opened(parcel, reading) \o Tail(stack)
      /\ Tail(stack) \in Seq(Slot)
  BY <1>2, <1>5, <1>7
<1> QED BY <1>4, <1>8, <1>9

(* Every read preserves the invariant: the reader moves on by one object.  *)
LEMMA ReadPreserves ==
    ASSUME ReferenceInv, reading > 0, stack # <<>>, ReadReference(Head(stack))
    PROVE  ReferenceInv'
<1> DEFINE r == Head(stack)
           o == parcel[reading]
           child == IF o.type = "buffer" THEN reading ELSE o.child
<1>1. reading \in DOMAIN parcel /\ o.parent = r.parent /\ o.offset = r.offset
  BY ReadFinds
<1>2. /\ readGraph' = readGraph \union {<<r.parent, r.offset, child, o.childOffset>>}
      /\ stack' = (IF o.type = "buffer" THEN RefsAt(reading, o.data.size) \o Tail(stack)
                   ELSE Tail(stack))
      /\ reading' = reading + 1
      /\ UNCHANGED <<heap, root, parcel, status>>
  BY <1>1, Zenon DEF ReadReference
<1>3. /\ reading \in Nat /\ reading' # 0 /\ parcel \in Seq(Objects)
      /\ DOMAIN parcel = 1..Len(parcel) /\ o \in Objects
  BY <1>1, <1>2 DEF ReferenceInv, ReferenceTypeOK
<1>4. ReferenceTypeOK'
  <2>1. reading' \in Nat
    BY <1>2, <1>3
  <2> QED BY <2>1, <1>2, <1>3 DEF ReferenceInv, ReferenceTypeOK
<1>5. PendingFaithful'
  BY <1>3 DEF PendingFaithful
<1>6. ObjectsFaithful' /\ BuffersOnce'
  BY <1>2 DEF ReferenceInv, ObjectsFaithful, ObjectFaithful, PlacedAt, LeadsTo, BuffersOnce
<1>7. FromMemory' /\ RefusalJustified'
  BY <1>2, <1>3 DEF ReferenceInv, FromMemory, RefusalJustified, InMemory
<1>8. ReaderFollowsWriter'
  <2>1. PICK S : /\ Replays(S, parcel) /\ S[Len(parcel)] = <<>>
                 /\ S[reading] = Opened(parcel, reading) \o Tail(stack)
                 /\ Tail(stack) \in Seq(Slot)
    BY ReadFinds
  <2>2. S[reading] = stack'
    BY <2>1, <1>2, ConcatEmptySeq DEF Opened
  <2>3. reading + 1 \in 1..(Len(parcel) + 1) /\ (reading + 1) - 1 = reading
    BY <1>1, <1>3
  <2>4. parcel' = parcel /\ reading' = reading + 1
    BY <1>2
  <2>5. /\ Replays(S, parcel') /\ S[Len(parcel')] = <<>>
        /\ reading' \in 1..(Len(parcel') + 1) /\ stack' = S[reading' - 1]
    BY <2>1, <2>2, <2>3, <2>4
  <2> QED BY <2>5, <1>3 DEF ReaderFollowsWriter, Replays, Opened, Slots
<1>9. ReadFaithful'
  <2>1. ObjectFaithful(parcel, reading)
    BY <1>1 DEF ReferenceInv, ObjectsFaithful
  <2>2. LeadsTo(parcel, r.parent, r.offset) = o.data
    BY <2>1, <1>1 DEF ObjectFaithful
  <2>3. SamePlace(o.data, child, o.childOffset)
    <3>1. CASE o.type = "null"
      BY <3>1, <2>1 DEF ObjectFaithful, SamePlace
    <3>2. CASE o.type = "reference"
      <4>1. child = o.child
        BY <3>2
      <4>2. PlacedAt(parcel, o.data, o.child, o.childOffset) /\ o.child # 0
        BY <3>2, <2>1, <1>3 DEF ObjectFaithful, PlacedAt
      <4> HIDE DEF child
      <4> QED BY <4>1, <4>2 DEF PlacedAt, SamePlace
    <3>3. CASE o.type = "buffer"
      <4>1. child = reading /\ reading # 0
        BY <3>3, <1>1, <1>3
      <4>2. o.data \in Targets /\ o.childOffset = 0
        BY <3>3, <2>1 DEF ObjectFaithful
      <4>3. o.data.at \in Nat /\ o.data.size \in Nat /\ o.data # NullRef
        BY <4>2, TargetCells
      <4> HIDE DEF child
      <4> QED BY <4>1, <4>2, <4>3 DEF SamePlace, Inside
    <3> QED BY <3>1, <3>2, <3>3, <1>3 DEF Objects
  <2> HIDE DEF child, r, o
  <2>4. \A e \in readGraph' : SamePlace(LeadsTo(parcel, e[1], e[2]), e[3], e[4])
    BY <2>2, <2>3, <1>2 DEF ReferenceInv, ReadFaithful
  <2> QED BY <2>4, <1>2 DEF ReadFaithful, SamePlace, LeadsTo
<1> QED BY <1>4, <1>5, <1>6, <1>8, <1>9, <1>7 DEF ReferenceInv

(* The invariant holds in every reachable state.                           *)
LEMMA ReferenceInvariant == ReferenceSpec => []ReferenceInv
<1>1. ReferenceInit => ReferenceInv
  <2> SUFFICES ASSUME ReferenceInit PROVE ReferenceInv
    OBVIOUS
  <2> DEFINE first == [buf |-> root, parent |-> 0, offset |-> 0]
             slot == [parent |-> 0, offset |-> 0]
  <2>1. /\ heap \in [1..Cells -> Refs] /\ root \in Refs
        /\ parcel = <<>> /\ stack = <<first>> /\ reading = 0 /\ readGraph = {}
        /\ status = "OK"
    BY DEF ReferenceInit, Refs
  <2>2. first \in Pending /\ slot \in Slot
    BY <2>1 DEF Pending, Slot
  <2>3. ReferenceTypeOK
    BY <2>1, <2>2 DEF ReferenceTypeOK
  <2>4. ObjectsFaithful /\ BuffersOnce /\ ReadFaithful /\ RefusalJustified
    BY <2>1 DEF ObjectsFaithful, BuffersOnce, ReadFaithful, RefusalJustified
  <2>5. PendingFaithful
    <3>1. DOMAIN stack = {1} /\ stack[1] = first /\ Len(parcel) = 0
      BY <2>1
    <3> QED BY <3>1 DEF PendingFaithful, LeadsTo
  <2>6. FromMemory
    <3>1. DOMAIN stack = {1} /\ stack[1] = first /\ DOMAIN parcel = {}
      BY <2>1
    <3> QED BY <3>1 DEF FromMemory, InMemory
  <2>7. ReaderFollowsWriter
    <3> DEFINE S == [k \in 0..0 |-> <<slot>>]
    <3>1. Len(parcel) = 0 /\ S[0] = <<slot>> /\ S \in [0..0 -> Seq(Slot)]
      BY <2>1, <2>2
    <3>2. Replays(S, parcel)
      BY <3>1 DEF Replays
    <3>3. Slots(stack) = <<slot>>
      BY <2>1 DEF Slots
    <3> HIDE DEF S
    <3> QED BY <3>1, <3>2, <3>3, <2>1 DEF ReaderFollowsWriter
  <2> QED BY <2>3, <2>4, <2>5, <2>7, <2>6 DEF ReferenceInv
<1>2. ReferenceInv /\ [ReferenceNext]_referenceVars => ReferenceInv'
  <2> SUFFICES ASSUME ReferenceInv, [ReferenceNext]_referenceVars PROVE ReferenceInv'
    OBVIOUS
  <2>1. CASE writeReferenceToParcel \/ writeEmbeddedReferenceToParcel
    BY <2>1, WritePreserves DEF writeReferenceToParcel, writeEmbeddedReferenceToParcel
  <2>2. CASE Send
    BY <2>2, SendPreserves
  <2>3. CASE readReferenceFromParcel \/ readEmbeddedReferenceFromParcel
    BY <2>3, ReadPreserves DEF readReferenceFromParcel, readEmbeddedReferenceFromParcel
  <2>4. CASE UNCHANGED referenceVars
    <3> USE <2>4 DEF referenceVars, ReferenceInv
    <3>1. ReferenceTypeOK' /\ BuffersOnce'
      BY DEF ReferenceTypeOK, BuffersOnce
    <3>2. ObjectsFaithful' /\ PendingFaithful'
      BY DEF ObjectsFaithful, ObjectFaithful, PlacedAt, LeadsTo, PendingFaithful
    <3>3. FromMemory' /\ RefusalJustified' /\ ReadFaithful'
      BY DEF FromMemory, RefusalJustified, InMemory, ReadFaithful, SamePlace, LeadsTo
    <3>4. ReaderFollowsWriter'
      <4>1. UNCHANGED parcel /\ UNCHANGED stack /\ UNCHANGED reading
        OBVIOUS
      <4>2. Slots(stack)' = Slots(stack)
        BY <4>1 DEF Slots
      <4>3. \A S : Replays(S, parcel)' <=> Replays(S, parcel)
        BY <4>1 DEF Replays, Opened
      <4> QED BY <4>1, <4>2, <4>3, Zenon DEF ReaderFollowsWriter
    <3> QED BY <3>1, <3>2, <3>4, <3>3
  <2> QED BY <2>1, <2>2, <2>3, <2>4 DEF ReferenceNext
<1> QED BY <1>1, <1>2, PTL DEF ReferenceSpec

(***************************************************************************)
(* A structure of references that is sent arrives as it was: null where it *)
(* was null, each other reference at the place in a buffer it led to, and  *)
(* no object missed, for every memory, cyclic ones included, and all sizes *)
(* of the types; if targets do not overlap, each is sent once.  A refusal  *)
(* of findBuffer has met targets that overlap in part (HidlBinderSupport.h,*)
(* the order in which references are written and read).                    *)
(***************************************************************************)
THEOREM ReferencesArrive == ReferenceSpec => []ReferencesRoundTrip
<1>1. ReferenceInv => ReferencesRoundTrip
  <2> SUFFICES ASSUME ReferenceInv PROVE ReferencesRoundTrip
    OBVIOUS
  <2>1. ASSUME reading > 0, stack = <<>> PROVE reading = Len(parcel) + 1
    <3>1. reading \in Nat /\ parcel \in Seq(Objects)
      BY DEF ReferenceInv, ReferenceTypeOK
    <3>2. PICK S : /\ Replays(S, parcel)
                   /\ reading \in 1..(Len(parcel) + 1) /\ stack = S[reading - 1]
      BY <2>1, <3>1 DEF ReferenceInv, ReaderFollowsWriter
    <3>3. reading \in 1..Len(parcel) => S[reading - 1] # <<>>
      BY <3>2 DEF Replays
    <3> QED BY <2>1, <3>1, <3>2, <3>3
  <2>2. ASSUME NEW i \in DOMAIN parcel, NEW j \in DOMAIN parcel,
               IsBuffer(i), IsBuffer(j), i < j
        PROVE  /\ parcel[j].data.at \notin CellsOf(parcel[i].data)
               /\ Separate => CellsOf(parcel[i].data) \cap CellsOf(parcel[j].data) = {}
    <3> DEFINE t == parcel[i].data
               u == parcel[j].data
    <3>1. u.at \notin CellsOf(t)
      BY <2>2 DEF ReferenceInv, BuffersOnce, IsBuffer
    <3>2. t \in Targets /\ u \in Targets
      BY <2>2 DEF ReferenceInv, ObjectsFaithful, ObjectFaithful, IsBuffer
    <3>3. t \in InMemory /\ u \in InMemory
      BY <3>2, TargetCells DEF ReferenceInv, FromMemory
    <3>4. u.at \in CellsOf(u)
      BY <3>2, TargetCells DEF CellsOf
    <3> HIDE DEF t, u
    <3>5. t # u
      BY <3>1, <3>4
    <3> QED BY <3>1, <3>3, <3>5 DEF Separate, t, u
  <2>3. reading > 0 => status = "OK"
    BY DEF ReferenceInv, ReferenceTypeOK
  <2>4. \A e \in readGraph : SamePlace(Target(e[1], e[2]), e[3], e[4])
    BY DEF ReferenceInv, ReadFaithful, LeadsTo, Target
  <2>5. RefusalJustified
    BY DEF ReferenceInv
  <2> QED BY <2>1, <2>2, <2>3, <2>4, <2>5 DEF RefusalJustified, ReferencesRoundTrip
<1> QED BY <1>1, ReferenceInvariant, PTL
==============================================================================
