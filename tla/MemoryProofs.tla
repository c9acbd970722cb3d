---------------------------- MODULE MemoryProofs ----------------------------
(***************************************************************************)
(* The page allocator of memory.c and BitmapScan of bitmap.c, for every    *)
(* size of the pools and of the address spaces and any number of           *)
(* processes.                                                              *)
(***************************************************************************)
EXTENDS PageSteps, FiniteSetTheorems

-----------------------------------------------------------------------------
\* What n calls of GetOnePhysicPage return.

\* Of the elements of a set of n numbers, one has none of them below it, one
\* has one, and so on up to n - 1.
LEMMA Ranked ==
    ASSUME NEW S \in SUBSET Nat, IsFiniteSet(S), NEW j \in Nat, j < Cardinality(S)
    PROVE  \E i \in S : Cardinality({k \in S : k < i}) = j
<1> DEFINE Below(i) == {k \in S : k < i}
           J == {m \in Nat : m < Cardinality(S) => \E i \in S : Cardinality(Below(i)) = m}
<1>1. \A i \in S : IsFiniteSet(Below(i)) /\ Cardinality(Below(i)) \in Nat
    <2>1. \A i \in S : Below(i) \subseteq S
        OBVIOUS
    <2> HIDE DEF Below
    <2> QED
        BY <2>1, FS_Subset, FS_CardinalityType, Zenon
<1>2. 0 \in J
    <2>1. SUFFICES ASSUME 0 < Cardinality(S) PROVE \E i \in S : Cardinality(Below(i)) = 0
        OBVIOUS
    <2>2. S # {}
        BY <2>1, FS_EmptySet
    <2>3. PICK i \in S : \A y \in S : i <= y
        BY <2>2, LeastElement, Zenon
    <2>4. Below(i) = {}
        <3>1. ASSUME NEW y \in S PROVE ~ (y < i)
            <4>1. y \in Nat /\ i \in Nat /\ i <= y
                BY <2>3, Zenon
            <4> QED
                BY <4>1
        <3> QED
            BY <3>1, Zenon
    <2>5. Cardinality(Below(i)) = 0
        BY <2>4, FS_EmptySet, Zenon
    <2> QED
        BY <2>5, Zenon
<1>3. ASSUME NEW m \in J PROVE m + 1 \in J
    <2>1. SUFFICES ASSUME m + 1 < Cardinality(S)
                   PROVE  \E i \in S : Cardinality(Below(i)) = m + 1
        OBVIOUS
    <2>2. PICK i \in S : Cardinality(Below(i)) = m
        <3>1. Cardinality(S) \in Nat /\ m \in Nat
            BY FS_CardinalityType, Zenon
        <3>2. m < Cardinality(S)
            BY <2>1, <3>1
        <3> QED
            BY <3>2, Zenon
    <2> DEFINE above == {k \in S : i < k}
    <2>3. i \notin Below(i)
        OBVIOUS
    <2>4. Cardinality(Below(i) \cup {i}) = m + 1
        <3> HIDE DEF Below
        <3> QED
            BY <1>1, <2>2, <2>3, FS_AddElement, Zenon
    <2>5. above # {}
        <3>1. SUFFICES ASSUME above = {} PROVE FALSE
            OBVIOUS
        <3>2. S = Below(i) \cup {i}
            <4>1. ASSUME NEW y \in S PROVE y < i \/ y = i
                <5>1. y \in Nat /\ i \in Nat /\ ~ (i < y)
                    BY <3>1, Zenon
                <5> QED
                    BY <5>1
            <4> QED
                BY <4>1, Zenon
        <3>3. Cardinality(S) = m + 1
            BY <2>4, <3>2, Zenon
        <3> QED
            BY <2>1, <3>3
    <2>6. PICK x \in above : \A y \in above : x <= y
        <3>1. above \in SUBSET Nat
            BY Zenon
        <3> HIDE DEF above
        <3> QED
            BY <2>5, <3>1, LeastElement, Zenon
    <2>7. x \in S /\ Below(x) = Below(i) \cup {i}
        <3>1. x \in S /\ i < x
            BY Zenon
        <3>2. ASSUME NEW y \in S PROVE y < x <=> y < i \/ y = i
            <4>1. y \in Nat /\ i \in Nat /\ x \in Nat
                BY <3>1, Zenon
            <4>2. i < y => x <= y
                BY <2>6, Zenon
            <4> QED
                BY <3>1, <4>1, <4>2
        <3> QED
            BY <3>1, <3>2, Zenon
    <2> QED
        BY <2>4, <2>7, Zenon
<1>4. J = Nat
    <2>1. J \in SUBSET Nat
        OBVIOUS
    <2> HIDE DEF J
    <2> QED
        BY <1>2, <1>3, <2>1, LoopInduction, Zenon
<1> QED
    BY <1>4, Zenon

\* What n calls of GetOnePhysicPage return: n different clear bits.
LEMMA LowestFacts ==
    ASSUME NEW S \in SUBSET Nat, IsFiniteSet(S), NEW n \in Nat, n <= Cardinality(S)
    PROVE  /\ \A j \in 1..n : Lowest(S, n)[j] \in S
           /\ \A j \in 1..n : Cardinality({k \in S : k < Lowest(S, n)[j]}) = j - 1
           /\ \A j, k \in 1..n : Lowest(S, n)[j] = Lowest(S, n)[k] => j = k
<1> DEFINE Rank(i) == Cardinality({k \in S : k < i})
<1>1. ASSUME NEW j \in 1..n
      PROVE  Lowest(S, n)[j] \in S /\ Rank(Lowest(S, n)[j]) = j - 1
    <2>1. j - 1 \in Nat /\ j - 1 < Cardinality(S)
        BY FS_CardinalityType
    <2>2. \E i \in S : Rank(i) = j - 1
        BY <2>1, Ranked, Zenon
    <2>3. Lowest(S, n)[j] = CHOOSE i \in S : Rank(i) = j - 1
        BY Zenon DEF Lowest
    <2> HIDE DEF Rank
    <2> QED
        BY <2>2, <2>3, Zenon
<1>2. ASSUME NEW j \in 1..n, NEW k \in 1..n, Lowest(S, n)[j] = Lowest(S, n)[k]
      PROVE  j = k
    <2> HIDE DEF Rank
    <2>1. j - 1 = k - 1
        BY <1>1, <1>2, Zenon
    <2> QED
        BY <2>1
<1> QED
    BY <1>1, <1>2, Zenon

-----------------------------------------------------------------------------
\* What the operations take from the bitmaps.

LEMMA FreeBits ==
    ASSUME NEW pool, NEW len \in Nat
    PROVE  /\ Free(pool, len) \in SUBSET Nat /\ IsFiniteSet(Free(pool, len))
           /\ Free(pool, len) \in SUBSET (0..len * ByteBits - 1)
<1>1. len * ByteBits \in Nat
    BY BitmapAssumption, Times, Zenon
<1>2. IsFiniteSet(0..len * ByteBits - 1)
    BY <1>1, FS_Interval
<1>3. Free(pool, len) \in SUBSET (0..len * ByteBits - 1)
    BY Zenon DEF Free
<1>4. IsFiniteSet(Free(pool, len))
    BY <1>2, <1>3, FS_Subset, Zenon
<1> QED
    BY <1>1, <1>3, <1>4

\* The bits for pages v to v + n - 1, in order.
Assigned(S, n, v) == [i \in v..v + n - 1 |-> Lowest(S, n)[i - v + 1]]

LEMMA AssignedFacts ==
    ASSUME NEW S \in SUBSET Nat, IsFiniteSet(S), NEW n \in Nat, n <= Cardinality(S),
           NEW v \in Nat
    PROVE  LET set == v..v + n - 1
               g == Assigned(S, n, v)
           IN  /\ \A i \in set : g[i] \in S
               /\ \A i, j \in set : g[i] = g[j] => i = j
               /\ {g[i] : i \in set} = {Lowest(S, n)[j] : j \in 1..n}
<1> DEFINE set == v..v + n - 1
           g == Assigned(S, n, v)
           got == Lowest(S, n)
<1>1. /\ \A j \in 1..n : got[j] \in S
      /\ \A j, k \in 1..n : got[j] = got[k] => j = k
    BY LowestFacts, Zenon
<1>2. \A i \in set : g[i] = got[i - v + 1]
    BY Zenon DEF Assigned
<1>3. \A i \in set : i - v + 1 \in 1..n
    OBVIOUS
<1>4. \A j \in 1..n : v + j - 1 \in set /\ (v + j - 1) - v + 1 = j
    OBVIOUS
<1>5. \A i, j \in set : i - v + 1 = j - v + 1 => i = j
    OBVIOUS
<1> HIDE DEF g, got, set
<1>6. \A i \in set : g[i] \in S
    BY <1>1, <1>2, <1>3, Zenon
<1>7. \A i, j \in set : g[i] = g[j] => i = j
    BY <1>1, <1>2, <1>3, <1>5, Zenon
<1>8. \A j \in 1..n : g[v + j - 1] = got[j]
    BY <1>2, <1>4, Zenon
<1>9. {g[i] : i \in set} = {got[j] : j \in 1..n}
    <2>1. \A i \in set : \E j \in 1..n : g[i] = got[j]
        BY <1>2, <1>3, Zenon
    <2>2. \A j \in 1..n : \E i \in set : g[i] = got[j]
        BY <1>4, <1>8, Zenon
    <2> QED
        BY <2>1, <2>2
<1> QED
    BY <1>6, <1>7, <1>9, Zenon DEF g, got, set

\* The frames for the page tables that are missing, in order.
TableOf(S, M) == [d \in M |-> Lowest(S, Cardinality(M))[Cardinality({e \in M : e <= d})]]

LEMMA TableOfFacts ==
    ASSUME NEW S \in SUBSET Nat, IsFiniteSet(S), NEW M \in SUBSET Nat, IsFiniteSet(M),
           Cardinality(M) <= Cardinality(S)
    PROVE  LET tb == TableOf(S, M)
           IN  /\ \A d \in M : tb[d] \in S
               /\ \A d, e \in M : tb[d] = tb[e] => d = e
               /\ {tb[d] : d \in M}
                    = {Lowest(S, Cardinality(M))[j] : j \in 1..Cardinality(M)}
<1> DEFINE tb == TableOf(S, M)
           n == Cardinality(M)
           got == Lowest(S, n)
           Upto(d) == {e \in M : e <= d}
           Below(d) == {e \in M : e < d}
           Rank(d) == Cardinality(Upto(d))
<1>1. n \in Nat
    BY FS_CardinalityType, Zenon
<1>2. /\ \A j \in 1..n : got[j] \in S
      /\ \A j, k \in 1..n : got[j] = got[k] => j = k
    <2> HIDE DEF n
    <2>1. n <= Cardinality(S)
        BY Zenon DEF n
    <2> QED
        BY <1>1, <2>1, LowestFacts, Zenon
<1>3. \A d \in M : tb[d] = got[Rank(d)]
    BY Zenon DEF TableOf
<1> HIDE DEF tb, got
<1>4. ASSUME NEW d \in M
      PROVE  Rank(d) \in 1..n /\ Rank(d) = Cardinality(Below(d)) + 1
    <2>1. Upto(d) = Below(d) \cup {d} /\ d \notin Below(d) /\ d \in M \ Below(d)
        <3>1. \A e \in M : e <= d <=> e < d \/ e = d
            <4>1. \A e \in M : e \in Nat /\ d \in Nat
                BY Zenon
            <4> QED
                BY <4>1
        <3>2. ~ (d < d)
            <4>1. d \in Nat
                BY Zenon
            <4> QED
                BY <4>1
        <3> QED
            BY <3>1, <3>2, Zenon
    <2>2. Upto(d) \in SUBSET M /\ Below(d) \in SUBSET M
        BY Zenon
    <2> HIDE DEF Upto, Below
    <2>3. IsFiniteSet(Below(d)) /\ IsFiniteSet(Upto(d)) /\ Cardinality(Upto(d)) <= n
        BY <2>2, FS_Subset, Zenon
    <2>4. Cardinality(Upto(d)) = Cardinality(Below(d)) + 1
        BY <2>1, <2>3, FS_AddElement, Zenon
    <2>5. Cardinality(Below(d)) \in Nat
        BY <2>3, FS_CardinalityType, Zenon
    <2> QED
        BY <1>1, <2>3, <2>4, <2>5
<1>5. ASSUME NEW j \in 1..n PROVE \E d \in M : Rank(d) = j
    <2>1. j - 1 \in Nat /\ j - 1 < Cardinality(M)
        BY <1>1
    <2>2. PICK d \in M : Cardinality(Below(d)) = j - 1
        BY <2>1, Ranked, Zenon
    <2>3. Rank(d) = (j - 1) + 1
        BY <1>4, <2>2, Zenon
    <2> HIDE DEF Rank
    <2> QED
        BY <1>1, <2>3
<1>6. ASSUME NEW d \in M, NEW e \in M, d < e PROVE Rank(d) < Rank(e)
    <2>1. Upto(d) \in SUBSET Below(e)
        <3>1. \A x \in M : x <= d => x < e
            <4>1. \A x \in M : x \in Nat /\ d \in Nat /\ e \in Nat
                BY Zenon
            <4> QED
                BY <1>6, <4>1
        <3> QED
            BY <3>1, Zenon
    <2>2. IsFiniteSet(Below(e))
        <3>1. Below(e) \in SUBSET M
            BY Zenon
        <3> HIDE DEF Below
        <3> QED
            BY <3>1, FS_Subset, Zenon
    <2>3. Rank(d) \in Nat /\ Rank(e) = Cardinality(Below(e)) + 1
          /\ Cardinality(Below(e)) \in Nat
        <3>1. Rank(d) \in 1..n /\ Rank(e) = Cardinality(Below(e)) + 1
            BY <1>4, Zenon
        <3> HIDE DEF Rank, Below
        <3> QED
            BY <1>1, <2>2, <3>1, FS_CardinalityType
    <2> HIDE DEF Upto, Below
    <2>4. Cardinality(Upto(d)) <= Cardinality(Below(e))
        BY <2>1, <2>2, FS_Subset, Zenon
    <2> QED
        BY <2>3, <2>4
<1>7. ASSUME NEW d \in M, NEW e \in M, Rank(d) = Rank(e) PROVE d = e
    <2>1. Rank(d) \in Nat /\ d \in Nat /\ e \in Nat
        <3> HIDE DEF Rank
        <3>1. Rank(d) \in 1..n
            BY <1>4, Zenon
        <3> QED
            BY <1>1, <3>1
    <2>2. ~ (d < e) /\ ~ (e < d)
        <3> HIDE DEF Rank
        <3> QED
            BY <1>6, <1>7, <2>1
    <2> QED
        BY <2>1, <2>2
<1> HIDE DEF Rank, n
<1>8. \A d \in M : tb[d] \in S
    BY <1>2, <1>3, <1>4, Zenon
<1>9. \A d, e \in M : tb[d] = tb[e] => d = e
    BY <1>2, <1>3, <1>4, <1>7, Zenon
<1>10. {tb[d] : d \in M} = {got[j] : j \in 1..n}
    <2>1. \A d \in M : \E j \in 1..n : tb[d] = got[j]
        BY <1>3, <1>4, Zenon
    <2>2. \A j \in 1..n : \E d \in M : tb[d] = got[j]
        BY <1>3, <1>5, Zenon
    <2> QED
        BY <2>1, <2>2
<1> QED
    BY <1>8, <1>9, <1>10, Zenon DEF tb, got, n

-----------------------------------------------------------------------------
\* The actions keep the invariant.

LEMMA PageInit == VmemPoolInit => PageInv
<1> SUFFICES ASSUME VmemPoolInit PROVE PageInv
    OBVIOUS
<1>1. /\ kernel = "up" /\ taken = {} /\ area = [i \in 0..AreaEnd |-> 0]
      /\ pte = [v \in KernelPage |-> NoFrame]
      /\ uarea = [q \in Process |-> [i \in 0..StackPage + 1 |-> 0]]
      /\ upte = [q \in Process |-> [v \in UserPage |-> NoFrame]]
      /\ utable = [q \in Process |-> [d \in Table |-> NoFrame]]
      /\ tlb = [v \in Tracked |-> NoFrame]
    BY Zenon DEF VmemPoolInit
<1>2. /\ \A i \in 0..AreaEnd : area[i] = 0
      /\ \A v \in KernelPage : pte[v] = NoFrame
      /\ \A q \in Process : \A v \in UserPage : upte[q][v] = NoFrame
      /\ \A q \in Process : \A d \in Table : utable[q][d] = NoFrame
      /\ \A q \in Process : \A i \in 0..StackPage + 1 : uarea[q][i] = 0
    BY <1>1, Zenon
<1>3. TablesTyped(area, pte, uarea, upte, utable)
    BY <1>1, Zenon DEF TablesTyped
<1>4. /\ \A f \in KernelFrame : f # NoFrame
      /\ \A i \in 0..KernelVaddr - UserPool - 1 : kernel_free_pages + i # NoFrame
    BY PageAllocAssumption, Sizes DEF KernelFrame
<1>5. /\ \A q \in Process : \A v \in UserPage : uarea[q][v] = 0
      /\ \A q \in Process : uarea[q][StackPage] = 0
      /\ area[UserPool] = 0
    <2>1. UserPage \subseteq 0..StackPage + 1 /\ StackPage \in 0..StackPage + 1
          /\ UserPool \in 0..AreaEnd
        BY Sizes
    <2> QED
        BY <1>2, <2>1, Zenon
<1>6. 0 # 1
    OBVIOUS
<1>7. KernelApart(pte, utable) /\ UserApart(upte)
    BY <1>2, Zenon DEF KernelApart, UserApart
<1>8. KernelBits(area, pte, utable)
    BY <1>2, <1>4, <1>6, AreaBits, Zenon DEF KernelBits
<1>9. UserBits(area, upte)
    BY <1>2, <1>4, <1>6, AreaBits, Zenon DEF UserBits
<1>10. KernelAddresses(area, pte) /\ UserAddresses(uarea, upte)
    BY <1>2, <1>5, <1>6, AreaBits, Zenon DEF KernelAddresses, UserAddresses
<1>11. AllocationsMapped(pte, upte, taken) /\ AllocationsApart(taken)
    BY <1>1, Zenon DEF AllocationsMapped, AllocationsApart
<1>12. StacksKept(area, uarea, upte, taken)
    BY <1>5, <1>6, Zenon DEF StacksKept
<1>13. PanicsOnlyWhenOut
    BY <1>1, Zenon DEF PanicsOnlyWhenOut
<1> QED
    BY <1>1, <1>3, <1>7, <1>8, <1>9, <1>10, <1>11, <1>12, <1>13, Zenon DEF PageInv, PagesOK

\* A step that leaves the pages alone.
LEMMA SamePages ==
    ASSUME PageInv, UNCHANGED <<area, pte, uarea, upte, utable, taken>>, PanicsOnlyWhenOut'
    PROVE  PageInv'
    BY Zenon DEF PageInv

\* The ASSERT of BitmapScan fails.
LEMMA PanicInv ==
    ASSUME PageInv, PanicSpin("out")
    PROVE  PageInv'
<1>1. kernel' = "out" /\ UNCHANGED <<area, pte, uarea, upte, utable, taken>>
    BY Zenon DEF PanicSpin
<1> QED
    BY <1>1, SamePages, Zenon DEF PanicsOnlyWhenOut

\* The ASSERT of palloc fails, for a number of pages that a pool has.
LEMMA LimitInv ==
    ASSUME PageInv, NEW pages \in {kernel_free_pages, user_free_pages}, NEW n \in 1..pages,
           n >= PallocLimit, PanicSpin("limit")
    PROVE  PageInv'
<1>1. kernel' = "limit" /\ UNCHANGED <<area, pte, uarea, upte, utable, taken>>
    BY Zenon DEF PanicSpin
<1>2. PallocLimit <= kernel_free_pages \/ PallocLimit <= user_free_pages
    BY PageAllocAssumption
<1> QED
    BY <1>1, <1>2, SamePages, Zenon DEF PanicsOnlyWhenOut

\* Frames of the kernel pool that are free.
LEMMA KernelPoolFree ==
    ASSUME NEW f \in Free(KernelPool, kernel_bitmap_length)
    PROVE  f \in KernelFrame /\ area[f] = 0
<1>1. f \in 0..kernel_bitmap_length * ByteBits - 1 /\ area[KernelPool + f] = 0
    BY Zenon DEF Free
<1>2. UserPool = kernel_bitmap_length * ByteBits
    BY Lengths, Zenon
<1>3. f \in KernelFrame
    BY <1>1, <1>2, Zenon DEF KernelFrame
<1>4. KernelPool + f = f
    BY <1>3, Sizes DEF KernelPool, KernelFrame
<1> QED
    BY <1>1, <1>3, <1>4, Zenon

LEMMA KpallocInv ==
    ASSUME PageInv, NEW n \in 1..kernel_free_pages, kpalloc(n)
    PROVE  PageInv'
<1> DEFINE len == kernel_bitmap_length
           v == BitmapScan(area, KernelVaddr, len, n)
           free == Free(KernelPool, len)
           got == Lowest(free, n)
           set == v..v + n - 1
           g == Assigned(free, n, v)
<1>1. CASE PanicSpin("out")
    BY <1>1, PanicInv, Zenon
<1>a. CASE n >= PallocLimit
    <2>1. PanicSpin("limit")
        BY <1>a, Zenon DEF kpalloc
    <2>2. n \in 1..kernel_free_pages /\ kernel_free_pages \in {kernel_free_pages, user_free_pages}
        BY Zenon
    <2> QED
        BY <1>a, <2>1, <2>2, LimitInv, Zenon
<1>2. CASE ~ PanicSpin("out") /\ ~ (n >= PallocLimit)
    <2>1. /\ ~ ScanAsserts(area, KernelVaddr, len) /\ v # -1
          /\ ~ (Cardinality(free) < n)
          /\ IF \E i \in set : pte[i] # NoFrame
             THEN PanicSpin("remap")
             ELSE /\ area' = [i \in 0..AreaEnd |->
                        IF \/ i \in KernelVaddr + v..KernelVaddr + v + n - 1
                           \/ i \in {KernelPool + got[j] : j \in 1..n}
                        THEN 1 ELSE area[i]]
                  /\ pte' = [i \in KernelPage |->
                        IF i \in v..v + n - 1 THEN got[i - v + 1] ELSE pte[i]]
                  /\ taken' = taken \cup {<<Kernel, v, n>>}
                  /\ UNCHANGED <<kernel, uarea, upte, utable, current, tlb>>
        BY <1>2, Zenon DEF kpalloc
    <2>2. n \in Nat \ {0} /\ n \in Nat
        BY Sizes
    <2>3. free \in SUBSET Nat /\ IsFiniteSet(free) /\ Cardinality(free) \in Nat
        BY Lengths, FreeBits, FS_CardinalityType, Zenon
    <2>4. n <= Cardinality(free)
        BY <2>1, <2>2, <2>3
    <2>5. FitsAt(area, KernelVaddr, UserPool, n, v)
        <3>1. FitsAt(area, KernelVaddr, len * ByteBits, n, v)
            BY <2>1, <2>2, Lengths, ScanFindsFirst, Zenon
        <3> QED
            BY <3>1, Lengths, Zenon
    <2> HIDE DEF v, free
    <2>6. /\ v \in Nat /\ v + n - 1 <= UserPool
          /\ \A i \in set : area[KernelVaddr + i] # 1
        BY <2>5, Zenon DEF FitsAt, BitmapTestBit
    <2>7. set \subseteq KernelPage
        BY <2>2, <2>6, Sizes
    <2>8. PagesOK(area, pte, uarea, upte, utable, taken)
        BY Zenon DEF PageInv
    <2>9. \A i \in set : pte[i] = NoFrame
        BY <2>6, <2>7, <2>8, Zenon DEF PagesOK, KernelAddresses
    <2>10. /\ \A i \in set : g[i] \in free
           /\ \A i, j \in set : g[i] = g[j] => i = j
           /\ {g[i] : i \in set} = {got[j] : j \in 1..n}
        BY <2>2, <2>3, <2>4, <2>6, AssignedFacts, Zenon
    <2>11. \A i \in set : g[i] \in KernelFrame /\ area[g[i]] = 0
        BY <2>10, KernelPoolFree, Zenon DEF free
    <2>12. KernelFree(area, pte, v, n, g)
        BY <2>2, <2>6, <2>9, <2>10, <2>11, Zenon DEF KernelFree, KernelRange
    <2>13. /\ kernel' = kernel /\ uarea' = uarea /\ upte' = upte /\ utable' = utable
           /\ taken' = taken \cup {<<Kernel, v, n>>}
        BY <2>1, <2>9, Zenon
    <2>14. area' = WithBits(area, KernelMarks(set, g), 1)
        <3>1. area' = [i \in 0..AreaEnd |->
                        IF \/ i \in KernelVaddr + v..KernelVaddr + v + n - 1
                           \/ i \in {KernelPool + got[j] : j \in 1..n}
                        THEN 1 ELSE area[i]]
            BY <2>1, <2>9, Zenon
        <3>2. KernelVaddr + v..KernelVaddr + v + n - 1 = {KernelVaddr + i : i \in set}
            <4>1. \A i \in KernelVaddr + v..KernelVaddr + v + n - 1 :
                    i - KernelVaddr \in set /\ KernelVaddr + (i - KernelVaddr) = i
                BY <2>2, <2>6, Sizes
            <4>2. \A i \in set : KernelVaddr + i \in KernelVaddr + v..KernelVaddr + v + n - 1
                BY <2>2, <2>6, Sizes
            <4> HIDE DEF set
            <4> QED
                BY <4>1, <4>2, Zenon
        <3>3. {KernelPool + got[j] : j \in 1..n} = {g[i] : i \in set}
            <4>1. \A j \in 1..n : KernelPool + got[j] = got[j]
                <5>1. \A j \in 1..n : got[j] \in free
                    BY <2>2, <2>3, <2>4, LowestFacts, Zenon
                <5> HIDE DEF got
                <5>2. \A j \in 1..n : got[j] \in Nat
                    BY <2>3, <5>1, Zenon
                <5> QED
                    BY <5>2 DEF KernelPool
            <4> HIDE DEF got, g, set
            <4>2. {KernelPool + got[j] : j \in 1..n} = {got[j] : j \in 1..n}
                BY <4>1, Zenon
            <4> QED
                BY <2>10, <4>2, Zenon
        <3> HIDE DEF set, g, got
        <3> QED
            BY <3>1, <3>2, <3>3, Zenon DEF WithBits, KernelMarks
    <2>15. pte' = Filled(pte, KernelPage, set, g)
        <3>1. pte' = [i \in KernelPage |->
                        IF i \in v..v + n - 1 THEN got[i - v + 1] ELSE pte[i]]
            BY <2>1, <2>9, Zenon
        <3>2. \A i \in set : g[i] = got[i - v + 1]
            BY Zenon DEF Assigned
        <3> HIDE DEF g, got
        <3> QED
            BY <3>1, <3>2, Zenon DEF Filled
    <2> HIDE DEF g, got
    <2>16. PagesOK(area', pte', uarea', upte', utable', taken')
        BY <2>8, <2>12, <2>13, <2>14, <2>15, KernelMapStep, Zenon
    <2> QED
        BY <2>13, <2>16, Zenon DEF PageInv, PanicsOnlyWhenOut
<1> QED
    BY <1>1, <1>2, <1>a, Zenon

-----------------------------------------------------------------------------
\* The page tables of the pages of a process are among its page tables.

LEMMA Quotient ==
    ASSUME NEW i \in Nat, NEW j \in Nat, i <= j
    PROVE  i \div TablePages \in Nat /\ i \div TablePages <= j \div TablePages
<1> DEFINE T == TablePages
           a == i \div T
           b == j \div T
<1>1. T \in Nat \ {0} /\ T \in Nat
    BY PageAllocAssumption, Zenon
<1> HIDE DEF T
<1>2. /\ a \in Nat /\ b \in Nat
      /\ a * T \in Nat /\ b * T \in Nat /\ a * T <= i /\ j < b * T + T
    BY <1>1
<1> HIDE DEF a, b
<1>3. (b + 1) * T = b * T + T /\ (b + 1 <= a => (b + 1) * T <= a * T)
    <2>1. b + 1 \in Nat
        BY <1>2
    <2> QED
        BY <1>1, <1>2, <2>1, Times, Zenon
<1>4. a <= b
    BY <1>1, <1>2, <1>3
<1> QED
    BY <1>2, <1>4, Zenon DEF a, b, T

\* The page tables that PageMapping finds missing.
Missing(q, v, n) ==
    {d \in {i \div TablePages : i \in v..v + n - 1} : utable[q][d] = NoFrame}

LEMMA MissingTables ==
    ASSUME NEW q, NEW v \in Nat, NEW n \in Nat, v + n - 1 <= StackPage
    PROVE  LET M == Missing(q, v, n)
           IN  /\ M \subseteq Table /\ M \in SUBSET Nat /\ IsFiniteSet(M)
               /\ \A d \in M : utable[q][d] = NoFrame
<1> DEFINE M == Missing(q, v, n)
           top == StackPage \div TablePages
<1>1. ASSUME NEW d \in M PROVE d \in 0..top
    <2>1. PICK i \in v..v + n - 1 : d = i \div TablePages
        BY Zenon DEF Missing
    <2>2. i \in Nat /\ StackPage \in Nat /\ i <= StackPage
        BY Sizes
    <2>3. StackPage \div TablePages \in Nat
        BY <2>2, Quotient
    <2>4. d \in Nat /\ d <= top
        BY <2>1, <2>2, Quotient, Zenon
    <2> HIDE DEF top, M
    <2> QED
        BY <2>3, <2>4 DEF top
<1>2. top \in Nat
    BY Quotient, Sizes
<1>3. M \subseteq Table
    BY <1>1, Zenon DEF Table
<1> HIDE DEF M, top
<1>4. 0..top \in SUBSET Nat
    BY <1>2
<1>5. Table = 0..top
    BY Zenon DEF Table, top
<1>6. IsFiniteSet(0..top)
    BY <1>2, FS_Interval
<1>7. IsFiniteSet(M)
    BY <1>3, <1>5, <1>6, FS_Subset, Zenon
<1>8. \A d \in M : utable[q][d] = NoFrame
    BY Zenon DEF M, Missing
<1> QED
    BY <1>3, <1>4, <1>5, <1>7, <1>8, Zenon DEF M

\* Bits of the user pool that are free.
LEMMA UserPoolFree ==
    LET free == Free(UserPool, user_bitmap_length)
    IN  /\ free \in SUBSET Nat /\ IsFiniteSet(free)
        /\ \A f \in free : f \in 0..KernelVaddr - UserPool - 1 /\ area[UserPool + f] = 0
        /\ \A f \in 0..KernelVaddr - UserPool - 1 : area[UserPool + f] = 0 => f \in free
<1>1. KernelVaddr - UserPool = user_bitmap_length * ByteBits
    BY Lengths, Zenon
<1>2. Free(UserPool, user_bitmap_length)
        = {i \in 0..KernelVaddr - UserPool - 1 : area[UserPool + i] = 0}
    BY <1>1, Zenon DEF Free
<1> QED
    BY <1>2, Lengths, FreeBits, Zenon

\* The lowest of some numbers comes first.
LEMMA LowestFirst ==
    ASSUME NEW S \in SUBSET Nat, IsFiniteSet(S), 1 <= Cardinality(S), 0 \in S
    PROVE  Lowest(S, 1)[1] = 0
<1> DEFINE x == Lowest(S, 1)[1]
           below == {k \in S : k < x}
<1>0. 1 \in Nat /\ 1 \in 1..1 /\ 1 - 1 = 0
    OBVIOUS
<1>1. x \in S /\ Cardinality(below) = 1 - 1
    BY <1>0, LowestFacts, Zenon
<1>2. IsFiniteSet(below)
    BY FS_Subset, Zenon
<1> HIDE DEF x
<1>3. below = {}
    BY <1>0, <1>1, <1>2, FS_EmptySet, Zenon
<1>4. x \in Nat
    BY <1>1, Zenon
<1>5. ~ (0 < x)
    BY <1>3, Zenon
<1> QED
    BY <1>4, <1>5 DEF x

\* What PageMapping writes, in the terms of UserMapStep.
LEMMA PageMappingWrites ==
    ASSUME NEW q \in Process, NEW v \in Nat, NEW n \in Nat \ {0}, NEW S \in SUBSET Nat,
           IsFiniteSet(S), n <= Cardinality(S), v + n - 1 <= StackPage,
           PageMapping(q, v, n, Lowest(S, n)), ~ PanicSpin("out"),
           \A i \in v..v + n - 1 : upte[q][i] = NoFrame
    PROVE  LET M == Missing(q, v, n)
               free == Free(KernelPool, kernel_bitmap_length)
               set == v..v + n - 1
               tb == TableOf(free, M)
               g == Assigned(S, n, v)
           IN  /\ Cardinality(M) <= Cardinality(free)
               /\ area' = WithBits(area, UserMarks(M, tb, set, g), 1)
               /\ uarea' = RangeOf(uarea, q, v, n, 1)
               /\ upte' = FilledOf(upte, q, UserPage, set, UserFrames(set, g))
               /\ utable' = FilledOf(utable, q, Table, M, tb)
               /\ taken' = taken \cup {<<q, v, n>>}
               /\ UNCHANGED <<kernel, pte>>
<1> DEFINE M == Missing(q, v, n)
           free == Free(KernelPool, kernel_bitmap_length)
           set == v..v + n - 1
           tb == TableOf(free, M)
           g == Assigned(S, n, v)
           got == Lowest(S, n)
           tables == Lowest(free, Cardinality(M))
<1>1. /\ ~ (Cardinality(free) < Cardinality(M))
      /\ area' = [i \in 0..AreaEnd |->
            IF \/ i \in {KernelPool + tables[j] : j \in 1..Cardinality(M)}
               \/ i \in {UserPool + got[j] : j \in 1..n}
            THEN 1 ELSE area[i]]
      /\ utable' = [utable EXCEPT ![q] = [d \in Table |->
            IF d \in M THEN tables[Cardinality({e \in M : e <= d})] ELSE utable[q][d]]]
      /\ upte' = [upte EXCEPT ![q] = [i \in UserPage |->
            IF i \in set THEN kernel_free_pages + got[i - v + 1] ELSE upte[q][i]]]
      /\ uarea' = [uarea EXCEPT ![q] = SetRange(uarea[q], 0, v, n, 1)]
      /\ taken' = taken \cup {<<q, v, n>>}
      /\ UNCHANGED <<kernel, pte, current, tlb>>
    BY Zenon DEF PageMapping, Missing
<1>2. UNCHANGED <<kernel, pte>>
    BY <1>1, Zenon
<1>3. M \in SUBSET Nat /\ IsFiniteSet(M) /\ Cardinality(M) \in Nat
    BY MissingTables, FS_CardinalityType, Zenon
<1>4. free \in SUBSET Nat /\ IsFiniteSet(free) /\ Cardinality(free) \in Nat
    BY Lengths, FreeBits, FS_CardinalityType, Zenon
<1>5. Cardinality(M) <= Cardinality(free)
    BY <1>1, <1>3, <1>4
<1>6. {tb[d] : d \in M} = {tables[j] : j \in 1..Cardinality(M)}
    BY <1>3, <1>4, <1>5, TableOfFacts, Zenon
<1>7. {g[i] : i \in set} = {got[j] : j \in 1..n}
    BY AssignedFacts, Zenon
<1>8. /\ \A j \in 1..Cardinality(M) : tables[j] \in Nat
      /\ \A j \in 1..n : got[j] \in Nat
    <2>1. \A j \in 1..Cardinality(M) : tables[j] \in free
        BY <1>3, <1>4, <1>5, LowestFacts, Zenon
    <2>2. \A j \in 1..n : got[j] \in S
        BY LowestFacts, Zenon
    <2> QED
        BY <1>4, <2>1, <2>2, Zenon
<1>9. /\ \A d \in M : tb[d] = tables[Cardinality({e \in M : e <= d})]
      /\ \A i \in set : g[i] = got[i - v + 1]
    BY Zenon DEF TableOf, Assigned
<1> HIDE DEF M, free, tb, g, got, tables
<1>10. {KernelPool + tables[j] : j \in 1..Cardinality(M)} = {tb[d] : d \in M}
    <2>1. \A j \in 1..Cardinality(M) : KernelPool + tables[j] = tables[j]
        BY <1>8 DEF KernelPool
    <2>2. {KernelPool + tables[j] : j \in 1..Cardinality(M)}
            = {tables[j] : j \in 1..Cardinality(M)}
        BY <2>1, Zenon
    <2> QED
        BY <1>6, <2>2, Zenon
<1>11. {UserPool + got[j] : j \in 1..n} = {UserPool + g[i] : i \in set}
    <2>1. /\ \A j \in 1..n : \E i \in set : g[i] = got[j]
          /\ \A i \in set : \E j \in 1..n : g[i] = got[j]
        BY <1>7, Zenon
    <2> HIDE DEF set
    <2> QED
        BY <2>1, Zenon
<1>12. area' = WithBits(area, UserMarks(M, tb, set, g), 1)
    <2> HIDE DEF set
    <2> QED
        BY <1>1, <1>10, <1>11, Zenon DEF WithBits, UserMarks
<1>13. utable' = FilledOf(utable, q, Table, M, tb)
    <2>1. [d \in Table |->
            IF d \in M THEN tables[Cardinality({e \in M : e <= d})] ELSE utable[q][d]]
            = Filled(utable[q], Table, M, tb)
        BY <1>9, Zenon DEF Filled
    <2> QED
        BY <1>1, <2>1, Zenon DEF FilledOf
<1>14. upte' = FilledOf(upte, q, UserPage, set, UserFrames(set, g))
    <2>1. \A i \in set : UserFrames(set, g)[i] = kernel_free_pages + got[i - v + 1]
        BY <1>9, Zenon DEF UserFrames
    <2> HIDE DEF set
    <2>2. [i \in UserPage |->
            IF i \in set THEN kernel_free_pages + got[i - v + 1] ELSE upte[q][i]]
            = Filled(upte[q], UserPage, set, UserFrames(set, g))
        BY <2>1, Zenon DEF Filled
    <2> QED
        BY <1>1, <2>2, Zenon DEF FilledOf
<1>15. uarea' = RangeOf(uarea, q, v, n, 1)
    BY <1>1, Zenon DEF RangeOf
<1> QED
    BY <1>1, <1>2, <1>5, <1>12, <1>13, <1>14, <1>15, Zenon DEF M, free, tb, g

LEMMA PageMappingInv ==
    ASSUME PageInv, NEW q \in Process, NEW v \in Nat, NEW n \in Nat \ {0},
           v + n - 1 <= StackPage, n <= Cardinality(Free(UserPool, user_bitmap_length)),
           \A i \in v..v + n - 1 : upte[q][i] = NoFrame,
           StackPage \in v..v + n - 1 => v = StackPage /\ n = 1,
           StackPage \notin v..v + n - 1 => upte[q][StackPage] # NoFrame,
           PageMapping(q, v, n, Lowest(Free(UserPool, user_bitmap_length), n))
    PROVE  PageInv'
<1> DEFINE M == Missing(q, v, n)
           free == Free(KernelPool, kernel_bitmap_length)
           S == Free(UserPool, user_bitmap_length)
           set == v..v + n - 1
           tb == TableOf(free, M)
           g == Assigned(S, n, v)
<1>1. CASE PanicSpin("out")
    BY <1>1, PanicInv, Zenon
<1>2. CASE ~ PanicSpin("out")
    <2>1. S \in SUBSET Nat /\ IsFiniteSet(S)
        BY UserPoolFree, Zenon
    <2>2. n \in Nat
        OBVIOUS
    <2>3. /\ Cardinality(M) <= Cardinality(free)
          /\ area' = WithBits(area, UserMarks(M, tb, set, g), 1)
          /\ uarea' = RangeOf(uarea, q, v, n, 1)
          /\ upte' = FilledOf(upte, q, UserPage, set, UserFrames(set, g))
          /\ utable' = FilledOf(utable, q, Table, M, tb)
          /\ taken' = taken \cup {<<q, v, n>>}
          /\ UNCHANGED <<kernel, pte>>
        BY <1>2, <2>1, PageMappingWrites, Zenon
    <2>4. /\ M \subseteq Table /\ M \in SUBSET Nat /\ IsFiniteSet(M)
          /\ \A d \in M : utable[q][d] = NoFrame
        BY <2>2, MissingTables, Zenon
    <2>5. free \in SUBSET Nat /\ IsFiniteSet(free)
        BY Lengths, FreeBits, Zenon
    <2>6. /\ \A d \in M : tb[d] \in free
          /\ \A d, e \in M : tb[d] = tb[e] => d = e
        BY <2>3, <2>4, <2>5, TableOfFacts, Zenon
    <2>7. /\ \A i \in set : g[i] \in S
          /\ \A i, j \in set : g[i] = g[j] => i = j
        BY <2>1, <2>2, AssignedFacts, Zenon
    <2>8. \A d \in M : tb[d] \in KernelFrame /\ area[tb[d]] = 0
        BY <2>6, KernelPoolFree, Zenon
    <2>9. \A i \in set : g[i] \in 0..KernelVaddr - UserPool - 1 /\ area[UserPool + g[i]] = 0
        BY <2>7, UserPoolFree, Zenon
    <2>10. ASSUME StackPage \in set, area[UserPool] = 0 PROVE g[StackPage] = 0
        <3>1. v = StackPage /\ n = 1
            BY <2>10, Zenon
        <3>2. g[StackPage] = Lowest(S, 1)[1]
            <4>1. g[StackPage] = Lowest(S, n)[StackPage - v + 1]
                BY <2>10, Zenon DEF Assigned
            <4>2. StackPage - v + 1 = 1
                BY <3>1, Sizes
            <4> QED
                BY <3>1, <4>1, <4>2, Zenon
        <3>3. 0 \in 0..KernelVaddr - UserPool - 1 /\ UserPool + 0 = UserPool
            <4> HIDE DEF g, S
            <4>1. g[StackPage] \in 0..KernelVaddr - UserPool - 1
                BY <2>9, <2>10, Zenon
            <4> QED
                BY <4>1, Sizes
        <3>4. 0 \in S
            BY <2>10, <3>3, UserPoolFree, Zenon
        <3>5. 1 <= Cardinality(S)
            BY <3>1, Zenon
        <3> QED
            BY <2>1, <3>2, <3>4, <3>5, LowestFirst, Zenon
    <2> HIDE DEF M, free, S, tb, g
    <2>11. UserFree(area, upte, utable, q, v, n, g, M, tb)
        BY <2>4, <2>6, <2>7, <2>8, <2>9, <2>10, Zenon DEF UserFree, UserRange
    <2>12. PagesOK(area, pte, uarea, upte, utable, taken)
        BY Zenon DEF PageInv
    <2>13. PagesOK(area', pte', uarea', upte', utable', taken')
        BY <2>3, <2>11, <2>12, UserMapStep, Zenon
    <2> QED
        BY <2>3, <2>13, Zenon DEF PageInv, PanicsOnlyWhenOut
<1> QED
    BY <1>1, <1>2, Zenon

LEMMA UpallocInv ==
    ASSUME PageInv, NEW q \in Process, NEW n \in 1..user_free_pages, upalloc(q, n)
    PROVE  PageInv'
<1> DEFINE v == BitmapScan(uarea[q], 0, UserBytes, n)
           S == Free(UserPool, user_bitmap_length)
           set == v..v + n - 1
<1>1. CASE PanicSpin("out")
    BY <1>1, PanicInv, Zenon
<1>a. CASE n >= PallocLimit
    <2>1. PanicSpin("limit")
        BY <1>a, Zenon DEF upalloc
    <2>2. n \in 1..user_free_pages /\ user_free_pages \in {kernel_free_pages, user_free_pages}
        BY Zenon
    <2> QED
        BY <1>a, <2>1, <2>2, LimitInv, Zenon
<1>2. CASE ~ PanicSpin("out") /\ ~ (n >= PallocLimit)
    <2>1. /\ uarea[q][StackPage] = 1
          /\ ~ ScanAsserts(uarea[q], 0, UserBytes) /\ v # -1
          /\ ~ (Cardinality(S) < n)
          /\ PageMapping(q, v, n, Lowest(S, n))
        BY <1>2, Zenon DEF upalloc
    <2>2. n \in Nat \ {0} /\ n \in Nat
        BY PageAllocAssumption
    <2>3. n <= Cardinality(S)
        <3>1. Cardinality(S) \in Nat
            BY UserPoolFree, FS_CardinalityType, Zenon
        <3> QED
            BY <2>1, <2>2, <3>1
    <2>4. UserBytes * ByteBits = StackPage + 1
        BY Lengths, Zenon
    <2>5. FitsAt(uarea[q], 0, StackPage + 1, n, v) /\ (n = 1 => v < StackPage + 1)
        <3>1. /\ FitsAt(uarea[q], 0, UserBytes * ByteBits, n, v)
              /\ n = 1 => v < UserBytes * ByteBits
            BY <2>1, <2>2, Lengths, ScanFindsFirst, Zenon
        <3> QED
            BY <2>4, <3>1, Zenon
    <2> HIDE DEF v, S
    <2>6. /\ v \in Nat /\ v + n - 1 <= StackPage + 1
          /\ \A i \in set : uarea[q][0 + i] # 1
        BY <2>5, Zenon DEF FitsAt, BitmapTestBit
    <2>7. \A i \in set : i \in Nat /\ 0 + i = i
        BY <2>2, <2>6
    <2>8. \A i \in set : uarea[q][i] # 1
        BY <2>6, <2>7, Zenon
    <2>9. StackPage \notin set
        BY <2>1, <2>8, Zenon
    <2>10. v + n - 1 <= StackPage
        BY <2>2, <2>5, <2>6, <2>9, Sizes
    <2>11. \A i \in set : i \in UserPage
        BY <2>2, <2>6, <2>10, Sizes
    <2>12. StackPage \in UserPage
        BY Sizes
    <2>13. UserAddresses(uarea, upte)
        BY Zenon DEF PageInv, PagesOK
    <2>14. \A i \in set : upte[q][i] = NoFrame
        BY <2>8, <2>11, <2>13, Zenon DEF UserAddresses
    <2>15. upte[q][StackPage] # NoFrame
        BY <2>1, <2>12, <2>13, Zenon DEF UserAddresses
    <2> QED
        BY <2>1, <2>2, <2>3, <2>6, <2>9, <2>10, <2>14, <2>15, PageMappingInv, Zenon DEF S
<1> QED
    BY <1>1, <1>2, <1>a, Zenon

LEMMA VirtualAddrMappingInv ==
    ASSUME PageInv, NEW q \in Process, VirtualAddrMapping(q)
    PROVE  PageInv'
<1> DEFINE S == Free(UserPool, user_bitmap_length)
<1>1. CASE PanicSpin("out")
    BY <1>1, PanicInv, Zenon
<1>2. CASE ~ PanicSpin("out")
    <2>1. uarea[q][StackPage] = 0 /\ S # {} /\ PageMapping(q, StackPage, 1, Lowest(S, 1))
        BY <1>2, Zenon DEF VirtualAddrMapping
    <2>2. S \in SUBSET Nat /\ IsFiniteSet(S)
        BY UserPoolFree, Zenon
    <2> HIDE DEF S
    <2>3. 1 <= Cardinality(S)
        <3>1. Cardinality(S) \in Nat /\ Cardinality(S) # 0
            BY <2>1, <2>2, FS_CardinalityType, FS_EmptySet, Zenon
        <3> QED
            BY <3>1
    <2>4. /\ 1 \in Nat \ {0} /\ StackPage \in Nat /\ StackPage + 1 - 1 <= StackPage
          /\ StackPage \in UserPage /\ StackPage..StackPage + 1 - 1 = {StackPage}
        BY Sizes
    <2>5. upte[q][StackPage] = NoFrame
        <3>1. 0 # 1
            OBVIOUS
        <3> QED
            BY <2>1, <2>4, <3>1, Zenon DEF PageInv, PagesOK, UserAddresses
    <2>6. /\ \A i \in StackPage..StackPage + 1 - 1 : upte[q][i] = NoFrame
          /\ StackPage \in StackPage..StackPage + 1 - 1
        BY <2>4, <2>5, Zenon
    <2> QED
        BY <2>1, <2>3, <2>4, <2>6, PageMappingInv, Zenon DEF S
<1> QED
    BY <1>1, <1>2, Zenon

-----------------------------------------------------------------------------
\* Giving pages back.

LEMMA KernelPfreeInv ==
    ASSUME PageInv, NEW v, NEW n, <<Kernel, v, n>> \in taken, pfree(<<Kernel, v, n>>)
    PROVE  PageInv'
<1> DEFINE set == v..v + n - 1
           frames == {pte[i] : i \in set}
           bits == {ReturnOnePhysicPage(f) : f \in frames}
           cleared == [i \in 0..AreaEnd |-> IF i \in bits THEN 0 ELSE area[i]]
<1>1. IF ~ SameSide(frames, pte[v])
      THEN PanicSpin("side")
      ELSE /\ taken' = taken \ {<<Kernel, v, n>>}
           /\ area' = SetRange(cleared, KernelVaddr, v, n, 0)
           /\ pte' = PageUnmapping(pte, v, n)
           /\ UNCHANGED <<uarea, upte>>
           /\ UNCHANGED <<kernel, utable, current, tlb>>
    BY DEF pfree
<1>2. PagesOK(area, pte, uarea, upte, utable, taken)
    BY Zenon DEF PageInv
<1>3. KernelRange(v, n, pte)
    BY <1>2, KernelUnmapStep, Zenon
<1>4. /\ v \in Nat /\ n \in Nat \ {0} /\ v + n - 1 <= UserPool
      /\ \A i \in set : pte[i] \in KernelFrame
    BY <1>3, Zenon DEF KernelRange
<1>5. v \in set
    BY <1>4
<1>6. \A f \in KernelFrame : ~ (f >= kernel_free_pages) /\ ~ (f > kernel_free_pages) /\ 0 + f = f
    BY Sizes DEF KernelFrame
<1>7. SameSide(frames, pte[v])
    BY <1>4, <1>5, <1>6 DEF SameSide
<1>8. \A f \in KernelFrame : ReturnOnePhysicPage(f) = f
    BY <1>6, Zenon DEF ReturnOnePhysicPage, KernelPool
<1>9. bits = {pte[i] : i \in set}
    <2>1. \A i \in set : ReturnOnePhysicPage(pte[i]) = pte[i]
        BY <1>4, <1>8, Zenon
    <2> HIDE DEF set
    <2> QED
        BY <2>1, Zenon
<1>10. /\ taken' = taken \ {<<Kernel, v, n>>}
       /\ area' = SetRange(cleared, KernelVaddr, v, n, 0)
       /\ pte' = PageUnmapping(pte, v, n)
       /\ uarea' = uarea /\ upte' = upte /\ kernel' = kernel /\ utable' = utable /\ tlb' = tlb
    BY <1>1, <1>7, Zenon
<1>11. area' = WithBits(area, KernelMarks(set, pte), 0)
    <2>1. KernelVaddr + v..KernelVaddr + v + n - 1 = {KernelVaddr + i : i \in set}
        <3>1. \A i \in KernelVaddr + v..KernelVaddr + v + n - 1 :
                i - KernelVaddr \in set /\ KernelVaddr + (i - KernelVaddr) = i
            BY <1>4, Sizes
        <3>2. \A i \in set : KernelVaddr + i \in KernelVaddr + v..KernelVaddr + v + n - 1
            BY <1>4, Sizes
        <3> HIDE DEF set
        <3> QED
            BY <3>1, <3>2, Zenon
    <2>2. area' = [i \in 0..AreaEnd |->
                    IF i \in KernelVaddr + v..KernelVaddr + v + n - 1
                    THEN 0 ELSE cleared[i]]
        <3>1. DOMAIN cleared = 0..AreaEnd
            BY Zenon
        <3> HIDE DEF cleared
        <3> QED
            BY <1>10, <3>1, Zenon DEF SetRange
    <2>3. \A i \in 0..AreaEnd : cleared[i] = IF i \in bits THEN 0 ELSE area[i]
        BY Zenon
    <2> HIDE DEF set, cleared, bits
    <2> QED
        BY <1>9, <2>1, <2>2, <2>3, Zenon DEF WithBits, KernelMarks
<1> HIDE DEF frames, bits, cleared
<1>12. PagesOK(area', pte', uarea', upte', utable', taken')
    BY <1>2, <1>10, <1>11, KernelUnmapStep
<1> QED
    BY <1>10, <1>12, Zenon DEF PageInv, PanicsOnlyWhenOut

LEMMA UserPfreeInv ==
    ASSUME PageInv, NEW q \in Process, NEW v, NEW n, <<q, v, n>> \in taken, v # StackPage,
           pfree(<<q, v, n>>)
    PROVE  PageInv'
<1> DEFINE set == v..v + n - 1
           row == upte[q]
           frames == {row[i] : i \in set}
           bits == {ReturnOnePhysicPage(f) : f \in frames}
           g == PoolBits(row, set)
<1>1. q # Kernel
    BY PageAllocAssumption, Zenon
<1>2. IF ~ SameSide(frames, row[v])
      THEN PanicSpin("side")
      ELSE /\ taken' = taken \ {<<q, v, n>>}
           /\ area' = [i \in 0..AreaEnd |-> IF i \in bits THEN 0 ELSE area[i]]
           /\ upte' = [upte EXCEPT ![q] = PageUnmapping(upte[q], v, n)]
           /\ uarea' = [uarea EXCEPT ![q] = SetRange(uarea[q], 0, v, n, 0)]
           /\ UNCHANGED pte
           /\ UNCHANGED <<kernel, utable, current, tlb>>
    BY <1>1 DEF pfree
<1>3. PagesOK(area, pte, uarea, upte, utable, taken)
    BY Zenon DEF PageInv
<1>4. /\ UserRange(q, v, n, g, {}, g)
      /\ \A i \in set : row[i] \in UserFrame /\ row[i] # kernel_free_pages
    BY <1>3, UserUnmapStep, Zenon
<1>5. v \in Nat /\ n \in Nat \ {0}
    BY <1>4, Zenon DEF UserRange
<1>6. v \in set
    BY <1>5
<1>7. \A f \in UserFrame : /\ f >= kernel_free_pages
                           /\ f # kernel_free_pages => f > kernel_free_pages
    BY Sizes DEF UserFrame
<1>8. SameSide(frames, row[v])
    BY <1>4, <1>6, <1>7 DEF SameSide
<1>9. bits = {UserPool + g[i] : i \in set}
    <2>1. \A i \in set : g[i] = row[i] - kernel_free_pages
        BY Zenon DEF PoolBits
    <2>2. \A i \in set : ReturnOnePhysicPage(row[i]) = UserPool + g[i]
        BY <1>4, <1>7, <2>1, Zenon DEF ReturnOnePhysicPage
    <2> HIDE DEF set, g, row
    <2> QED
        BY <2>2, Zenon
<1>10. /\ taken' = taken \ {<<q, v, n>>}
       /\ area' = [i \in 0..AreaEnd |-> IF i \in bits THEN 0 ELSE area[i]]
       /\ upte' = [upte EXCEPT ![q] = PageUnmapping(upte[q], v, n)]
       /\ uarea' = [uarea EXCEPT ![q] = SetRange(uarea[q], 0, v, n, 0)]
       /\ pte' = pte /\ kernel' = kernel /\ utable' = utable
    BY <1>2, <1>8, Zenon
<1>11. area' = WithBits(area, UserMarks({}, g, set, g), 0)
    <2>1. UserMarks({}, g, set, g) = bits
        <3> HIDE DEF set, g, bits
        <3> QED
            BY <1>9, Zenon DEF UserMarks
    <2> HIDE DEF set, g, bits
    <2> QED
        BY <1>10, <2>1, Zenon DEF WithBits
<1>12. upte' = FilledOf(upte, q, UserPage, set, [i \in set |-> NoFrame])
    <2>1. DOMAIN upte[q] = UserPage
        BY <1>3, Zenon DEF PagesOK, TablesTyped
    <2>2. PageUnmapping(upte[q], v, n)
            = Filled(upte[q], UserPage, set, [i \in set |-> NoFrame])
        <3> HIDE DEF bits, g, frames
        <3> QED
            BY <2>1, Zenon DEF PageUnmapping, Filled
    <2> QED
        BY <1>10, <2>2, Zenon DEF FilledOf
<1>13. uarea' = RangeOf(uarea, q, v, n, 0)
    BY <1>10, Zenon DEF RangeOf
<1> HIDE DEF frames, bits
<1>14. PagesOK(area', pte', uarea', upte', utable', taken')
    <2>1. PagesOK(WithBits(area, UserMarks({}, g, set, g), 0), pte,
                  RangeOf(uarea, q, v, n, 0),
                  FilledOf(upte, q, UserPage, set, [i \in set |-> NoFrame]),
                  utable, taken \ {<<q, v, n>>})
        BY <1>3, UserUnmapStep, Zenon
    <2> HIDE DEF set, g
    <2> QED
        BY <1>10, <1>11, <1>12, <1>13, <2>1, Zenon
<1> QED
    BY <1>10, <1>14, Zenon DEF PageInv, PanicsOnlyWhenOut

LEMMA PfreeInv ==
    ASSUME PageInv, NEW a \in taken, a[1] # Kernel => a[2] # StackPage, pfree(a)
    PROVE  PageInv'
<1> DEFINE q == a[1]
           v == a[2]
           n == a[3]
<1>1. a = <<q, v, n>> /\ Allocated(q, v, n, pte, upte)
    BY Zenon DEF PageInv, PagesOK, AllocationsMapped
<1>2. q # Kernel => q \in Process
    BY <1>1, Zenon DEF Allocated
<1>3. <<q, v, n>> \in taken /\ pfree(<<q, v, n>>)
    BY <1>1, Zenon
<1> HIDE DEF q, v, n
<1>4. CASE q = Kernel
    BY <1>3, <1>4, KernelPfreeInv, Zenon
<1>5. CASE q # Kernel
    BY <1>2, <1>3, <1>5, UserPfreeInv, Zenon DEF q, v
<1> QED
    BY <1>4, <1>5, Zenon

\* The steps that only concern the TLB.
LEMMA TlbInv ==
    ASSUME PageInv, (\E v \in Tracked : Access(v)) \/ (\E next : ActivePDE(next))
    PROVE  PageInv'
<1>1. UNCHANGED <<kernel, area, pte, uarea, upte, utable, taken>>
    BY Zenon DEF Access, ActivePDE
<1> QED
    BY <1>1, SamePages, Zenon DEF PageInv, PanicsOnlyWhenOut

LEMMA PageStep == PageInv /\ [PageNext]_pageVars => PageInv'
<1> SUFFICES ASSUME PageInv, [PageNext]_pageVars PROVE PageInv'
    OBVIOUS
<1>1. CASE \E n \in 1..kernel_free_pages : kpalloc(n)
    BY <1>1, KpallocInv, Zenon
<1>2. CASE \E q \in Process : VirtualAddrMapping(q)
    BY <1>2, VirtualAddrMappingInv, Zenon
<1>3. CASE \E q \in Process, n \in 1..user_free_pages : upalloc(q, n)
    BY <1>3, UpallocInv, Zenon
<1>4. CASE \E a \in taken : (a[1] # Kernel => a[2] # StackPage) /\ pfree(a)
    BY <1>4, PfreeInv, Zenon
<1>5. CASE \E v \in Tracked : Access(v)
    BY <1>5, TlbInv, Zenon
<1>6. CASE \E next \in Process \cup {Kernel} : ActivePDE(next)
    BY <1>6, TlbInv, Zenon
<1>7. CASE UNCHANGED pageVars
    <2>1. UNCHANGED <<kernel, area, pte, uarea, upte, utable, taken>>
        BY <1>7, Zenon DEF pageVars
    <2> QED
        BY <2>1, SamePages, Zenon DEF PageInv, PanicsOnlyWhenOut
<1> QED
    BY <1>1, <1>2, <1>3, <1>4, <1>5, <1>6, <1>7, Zenon DEF PageNext

\* PageInv holds in every state that the allocator reaches.
LEMMA PageInvHolds == PageSpec => []PageInv
    BY PageInit, PageStep, PTL DEF PageSpec

-----------------------------------------------------------------------------
LEMMA PoolsApart ==
    \A f \in KernelFrame : f \notin UserFrame /\ f # NoFrame
    BY Sizes, PageAllocAssumption DEF KernelFrame, UserFrame

LEMMA InvOwnedOnce ==
    ASSUME PageInv
    PROVE  FramesOwnedOnce
<1> DEFINE Uses == ({Kernel} \X {"page"} \X KernelPage)
                     \cup (Process \X {"page"} \X UserPage)
                     \cup (Process \X {"table"} \X Table)
           At(u) == IF u[2] = "table" THEN utable[u[1]][u[3]]
                    ELSE IF u[1] = Kernel THEN pte[u[3]] ELSE upte[u[1]][u[3]]
<1>1. /\ TablesTyped(area, pte, uarea, upte, utable)
      /\ KernelApart(pte, utable) /\ UserApart(upte)
    BY Zenon DEF PageInv, PagesOK
<1>2. /\ \A v \in KernelPage : pte[v] \in KernelFrame \cup {NoFrame}
      /\ \A q \in Process : \A v \in UserPage : upte[q][v] \in UserFrame \cup {NoFrame}
      /\ \A q \in Process : \A d \in Table : utable[q][d] \in KernelFrame \cup {NoFrame}
    BY <1>1, Zenon DEF TablesTyped
<1>3. Kernel \notin Process
    BY PageAllocAssumption, Zenon
<1>4. ASSUME NEW u \in Uses
      PROVE  \/ \E v \in KernelPage : u = <<Kernel, "page", v>> /\ At(u) = pte[v]
             \/ \E q \in Process : \E v \in UserPage :
                    u = <<q, "page", v>> /\ At(u) = upte[q][v]
             \/ \E q \in Process : \E d \in Table :
                    u = <<q, "table", d>> /\ At(u) = utable[q][d]
    <2>1. CASE u \in {Kernel} \X {"page"} \X KernelPage
        BY <2>1
    <2>2. CASE u \in Process \X {"page"} \X UserPage
        BY <1>3, <2>2
    <2>3. CASE u \in Process \X {"table"} \X Table
        BY <2>3
    <2> QED
        BY <2>1, <2>2, <2>3, Zenon
<1>5. \A q \in Process : \A v \in UserPage :
        /\ \A w \in KernelPage : pte[w] = upte[q][v] => pte[w] = NoFrame
        /\ \A r \in Process : \A d \in Table :
                utable[r][d] = upte[q][v] => utable[r][d] = NoFrame
    BY <1>2, PoolsApart, Zenon
<1>6. ASSUME NEW u \in Uses, NEW w \in Uses, At(u) = At(w), At(u) # NoFrame
      PROVE  u = w
    <2> HIDE DEF At, Uses
    <2>1. CASE \E v \in KernelPage : u = <<Kernel, "page", v>> /\ At(u) = pte[v]
        BY <1>1, <1>4, <1>5, <1>6, <2>1 DEF KernelApart
    <2>2. CASE \E q \in Process : \E v \in UserPage :
                    u = <<q, "page", v>> /\ At(u) = upte[q][v]
        BY <1>1, <1>4, <1>5, <1>6, <2>2 DEF UserApart
    <2>3. CASE \E q \in Process : \E d \in Table :
                    u = <<q, "table", d>> /\ At(u) = utable[q][d]
        BY <1>1, <1>4, <1>5, <1>6, <2>3 DEF KernelApart
    <2> QED
        BY <1>4, <2>1, <2>2, <2>3, Zenon
<1> QED
    BY <1>6, Zenon DEF FramesOwnedOnce

LEMMA InvBitmapsTrue ==
    ASSUME PageInv
    PROVE  BitmapsTrue
<1> DEFINE Used(f) == \/ \E v \in KernelPage : pte[v] = f
                      \/ \E q \in Process : \/ \E v \in UserPage : upte[q][v] = f
                                           \/ \E d \in Table : utable[q][d] = f
<1>1. /\ TablesTyped(area, pte, uarea, upte, utable)
      /\ KernelBits(area, pte, utable) /\ UserBits(area, upte)
      /\ KernelAddresses(area, pte) /\ UserAddresses(uarea, upte)
    BY Zenon DEF PageInv, PagesOK
<1>2. /\ \A v \in KernelPage : pte[v] \in KernelFrame \cup {NoFrame}
      /\ \A q \in Process : \A v \in UserPage : upte[q][v] \in UserFrame \cup {NoFrame}
      /\ \A q \in Process : \A d \in Table : utable[q][d] \in KernelFrame \cup {NoFrame}
    BY <1>1, Zenon DEF TablesTyped
<1>3. ASSUME NEW f \in 0..UserPool - 1
      PROVE  area[KernelPool + f] = 1 <=> Used(f)
    <2>1. f \in KernelFrame
        BY Zenon DEF KernelFrame
    <2>2. KernelPool + f = f
        BY Sizes DEF KernelPool
    <2>3. f \notin UserFrame /\ f # NoFrame
        BY <2>1, PoolsApart, Zenon
    <2>4. Used(f) <=> \/ \E v \in KernelPage : pte[v] = f
                      \/ \E q \in Process : \E d \in Table : utable[q][d] = f
        BY <1>2, <2>3
    <2> QED
        BY <1>1, <2>1, <2>2, <2>4, Zenon DEF KernelBits
<1>4. ASSUME NEW i \in 0..user_bitmap_length * ByteBits - 1
      PROVE  area[UserPool + i] = 1 <=> Used(kernel_free_pages + i)
    <2>1. i \in 0..KernelVaddr - UserPool - 1
        BY Lengths, Zenon
    <2>2. kernel_free_pages + i \in UserFrame /\ kernel_free_pages + i \in Nat
        BY <2>1, Sizes DEF UserFrame
    <2>3. kernel_free_pages + i \notin KernelFrame /\ kernel_free_pages + i # NoFrame
        BY <2>2, PoolsApart, PageAllocAssumption, Zenon
    <2>4. Used(kernel_free_pages + i)
            <=> \E q \in Process : \E v \in UserPage : upte[q][v] = kernel_free_pages + i
        BY <1>2, <2>3
    <2> QED
        BY <1>1, <2>1, <2>4, Zenon DEF UserBits
<1> QED
    BY <1>1, <1>3, <1>4, Zenon DEF BitmapsTrue, KernelAddresses, UserAddresses

-----------------------------------------------------------------------------
(***************************************************************************)
(* No frame of the two pools is ever behind two pages, behind pages of two *)
(* address spaces, or a page and a page table at once, whatever the sizes  *)
(* of the pools and of the address spaces, however many the processes, and *)
(* in whatever order kpalloc, upalloc, VirtualAddrMapping and pfree run.   *)
(***************************************************************************)
THEOREM FramesNeverShared == PageSpec => []FramesOwnedOnce
<1>1. PageInv => FramesOwnedOnce
    BY InvOwnedOnce, Zenon
<1> QED
    BY <1>1, PageInvHolds, PTL

(***************************************************************************)
(* The bitmaps of the pools and of the addresses always agree with the     *)
(* page tables: palloc sets and pfree clears exactly the bits of what they *)
(* map and unmap.  ReturnOnePhysicPage gets the first frame of the user    *)
(* pool wrong; that frame always belongs to a user stack, which is never   *)
(* freed.                                                                  *)
(***************************************************************************)
THEOREM BitmapsStayTrue == PageSpec => []BitmapsTrue
<1>1. PageInv => BitmapsTrue
    BY InvBitmapsTrue, Zenon
<1> QED
    BY <1>1, PageInvHolds, PTL

(***************************************************************************)
(* The ASSERTs of PageMapping (the page is not mapped yet) and of pfree    *)
(* (all frames are from one pool) never fail, and that of palloc on the    *)
(* number of pages only where a pool has as many.                          *)
(***************************************************************************)
THEOREM AssertsHold == PageSpec => []PanicsOnlyWhenOut
<1>1. PageInv => PanicsOnlyWhenOut
    BY Zenon DEF PageInv
<1> QED
    BY <1>1, PageInvHolds, PTL

(***************************************************************************)
(* BitmapScan is first fit on every bitmap, of any length and however      *)
(* fragmented, but for the place that reaches one bit behind the end.      *)
(***************************************************************************)
THEOREM ScansAreFirstFit == PageSpec => []ScanIsFirstFit
<1>1. PageInv => ScanIsFirstFit
    BY FirstFitScan, Lengths, Zenon DEF ScanIsFirstFit
<1> QED
    BY <1>1, PageInvHolds, PTL
=============================================================================
