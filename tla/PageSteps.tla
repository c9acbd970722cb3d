----------------------------- MODULE PageSteps ------------------------------
(***************************************************************************)
(* The invariant of the page allocator of PageAlloc, and what keeps it:    *)
(* mapping free frames at free addresses, for the kernel and for a         *)
(* process, and unmapping what was allocated.  Then BitmapScan of          *)
(* bitmap.c, which finds the first place that is large enough in a bitmap  *)
(* of any length.  MemoryProofs composes them to the actions.              *)
(***************************************************************************)
EXTENDS PageAlloc, WellFoundedInduction, TLAPS

LEMMA Times ==
    ASSUME NEW a \in Nat, NEW b \in Nat, NEW c \in Nat
    PROVE  /\ a * c \in Nat
           /\ (a + 1) * c = a * c + c
           /\ a <= b => a * c <= b * c
<1>1. a <= b => b = a + (b - a) /\ b - a \in Nat
    OBVIOUS
<1>2. ASSUME NEW d \in Nat PROVE (a + d) * c = a * c + d * c /\ d * c \in Nat /\ a * c \in Nat
    OBVIOUS
<1>3. a <= b => a * c <= b * c
    <2>1. SUFFICES ASSUME a <= b PROVE a * c <= b * c
        OBVIOUS
    <2> DEFINE d == b - a
    <2>2. d \in Nat /\ b = a + d
        BY <1>1, <2>1, Zenon
    <2> HIDE DEF d
    <2>3. b * c = a * c + d * c /\ d * c \in Nat /\ a * c \in Nat
        BY <1>2, <2>2, Zenon
    <2> QED
        BY <2>3
<1> QED
    BY <1>2, <1>3

-----------------------------------------------------------------------------
\* The inductive invariant, as conditions on the bitmaps ar, the pages of the
\* kernel pt, the bitmaps ua, pages up and tables ut of the processes, and
\* the allocations tk.

KernelFrame == 0..UserPool - 1
UserFrame == kernel_free_pages..kernel_free_pages + (KernelVaddr - UserPool) - 1

\* The bitmaps are bits and the tables hold frames of the pool they are from.
TablesTyped(ar, pt, ua, up, ut) ==
    /\ ar \in [0..AreaEnd -> {0, 1}]
    /\ pt \in [KernelPage -> KernelFrame \cup {NoFrame}]
    /\ ua \in [Process -> [0..StackPage + 1 -> {0, 1}]]
    /\ up \in [Process -> [UserPage -> UserFrame \cup {NoFrame}]]
    /\ ut \in [Process -> [Table -> KernelFrame \cup {NoFrame}]]

\* Nobody shares a frame of the kernel pool.
KernelApart(pt, ut) ==
    /\ \A v, w \in KernelPage : pt[v] = pt[w] /\ pt[v] # NoFrame => v = w
    /\ \A q, r \in Process : \A d, e \in Table :
            ut[q][d] = ut[r][e] /\ ut[q][d] # NoFrame => q = r /\ d = e
    /\ \A v \in KernelPage : \A q \in Process : \A d \in Table :
            pt[v] = ut[q][d] => pt[v] = NoFrame

\* Nor one of the user pool.
UserApart(up) ==
    \A q, r \in Process : \A v, w \in UserPage :
        up[q][v] = up[r][w] /\ up[q][v] # NoFrame => q = r /\ v = w

\* The bitmaps of the two pools, and those of the addresses.
KernelBits(ar, pt, ut) ==
    \A f \in KernelFrame :
        ar[f] = 1 <=> \/ \E v \in KernelPage : pt[v] = f
                      \/ \E q \in Process : \E d \in Table : ut[q][d] = f

UserBits(ar, up) ==
    \A i \in 0..KernelVaddr - UserPool - 1 :
        ar[UserPool + i] = 1 <=>
            \E q \in Process : \E v \in UserPage : up[q][v] = kernel_free_pages + i

KernelAddresses(ar, pt) ==
    \A v \in KernelPage : ar[KernelVaddr + v] = 1 <=> pt[v] # NoFrame

UserAddresses(ua, up) ==
    \A q \in Process : \A v \in UserPage : ua[q][v] = 1 <=> up[q][v] # NoFrame

\* An allocation is n pages from v on, which are mapped.
Allocated(o, v, n, pt, up) ==
    /\ v \in Nat /\ n \in Nat \ {0}
    /\ o = Kernel => v + n - 1 <= UserPool /\ \A i \in v..v + n - 1 : pt[i] # NoFrame
    /\ o # Kernel => /\ o \in Process /\ v + n - 1 <= StackPage
                     /\ \A i \in v..v + n - 1 : up[o][i] # NoFrame

AllocationsMapped(pt, up, tk) ==
    \A a \in tk : a = <<a[1], a[2], a[3]>> /\ Allocated(a[1], a[2], a[3], pt, up)

\* No page belongs to two allocations.
AllocationsApart(tk) ==
    \A a, b \in tk :
        a[1] = b[1] /\ (a[2]..a[2] + a[3] - 1) \cap (b[2]..b[2] + b[3] - 1) # {} => a = b

\* The page of the stack is an allocation of its own, and the first frame of
\* the user pool, which ReturnOnePhysicPage would get wrong, is behind such a
\* page: it goes to the process that is started first.
StacksKept(ar, ua, up, tk) ==
    /\ \A q \in Process : ua[q][StackPage] = 1 => <<q, StackPage, 1>> \in tk
    /\ UserPool < KernelVaddr =>
            /\ ar[UserPool] = 0 => \A q \in Process : ua[q][StackPage] = 0
            /\ ar[UserPool] = 1 => \E q \in Process : up[q][StackPage] = kernel_free_pages

PagesOK(ar, pt, ua, up, ut, tk) ==
    /\ TablesTyped(ar, pt, ua, up, ut)
    /\ KernelApart(pt, ut) /\ UserApart(up)
    /\ KernelBits(ar, pt, ut) /\ UserBits(ar, up)
    /\ KernelAddresses(ar, pt) /\ UserAddresses(ua, up)
    /\ AllocationsMapped(pt, up, tk) /\ AllocationsApart(tk)
    /\ StacksKept(ar, ua, up, tk)

PageInv ==
    /\ PanicsOnlyWhenOut
    /\ PagesOK(area, pte, uarea, upte, utable, taken)

-----------------------------------------------------------------------------
\* Where the bitmaps and the pools lie.
LEMMA Lengths ==
    /\ UserPool \in Nat /\ KernelVaddr \in Nat /\ UserPool <= KernelVaddr
    /\ AreaEnd = KernelVaddr + UserPool /\ KernelPage = 0..UserPool
    /\ kernel_free_pages \in Nat /\ UserPool <= kernel_free_pages
    /\ StackPage \in Nat /\ UserPage = 0..StackPage
    /\ kernel_bitmap_length \in Nat /\ UserPool = kernel_bitmap_length * ByteBits
    /\ user_bitmap_length \in Nat
    /\ KernelVaddr - UserPool = user_bitmap_length * ByteBits
    /\ UserBytes \in Nat /\ UserBytes * ByteBits = StackPage + 1
<1> DEFINE k == kernel_bitmap_length
           u == user_bitmap_length
<1>1. ByteBits \in Nat \ {0} /\ kernel_free_pages \in Nat /\ user_free_pages \in Nat
    BY BitmapAssumption, PageAllocAssumption, Zenon
<1>2. k \in Nat /\ k * ByteBits <= kernel_free_pages /\ k * ByteBits \in Nat
    <2>1. ByteBits > 0 /\ ByteBits \in Nat
        BY <1>1
    <2>2. /\ kernel_free_pages = ByteBits * (kernel_free_pages \div ByteBits)
                                    + (kernel_free_pages % ByteBits)
          /\ kernel_free_pages % ByteBits \in Nat
          /\ kernel_free_pages \div ByteBits \in Nat
        BY <1>1, <2>1
    <2>3. k = kernel_free_pages \div ByteBits
        BY Zenon DEF kernel_bitmap_length
    <2> HIDE DEF k
    <2>4. k \in Nat /\ k * ByteBits = ByteBits * k /\ k * ByteBits \in Nat
        BY <1>1, <2>2, <2>3, Times
    <2> QED
        BY <2>2, <2>3, <2>4, <1>1
<1>3. u \in Nat
    BY <1>1 DEF user_bitmap_length
<1>4. u * ByteBits \in Nat
    BY <1>1, <1>3, Times, Zenon
<1>5. (k + u) * ByteBits = k * ByteBits + u * ByteBits
    BY <1>1, <1>2, <1>3
<1>6. UserBytes \in Nat \ {0} /\ UserBytes * ByteBits \in Nat /\ UserBytes * ByteBits > 0
    BY <1>1, PageAllocAssumption
<1> HIDE DEF k, u
<1> QED
    BY <1>1, <1>2, <1>3, <1>4, <1>5, <1>6
        DEF UserPool, KernelVaddr, AreaEnd, KernelPage, StackPage, UserPage, k, u

LEMMA Sizes ==
    /\ UserPool \in Nat /\ KernelVaddr \in Nat /\ UserPool <= KernelVaddr
    /\ AreaEnd = KernelVaddr + UserPool /\ KernelPage = 0..UserPool
    /\ kernel_free_pages \in Nat /\ UserPool <= kernel_free_pages
    /\ StackPage \in Nat /\ UserPage = 0..StackPage
    BY Lengths, Zenon

\* The bits of the frames and of the addresses.
LEMMA AreaBits ==
    /\ \A f \in KernelFrame : f \in 0..AreaEnd
    /\ \A i \in 0..KernelVaddr - UserPool - 1 : UserPool + i \in 0..AreaEnd
    /\ \A w \in KernelPage : KernelVaddr + w \in 0..AreaEnd
    BY Sizes DEF KernelFrame

\* Bits that are set or cleared, and table entries that are written.
WithBits(ar, bits, value) == [i \in 0..AreaEnd |-> IF i \in bits THEN value ELSE ar[i]]
Filled(table, D, set, g) == [i \in D |-> IF i \in set THEN g[i] ELSE table[i]]

\* The bits of the frames and of the addresses that kpalloc gives away, or
\* that pfree takes back.
KernelMarks(set, g) == {KernelVaddr + i : i \in set} \cup {g[i] : i \in set}

\* Pages of the kernel and frames for them.
KernelRange(v, n, g) ==
    /\ v \in Nat /\ n \in Nat \ {0} /\ v + n - 1 <= UserPool
    /\ \A i \in v..v + n - 1 : g[i] \in KernelFrame

\* Frames that are free, and pages that have none.
KernelFree(ar, pt, v, n, g) ==
    /\ KernelRange(v, n, g)
    /\ \A i \in v..v + n - 1 : ar[g[i]] = 0 /\ pt[i] = NoFrame
    /\ \A i, j \in v..v + n - 1 : g[i] = g[j] => i = j

\* The bitmaps afterwards: the bits of the frames g, those of the pages, and
\* all others.
KernelArea(ar, ar2, set, g, value) ==
    /\ \A f \in KernelFrame : (\E i \in set : g[i] = f) => ar2[f] = value
    /\ \A f \in KernelFrame : ~ (\E i \in set : g[i] = f) => ar2[f] = ar[f]
    /\ \A i \in 0..KernelVaddr - UserPool - 1 : ar2[UserPool + i] = ar[UserPool + i]
    /\ \A w \in set : ar2[KernelVaddr + w] = value
    /\ \A w \in KernelPage \ set : ar2[KernelVaddr + w] = ar[KernelVaddr + w]

LEMMA KernelMarked ==
    ASSUME NEW ar, NEW v, NEW n, NEW g, KernelRange(v, n, g), NEW value
    PROVE  LET set == v..v + n - 1
               ar2 == WithBits(ar, KernelMarks(set, g), value)
           IN  /\ set \subseteq KernelPage
               /\ KernelArea(ar, ar2, set, g, value)
<1> DEFINE set == v..v + n - 1
           marks == KernelMarks(set, g)
           ar2 == WithBits(ar, marks, value)
<1>1. set \subseteq KernelPage
    BY Sizes DEF KernelRange
<1>2. \A i \in set : g[i] \in KernelFrame
    BY Zenon DEF KernelRange
<1>3. set \subseteq Nat
    BY <1>1, Sizes
<1> HIDE DEF set
<1>4. ASSUME NEW f \in KernelFrame PROVE f \in marks <=> \E i \in set : g[i] = f
    <2>1. \A i \in set : f # KernelVaddr + i
        BY <1>3, Sizes DEF KernelFrame
    <2> QED
        BY <2>1, Zenon DEF KernelMarks
<1>5. ASSUME NEW i \in 0..KernelVaddr - UserPool - 1 PROVE UserPool + i \notin marks
    <2>1. \A j \in set : UserPool + i # KernelVaddr + j
        BY <1>3, Sizes
    <2>2. UserPool + i \notin KernelFrame
        BY Sizes DEF KernelFrame
    <2> QED
        BY <1>2, <2>1, <2>2, Zenon DEF KernelMarks
<1>6. ASSUME NEW w \in KernelPage PROVE KernelVaddr + w \in marks <=> w \in set
    <2>1. \A j \in set : KernelVaddr + w = KernelVaddr + j => w = j
        BY <1>3, Sizes
    <2>2. KernelVaddr + w \notin KernelFrame
        BY Sizes DEF KernelFrame
    <2> QED
        BY <1>2, <2>1, <2>2, Zenon DEF KernelMarks
<1>7. \A i \in 0..AreaEnd : ar2[i] = IF i \in marks THEN value ELSE ar[i]
    BY Zenon DEF WithBits
<1> HIDE DEF ar2, marks
<1>8. \A f \in KernelFrame : /\ (\E i \in set : g[i] = f) => ar2[f] = value
                             /\ ~ (\E i \in set : g[i] = f) => ar2[f] = ar[f]
    BY <1>4, AreaBits, <1>7, Zenon
<1>9. \A i \in 0..KernelVaddr - UserPool - 1 : ar2[UserPool + i] = ar[UserPool + i]
    BY <1>5, AreaBits, <1>7, Zenon
<1>10. \A w \in KernelPage :
            /\ w \in set => ar2[KernelVaddr + w] = value
            /\ w \notin set => ar2[KernelVaddr + w] = ar[KernelVaddr + w]
    BY <1>6, AreaBits, <1>7, Zenon
<1> QED
    BY <1>1, <1>8, <1>9, <1>10, Zenon DEF KernelArea, ar2, marks, set

\* kpalloc: pages of the kernel that are not mapped get free frames.
LEMMA KernelMapStep ==
    ASSUME NEW ar, NEW pt, NEW ua, NEW up, NEW ut, NEW tk,
           PagesOK(ar, pt, ua, up, ut, tk),
           NEW v, NEW n, NEW g, KernelFree(ar, pt, v, n, g)
    PROVE  PagesOK(WithBits(ar, KernelMarks(v..v + n - 1, g), 1),
                   Filled(pt, KernelPage, v..v + n - 1, g),
                   ua, up, ut, tk \cup {<<Kernel, v, n>>})
<1> DEFINE set == v..v + n - 1
           ar2 == WithBits(ar, KernelMarks(set, g), 1)
           pt2 == Filled(pt, KernelPage, set, g)
           tk2 == tk \cup {<<Kernel, v, n>>}
           Got(f) == \E i \in set : g[i] = f
<1>1. /\ set \subseteq KernelPage
      /\ \A f \in KernelFrame : Got(f) => ar2[f] = 1
      /\ \A f \in KernelFrame : ~ Got(f) => ar2[f] = ar[f]
      /\ \A i \in 0..KernelVaddr - UserPool - 1 : ar2[UserPool + i] = ar[UserPool + i]
      /\ \A w \in set : ar2[KernelVaddr + w] = 1
      /\ \A w \in KernelPage \ set : ar2[KernelVaddr + w] = ar[KernelVaddr + w]
    <2>1. set \subseteq KernelPage /\ KernelArea(ar, ar2, set, g, 1)
        <3>1. KernelRange(v, n, g)
            BY Zenon DEF KernelFree
        <3> QED
            BY <3>1, KernelMarked, Zenon
    <2> QED
        BY <2>1, Zenon DEF KernelArea
<1>2. \A w \in KernelPage : /\ w \in set => pt2[w] = g[w]
                            /\ w \notin set => pt2[w] = pt[w]
    BY Zenon DEF Filled
<1>3. /\ \A i \in set : g[i] \in KernelFrame /\ ar[g[i]] = 0 /\ pt[i] = NoFrame
      /\ \A i, j \in set : g[i] = g[j] => i = j
    BY Zenon DEF KernelFree, KernelRange
<1>4. TablesTyped(ar, pt, ua, up, ut)
    BY Zenon DEF PagesOK
<1>5. NoFrame \notin KernelFrame /\ NoFrame \notin UserFrame
    BY PageAllocAssumption, Sizes DEF KernelFrame, UserFrame
<1>6. TablesTyped(ar2, pt2, ua, up, ut)
    <2>1. ar2 \in [0..AreaEnd -> {0, 1}]
        BY <1>4, Zenon DEF TablesTyped, WithBits
    <2>2. pt2 \in [KernelPage -> KernelFrame \cup {NoFrame}]
        <3>1. \A w \in KernelPage : pt[w] \in KernelFrame \cup {NoFrame}
            BY <1>4, Zenon DEF TablesTyped
        <3>2. \A w \in KernelPage : pt2[w] \in KernelFrame \cup {NoFrame}
            BY <1>2, <1>3, <3>1, Zenon
        <3>3. pt2 = [w \in KernelPage |-> pt2[w]]
            BY Zenon DEF Filled
        <3> HIDE DEF pt2
        <3> QED
            BY <3>2, <3>3, Zenon
    <2> QED
        BY <1>4, <2>1, <2>2, Zenon DEF TablesTyped
\* The frames of the pages were free.
<1>7. \A i \in set : /\ \A w \in KernelPage : pt[w] # g[i]
                     /\ \A q \in Process : \A d \in Table : ut[q][d] # g[i]
    <2>1. \A i \in set : ar[g[i]] # 1
        BY <1>3
    <2>2. KernelBits(ar, pt, ut)
        BY Zenon DEF PagesOK
    <2>3. ASSUME NEW f \in KernelFrame, ar[f] # 1
          PROVE  /\ \A w \in KernelPage : pt[w] # f
                 /\ \A q \in Process : \A d \in Table : ut[q][d] # f
        BY <2>2, <2>3, Zenon DEF KernelBits
    <2>4. \A i \in set : g[i] \in KernelFrame
        BY <1>3, Zenon
    <2> QED
        BY <2>1, <2>3, <2>4, Zenon
<1> HIDE DEF set, ar2, pt2
<1>8. KernelApart(pt2, ut)
    <2>1. KernelApart(pt, ut)
        BY Zenon DEF PagesOK
    <2>2. ASSUME NEW w \in KernelPage, NEW x \in KernelPage, pt2[w] = pt2[x],
                 pt2[w] # NoFrame
          PROVE  w = x
        <3>1. CASE w \in set
            <4>1. x \in set
                BY <1>2, <1>7, <2>2, <3>1, Zenon
            <4>2. pt2[w] = g[w] /\ pt2[x] = g[x]
                BY <1>2, <3>1, <4>1, Zenon
            <4>3. g[w] = g[x]
                BY <2>2, <4>2, Zenon
            <4> QED
                BY <1>3, <3>1, <4>1, <4>3, Zenon
        <3>2. CASE w \notin set
            <4>1. x \notin set
                BY <1>2, <1>7, <2>2, <3>2, Zenon
            <4>2. pt2[w] = pt[w] /\ pt2[x] = pt[x]
                BY <1>2, <3>2, <4>1, Zenon
            <4>3. pt[w] = pt[x] /\ pt[w] # NoFrame
                BY <2>2, <4>2, Zenon
            <4> QED
                BY <2>1, <4>3, Zenon DEF KernelApart
        <3> QED
            BY <3>1, <3>2, Zenon
    <2>3. ASSUME NEW w \in KernelPage, NEW q \in Process, NEW d \in Table,
                 pt2[w] = ut[q][d]
          PROVE  pt2[w] = NoFrame
        <3>1. w \notin set
            BY <1>2, <1>7, <2>3, Zenon
        <3> QED
            BY <1>2, <2>1, <2>3, <3>1 DEF KernelApart
    <2> QED
        BY <2>1, <2>2, <2>3, Zenon DEF KernelApart
<1>9. KernelBits(ar2, pt2, ut)
    <2>1. KernelBits(ar, pt, ut)
        BY Zenon DEF PagesOK
    <2>2. ASSUME NEW f \in KernelFrame
          PROVE  ar2[f] = 1 <=> \/ \E w \in KernelPage : pt2[w] = f
                                \/ \E q \in Process : \E d \in Table : ut[q][d] = f
        <3>1. CASE Got(f)
            <4>1. ar2[f] = 1
                BY <1>1, <3>1, Zenon
            <4>2. \E w \in KernelPage : pt2[w] = f
                BY <1>1, <1>2, <3>1, Zenon
            <4> QED
                BY <4>1, <4>2, Zenon
        <3>2. CASE ~ Got(f)
            <4>1. ar2[f] = ar[f]
                BY <1>1, <3>2, Zenon
            <4>2. (\E w \in KernelPage : pt2[w] = f) <=> (\E w \in KernelPage : pt[w] = f)
                <5>1. ASSUME NEW w \in KernelPage PROVE pt2[w] = f <=> pt[w] = f
                    BY <1>2, <1>3, <1>5, <3>2, Zenon
                <5> QED
                    BY <5>1, Zenon
            <4> QED
                BY <2>1, <4>1, <4>2, Zenon DEF KernelBits
        <3> QED
            BY <3>1, <3>2, Zenon
    <2> QED
        BY <2>2, Zenon DEF KernelBits
<1>10. UserBits(ar2, up)
    BY <1>1, Zenon DEF PagesOK, UserBits
<1>11. KernelAddresses(ar2, pt2)
    <2>1. KernelAddresses(ar, pt)
        BY Zenon DEF PagesOK
    <2>2. ASSUME NEW w \in KernelPage
          PROVE  ar2[KernelVaddr + w] = 1 <=> pt2[w] # NoFrame
        BY <1>1, <1>2, <1>3, <1>5, <2>1 DEF KernelAddresses
    <2> QED
        BY <2>2, Zenon DEF KernelAddresses
<1>12. AllocationsMapped(pt2, up, tk2) /\ AllocationsApart(tk2)
    <2>1. AllocationsMapped(pt, up, tk) /\ AllocationsApart(tk)
        BY Zenon DEF PagesOK
    <2>2. ASSUME NEW a \in tk PROVE Allocated(a[1], a[2], a[3], pt2, up)
        <3>1. Allocated(a[1], a[2], a[3], pt, up)
            BY <2>1, Zenon DEF AllocationsMapped
        <3>2. a[1] = Kernel => \A i \in a[2]..a[2] + a[3] - 1 : i \in KernelPage
            BY <3>1, Sizes DEF Allocated
        <3>3. \A w \in KernelPage : pt[w] # NoFrame => pt2[w] # NoFrame
            BY <1>2, <1>3, Zenon
        <3> QED
            BY <3>1, <3>2, <3>3, Zenon DEF Allocated
    <2>3. Allocated(Kernel, v, n, pt2, up)
        <3>1. \A i \in set : pt2[i] # NoFrame
            BY <1>1, <1>2, <1>3, <1>5
        <3> QED
            BY <3>1, Zenon DEF KernelFree, KernelRange, Allocated, set
    <2>4. AllocationsMapped(pt2, up, tk2)
        <3> DEFINE new == <<Kernel, v, n>>
        <3>1. new = <<new[1], new[2], new[3]>> /\ new[1] = Kernel /\ new[2] = v /\ new[3] = n
            OBVIOUS
        <3> HIDE DEF new
        <3>2. ASSUME NEW a \in tk \cup {new}
              PROVE  a = <<a[1], a[2], a[3]>> /\ Allocated(a[1], a[2], a[3], pt2, up)
            <4>1. CASE a \in tk
                BY <2>1, <2>2, <4>1, Zenon DEF AllocationsMapped
            <4>2. CASE a = new
                BY <2>3, <3>1, <4>2, Zenon
            <4> QED
                BY <4>1, <4>2, Zenon
        <3> QED
            BY <3>2, Zenon DEF AllocationsMapped, new
    <2>5. ASSUME NEW a \in tk, a[1] = Kernel, NEW i \in a[2]..a[2] + a[3] - 1, i \in set
          PROVE  FALSE
        <3>1. Allocated(a[1], a[2], a[3], pt, up)
            BY <2>1, Zenon DEF AllocationsMapped
        <3>2. pt[i] # NoFrame
            BY <2>5, <3>1, Zenon DEF Allocated
        <3> QED
            BY <1>3, <2>5, <3>2, Zenon
    <2>6. AllocationsApart(tk2)
        <3> DEFINE new == <<Kernel, v, n>>
        <3>1. new[1] = Kernel /\ new[2]..new[2] + new[3] - 1 = set
            BY Zenon DEF set
        <3> HIDE DEF new
        <3>2. ASSUME NEW a \in tk \cup {new}, NEW b \in tk \cup {new}, a[1] = b[1],
                     NEW i \in a[2]..a[2] + a[3] - 1, i \in b[2]..b[2] + b[3] - 1
              PROVE  a = b
            <4>1. CASE a \in tk /\ b \in tk
                BY <2>1, <3>2, <4>1, Zenon DEF AllocationsApart
            <4>2. a \in tk /\ b = new => FALSE
                BY <2>5, <3>1, <3>2, Zenon
            <4>3. b \in tk /\ a = new => FALSE
                BY <2>5, <3>1, <3>2, Zenon
            <4> QED
                BY <4>1, <4>2, <4>3, Zenon
        <3> QED
            BY <3>2, Zenon DEF AllocationsApart, new
    <2> QED
        BY <2>4, <2>6, Zenon
<1>13. StacksKept(ar2, ua, up, tk2)
    <2>1. StacksKept(ar, ua, up, tk)
        BY Zenon DEF PagesOK
    <2>2. UserPool < KernelVaddr => ar2[UserPool] = ar[UserPool]
        <3>1. UserPool < KernelVaddr =>
                0 \in 0..KernelVaddr - UserPool - 1 /\ UserPool + 0 = UserPool
            BY Sizes
        <3> QED
            BY <1>1, <3>1, Zenon
    <2> QED
        BY <2>1, <2>2, Zenon DEF StacksKept
<1> QED
    BY <1>6, <1>8, <1>9, <1>10, <1>11, <1>12, <1>13, Zenon DEF PagesOK, set, ar2, pt2

-----------------------------------------------------------------------------
\* What PageMapping sets in the bitmaps of the pools and of the process, and
\* the entries that it writes: page i of set gets the frame of bit g[i], and
\* directory entry d of M the frame tb[d].
UserMarks(M, tb, set, g) == {tb[d] : d \in M} \cup {UserPool + g[i] : i \in set}
UserFrames(set, g) == [i \in set |-> kernel_free_pages + g[i]]
FilledOf(all, q, D, set, g) == [all EXCEPT ![q] = Filled(all[q], D, set, g)]
RangeOf(all, q, v, n, value) == [all EXCEPT ![q] = SetRange(all[q], 0, v, n, value)]

\* Pages of process q, bits of the user pool and frames for its tables.
UserRange(q, v, n, g, M, tb) ==
    /\ q \in Process /\ v \in Nat /\ n \in Nat \ {0} /\ v + n - 1 <= StackPage
    /\ \A i \in v..v + n - 1 : g[i] \in 0..KernelVaddr - UserPool - 1
    /\ M \subseteq Table /\ \A d \in M : tb[d] \in KernelFrame

\* Frames for pages of process q that have none, and for tables it lacks.  If
\* one of the pages is that of the stack, it is the only one, and gets the
\* first frame of the pool if that is free.
UserFree(ar, up, ut, q, v, n, g, M, tb) ==
    /\ UserRange(q, v, n, g, M, tb)
    /\ \A i \in v..v + n - 1 : ar[UserPool + g[i]] = 0 /\ up[q][i] = NoFrame
    /\ \A i, j \in v..v + n - 1 : g[i] = g[j] => i = j
    /\ \A d \in M : ar[tb[d]] = 0 /\ ut[q][d] = NoFrame
    /\ \A d, e \in M : tb[d] = tb[e] => d = e
    /\ StackPage \in v..v + n - 1 =>
            v = StackPage /\ n = 1 /\ (ar[UserPool] = 0 => g[StackPage] = 0)
    /\ StackPage \notin v..v + n - 1 => up[q][StackPage] # NoFrame

UserArea(ar, ar2, M, tb, set, g, value) ==
    /\ \A f \in KernelFrame : (\E d \in M : tb[d] = f) => ar2[f] = value
    /\ \A f \in KernelFrame : ~ (\E d \in M : tb[d] = f) => ar2[f] = ar[f]
    /\ \A i \in 0..KernelVaddr - UserPool - 1 :
            (\E j \in set : g[j] = i) => ar2[UserPool + i] = value
    /\ \A i \in 0..KernelVaddr - UserPool - 1 :
            ~ (\E j \in set : g[j] = i) => ar2[UserPool + i] = ar[UserPool + i]
    /\ \A w \in KernelPage : ar2[KernelVaddr + w] = ar[KernelVaddr + w]

LEMMA UserMarked ==
    ASSUME NEW ar, NEW q, NEW v, NEW n, NEW g, NEW M, NEW tb,
           UserRange(q, v, n, g, M, tb), NEW value
    PROVE  LET set == v..v + n - 1
               ar2 == WithBits(ar, UserMarks(M, tb, set, g), value)
           IN  /\ set \subseteq UserPage
               /\ UserArea(ar, ar2, M, tb, set, g, value)
<1> DEFINE set == v..v + n - 1
           marks == UserMarks(M, tb, set, g)
           ar2 == WithBits(ar, marks, value)
           UserBit == 0..KernelVaddr - UserPool - 1
<1>1. set \subseteq UserPage
    BY Sizes DEF UserRange
<1>2. (\A i \in set : g[i] \in UserBit) /\ (\A d \in M : tb[d] \in KernelFrame)
    BY Zenon DEF UserRange
<1> HIDE DEF set
<1>3. ASSUME NEW f \in KernelFrame PROVE f \in marks <=> \E d \in M : tb[d] = f
    <2>1. \A i \in set : f # UserPool + g[i]
        BY <1>2, Sizes DEF KernelFrame
    <2> QED
        BY <2>1, Zenon DEF UserMarks
<1>4. ASSUME NEW i \in UserBit PROVE UserPool + i \in marks <=> \E j \in set : g[j] = i
    <2>1. UserPool + i \notin KernelFrame
        BY Sizes DEF KernelFrame
    <2>2. \A j \in set : UserPool + i = UserPool + g[j] <=> g[j] = i
        BY <1>2, Sizes
    <2> QED
        BY <1>2, <2>1, <2>2, Zenon DEF UserMarks
<1>5. ASSUME NEW w \in KernelPage PROVE KernelVaddr + w \notin marks
    <2>1. KernelVaddr + w \notin KernelFrame
        BY Sizes DEF KernelFrame
    <2>2. \A j \in set : KernelVaddr + w # UserPool + g[j]
        BY <1>2, Sizes
    <2> QED
        BY <1>2, <2>1, <2>2, Zenon DEF UserMarks
<1>6. \A i \in 0..AreaEnd : ar2[i] = IF i \in marks THEN value ELSE ar[i]
    BY Zenon DEF WithBits
<1> HIDE DEF ar2, marks
<1>7. \A f \in KernelFrame : /\ (\E d \in M : tb[d] = f) => ar2[f] = value
                             /\ ~ (\E d \in M : tb[d] = f) => ar2[f] = ar[f]
    BY <1>3, <1>6, AreaBits, Zenon
<1>8. \A i \in UserBit : /\ (\E j \in set : g[j] = i) => ar2[UserPool + i] = value
                         /\ ~ (\E j \in set : g[j] = i) =>
                                ar2[UserPool + i] = ar[UserPool + i]
    BY <1>4, <1>6, AreaBits, Zenon
<1>9. \A w \in KernelPage : ar2[KernelVaddr + w] = ar[KernelVaddr + w]
    BY <1>5, <1>6, AreaBits, Zenon
<1> QED
    BY <1>1, <1>7, <1>8, <1>9, Zenon DEF UserArea, ar2, marks, set

\* The bitmap and the page tables of process q afterwards; the others keep
\* theirs.
PageEntries(ua, up, ua2, up2, q, set, value, uf) ==
    /\ \A r \in Process : r # q => ua2[r] = ua[r] /\ up2[r] = up[r]
    /\ \A i \in set : ua2[q][i] = value /\ up2[q][i] = uf[i]
    /\ \A i \in UserPage \ set : ua2[q][i] = ua[q][i] /\ up2[q][i] = up[q][i]

LEMMA PagesWritten ==
    ASSUME NEW ua \in [Process -> [0..StackPage + 1 -> {0, 1}]],
           NEW up \in [Process -> [UserPage -> UserFrame \cup {NoFrame}]],
           NEW q \in Process, NEW v \in Nat, NEW n \in Nat, v..v + n - 1 \subseteq UserPage,
           NEW value \in {0, 1},
           NEW uf \in [v..v + n - 1 -> UserFrame \cup {NoFrame}]
    PROVE  LET ua2 == RangeOf(ua, q, v, n, value)
               up2 == FilledOf(up, q, UserPage, v..v + n - 1, uf)
           IN  /\ ua2 \in [Process -> [0..StackPage + 1 -> {0, 1}]]
               /\ up2 \in [Process -> [UserPage -> UserFrame \cup {NoFrame}]]
               /\ PageEntries(ua, up, ua2, up2, q, v..v + n - 1, value, uf)
<1> DEFINE set == v..v + n - 1
           ua2 == RangeOf(ua, q, v, n, value)
           up2 == FilledOf(up, q, UserPage, set, uf)
           Area == 0..StackPage + 1
           Entry == UserFrame \cup {NoFrame}
<1>1. ua[q] \in [Area -> {0, 1}] /\ up[q] \in [UserPage -> Entry]
    BY Zenon
<1>2. /\ ua2 \in [Process -> [Area -> {0, 1}]]
      /\ \A r \in Process : r # q => ua2[r] = ua[r]
      /\ \A i \in Area : ua2[q][i] = IF i \in set THEN value ELSE ua[q][i]
    <2> DEFINE row == SetRange(ua[q], 0, v, n, value)
    <2>1. row = [i \in Area |-> IF i \in set THEN value ELSE ua[q][i]]
        <3>1. DOMAIN ua[q] = Area
            BY <1>1, Zenon
        <3>2. 0 + v..0 + v + n - 1 = set
            OBVIOUS
        <3> QED
            BY <3>1, <3>2, Zenon DEF SetRange
    <2>2. ua2 = [ua EXCEPT ![q] = row]
        BY Zenon DEF RangeOf
    <2> HIDE DEF row, ua2, set, Area
    <2>3. row \in [Area -> {0, 1}]
        BY <1>1, <2>1, Zenon
    <2> QED
        BY <2>1, <2>2, <2>3, Zenon DEF Area
<1>3. /\ up2 \in [Process -> [UserPage -> Entry]]
      /\ \A r \in Process : r # q => up2[r] = up[r]
      /\ \A i \in UserPage : up2[q][i] = IF i \in set THEN uf[i] ELSE up[q][i]
    <2> DEFINE row == [i \in UserPage |-> IF i \in set THEN uf[i] ELSE up[q][i]]
    <2>1. up2 = [up EXCEPT ![q] = row]
        BY Zenon DEF FilledOf, Filled
    <2>2. \A i \in set : uf[i] \in Entry
        BY Zenon
    <2> HIDE DEF up2, set, Entry
    <2>3. row \in [UserPage -> Entry]
        BY <1>1, <2>2, Zenon
    <2>4. \A i \in UserPage : row[i] = IF i \in set THEN uf[i] ELSE up[q][i]
        BY Zenon
    <2> HIDE DEF row
    <2> QED
        BY <2>1, <2>3, <2>4, Zenon DEF Entry
<1>4. UserPage \subseteq Area /\ set \subseteq UserPage
    <2> HIDE DEF set
    <2>1. UserPage \subseteq Area
        BY Sizes
    <2> QED
        BY <2>1, Zenon DEF set
<1> HIDE DEF ua2, up2, set, Area, Entry
<1>5. \A i \in set : ua2[q][i] = value /\ up2[q][i] = uf[i]
    BY <1>2, <1>3, <1>4, Zenon
<1>6. \A i \in UserPage \ set : ua2[q][i] = ua[q][i] /\ up2[q][i] = up[q][i]
    BY <1>2, <1>3, <1>4, Zenon
<1> QED
    BY <1>2, <1>3, <1>5, <1>6, Zenon DEF PageEntries, ua2, up2, set, Area, Entry

\* The directory of process q afterwards.
TableFrames(M, tb) == \A d \in M : tb[d] \in KernelFrame

TableEntries(ut, ut2, q, M, tb) ==
    /\ \A r \in Process : r # q => ut2[r] = ut[r]
    /\ \A d \in M : ut2[q][d] = tb[d]
    /\ \A d \in Table \ M : ut2[q][d] = ut[q][d]

LEMMA TablesWritten ==
    ASSUME NEW ut \in [Process -> [Table -> KernelFrame \cup {NoFrame}]],
           NEW q \in Process, NEW M \in SUBSET Table, NEW tb, TableFrames(M, tb)
    PROVE  LET ut2 == FilledOf(ut, q, Table, M, tb)
           IN  /\ ut2 \in [Process -> [Table -> KernelFrame \cup {NoFrame}]]
               /\ TableEntries(ut, ut2, q, M, tb)
<1> DEFINE ut2 == FilledOf(ut, q, Table, M, tb)
           row == [d \in Table |-> IF d \in M THEN tb[d] ELSE ut[q][d]]
<1>1. ut2 = [ut EXCEPT ![q] = row]
    BY Zenon DEF FilledOf, Filled
<1> HIDE DEF ut2
<1>2. row \in [Table -> KernelFrame \cup {NoFrame}]
    BY Zenon DEF TableFrames
<1>3. \A d \in Table : row[d] = IF d \in M THEN tb[d] ELSE ut[q][d]
    BY Zenon
<1> HIDE DEF row
<1> QED
    BY <1>1, <1>2, <1>3, Zenon DEF ut2, TableEntries

\* PageMapping: pages of a process that are not mapped get free frames.
LEMMA UserMapStep ==
    ASSUME NEW ar, NEW pt, NEW ua, NEW up, NEW ut, NEW tk,
           PagesOK(ar, pt, ua, up, ut, tk),
           NEW q, NEW v, NEW n, NEW g, NEW M, NEW tb,
           UserFree(ar, up, ut, q, v, n, g, M, tb)
    PROVE  PagesOK(WithBits(ar, UserMarks(M, tb, v..v + n - 1, g), 1), pt,
                   RangeOf(ua, q, v, n, 1),
                   FilledOf(up, q, UserPage, v..v + n - 1, UserFrames(v..v + n - 1, g)),
                   FilledOf(ut, q, Table, M, tb),
                   tk \cup {<<q, v, n>>})
<1> DEFINE set == v..v + n - 1
           ar2 == WithBits(ar, UserMarks(M, tb, set, g), 1)
           uf == UserFrames(set, g)
           ua2 == RangeOf(ua, q, v, n, 1)
           up2 == FilledOf(up, q, UserPage, set, uf)
           ut2 == FilledOf(ut, q, Table, M, tb)
           tk2 == tk \cup {<<q, v, n>>}
           UserBit == 0..KernelVaddr - UserPool - 1
           Got(i) == \E j \in set : g[j] = i
           GotTable(f) == \E d \in M : tb[d] = f
<1>1. /\ set \subseteq UserPage
      /\ \A f \in KernelFrame : GotTable(f) => ar2[f] = 1
      /\ \A f \in KernelFrame : ~ GotTable(f) => ar2[f] = ar[f]
      /\ \A i \in UserBit : Got(i) => ar2[UserPool + i] = 1
      /\ \A i \in UserBit : ~ Got(i) => ar2[UserPool + i] = ar[UserPool + i]
      /\ \A w \in KernelPage : ar2[KernelVaddr + w] = ar[KernelVaddr + w]
    <2>1. set \subseteq UserPage /\ UserArea(ar, ar2, M, tb, set, g, 1)
        <3>1. UserRange(q, v, n, g, M, tb)
            BY Zenon DEF UserFree
        <3> QED
            BY <3>1, UserMarked, Zenon
    <2> QED
        BY <2>1, Zenon DEF UserArea
<1>2. TablesTyped(ar, pt, ua, up, ut)
    BY Zenon DEF PagesOK
<1>4. /\ q \in Process /\ v \in Nat /\ n \in Nat \ {0} /\ v + n - 1 <= StackPage
      /\ \A i \in set : g[i] \in UserBit /\ ar[UserPool + g[i]] = 0 /\ up[q][i] = NoFrame
      /\ \A i, j \in set : g[i] = g[j] => i = j
      /\ M \subseteq Table
      /\ \A d \in M : tb[d] \in KernelFrame /\ ar[tb[d]] = 0 /\ ut[q][d] = NoFrame
      /\ \A d, e \in M : tb[d] = tb[e] => d = e
    BY Zenon DEF UserFree, UserRange
<1>3. /\ TablesTyped(ar2, pt, ua2, up2, ut2)
      /\ \A r \in Process : r # q => ua2[r] = ua[r] /\ up2[r] = up[r] /\ ut2[r] = ut[r]
      /\ \A i \in set : ua2[q][i] = 1 /\ up2[q][i] = kernel_free_pages + g[i]
      /\ \A i \in UserPage \ set : ua2[q][i] = ua[q][i] /\ up2[q][i] = up[q][i]
      /\ \A d \in M : ut2[q][d] = tb[d]
      /\ \A d \in Table \ M : ut2[q][d] = ut[q][d]
    <2>1. \A i \in set : uf[i] = kernel_free_pages + g[i]
        BY Zenon DEF UserFrames
    <2>2. uf \in [set -> UserFrame \cup {NoFrame}]
        <3> HIDE DEF set
        <3>1. \A i \in set : kernel_free_pages + g[i] \in UserFrame
            BY <1>4, Sizes DEF UserFrame
        <3> QED
            BY <3>1, Zenon DEF UserFrames
    <2>3. /\ ua \in [Process -> [0..StackPage + 1 -> {0, 1}]]
          /\ up \in [Process -> [UserPage -> UserFrame \cup {NoFrame}]]
          /\ ut \in [Process -> [Table -> KernelFrame \cup {NoFrame}]]
        BY <1>2, Zenon DEF TablesTyped
    <2>4. n \in Nat /\ 1 \in {0, 1}
        BY <1>4, Zenon
    <2> HIDE DEF uf
    <2>5. /\ ua2 \in [Process -> [0..StackPage + 1 -> {0, 1}]]
          /\ up2 \in [Process -> [UserPage -> UserFrame \cup {NoFrame}]]
          /\ PageEntries(ua, up, ua2, up2, q, set, 1, uf)
        BY <1>1, <1>4, <2>2, <2>3, <2>4, PagesWritten, Zenon
    <2>6. /\ ut2 \in [Process -> [Table -> KernelFrame \cup {NoFrame}]]
          /\ TableEntries(ut, ut2, q, M, tb)
        <3>1. M \in SUBSET Table /\ TableFrames(M, tb)
            BY <1>4, Zenon DEF TableFrames
        <3> QED
            BY <1>4, <2>3, <3>1, TablesWritten, Zenon
    <2>7. ar2 \in [0..AreaEnd -> {0, 1}]
        BY <1>2, Zenon DEF TablesTyped, WithBits
    <2> HIDE DEF ar2, ua2, up2, ut2, set
    <2>8. TablesTyped(ar2, pt, ua2, up2, ut2)
        BY <1>2, <2>5, <2>6, <2>7, Zenon DEF TablesTyped
    <2> QED
        BY <2>1, <2>5, <2>6, <2>8, Zenon DEF PageEntries, TableEntries
<1>5. /\ StackPage \in set =>
            v = StackPage /\ n = 1 /\ (ar[UserPool] = 0 => g[StackPage] = 0)
      /\ StackPage \notin set => up[q][StackPage] # NoFrame
    BY Zenon DEF UserFree
<1> HIDE DEF set, ar2, ua2, up2, ut2, uf
<1>6. \A i \in UserBit : kernel_free_pages + i # NoFrame
    BY PageAllocAssumption, Sizes
<1>7. \A f \in KernelFrame : f # NoFrame
    BY PageAllocAssumption, Sizes DEF KernelFrame
<1>8. \A i, j \in UserBit : kernel_free_pages + i = kernel_free_pages + j => i = j
    BY Sizes
\* The frames were free.
<1>9. \A i \in set : \A r \in Process : \A w \in UserPage : up[r][w] # kernel_free_pages + g[i]
    <2>1. \A i \in set : ar[UserPool + g[i]] # 1
        BY <1>4
    <2>2. UserBits(ar, up)
        BY Zenon DEF PagesOK
    <2>3. ASSUME NEW j \in 0..KernelVaddr - UserPool - 1, ar[UserPool + j] # 1
          PROVE  \A r \in Process : \A w \in UserPage : up[r][w] # kernel_free_pages + j
        BY <2>2, <2>3, Zenon DEF UserBits
    <2>4. \A i \in set : g[i] \in 0..KernelVaddr - UserPool - 1
        BY <1>4, Zenon
    <2> QED
        BY <2>1, <2>3, <2>4, Zenon
<1>10. \A d \in M : /\ \A w \in KernelPage : pt[w] # tb[d]
                    /\ \A r \in Process : \A e \in Table : ut[r][e] # tb[d]
    <2>1. \A d \in M : ar[tb[d]] # 1
        BY <1>4
    <2>2. KernelBits(ar, pt, ut)
        BY Zenon DEF PagesOK
    <2> QED
        BY <1>4, <2>1, <2>2 DEF KernelBits
\* An entry that is not written is the old one.
<1>11. \A r \in Process : \A i \in UserPage :
            ~ (r = q /\ i \in set) => up2[r][i] = up[r][i] /\ ua2[r][i] = ua[r][i]
    BY <1>3, <1>4
<1>12. \A r \in Process : \A d \in Table : ~ (r = q /\ d \in M) => ut2[r][d] = ut[r][d]
    BY <1>3, <1>4, Zenon
<1>13. UserApart(up2)
    <2>1. UserApart(up)
        BY Zenon DEF PagesOK
    <2>2. ASSUME NEW r \in Process, NEW s \in Process, NEW i \in UserPage, NEW j \in UserPage,
                 up2[r][i] = up2[s][j], up2[r][i] # NoFrame
          PROVE  r = s /\ i = j
        <3>1. CASE ~ (r = q /\ i \in set) /\ ~ (s = q /\ j \in set)
            BY <1>11, <2>1, <2>2, <3>1 DEF UserApart
        <3>2. CASE (r = q /\ i \in set) /\ (s = q /\ j \in set)
            <4>1. g[i] = g[j]
                BY <1>3, <1>4, <1>8, <2>2, <3>2
            <4> QED
                BY <1>4, <3>2, <4>1, Zenon
        <3>3. CASE (r = q /\ i \in set) /\ ~ (s = q /\ j \in set)
            BY <1>3, <1>9, <1>11, <2>2, <3>3
        <3>4. CASE ~ (r = q /\ i \in set) /\ (s = q /\ j \in set)
            BY <1>3, <1>9, <1>11, <2>2, <3>4
        <3> QED
            BY <3>1, <3>2, <3>3, <3>4, Zenon
    <2> QED
        BY <2>2 DEF UserApart
<1>14. KernelApart(pt, ut2)
    <2>1. KernelApart(pt, ut)
        BY Zenon DEF PagesOK
    <2>2. ASSUME NEW r \in Process, NEW s \in Process, NEW d \in Table, NEW e \in Table,
                 ut2[r][d] = ut2[s][e], ut2[r][d] # NoFrame
          PROVE  r = s /\ d = e
        <3>1. CASE ~ (r = q /\ d \in M) /\ ~ (s = q /\ e \in M)
            <4>1. ut[r][d] = ut[s][e] /\ ut[r][d] # NoFrame
                BY <1>12, <2>2, <3>1, Zenon
            <4> QED
                BY <2>1, <4>1 DEF KernelApart
        <3>2. CASE (r = q /\ d \in M) /\ (s = q /\ e \in M)
            BY <1>3, <1>4, <2>2, <3>2
        <3>3. CASE (r = q /\ d \in M) /\ ~ (s = q /\ e \in M)
            BY <1>3, <1>10, <1>12, <2>2, <3>3
        <3>4. CASE ~ (r = q /\ d \in M) /\ (s = q /\ e \in M)
            BY <1>3, <1>10, <1>12, <2>2, <3>4
        <3> QED
            BY <3>1, <3>2, <3>3, <3>4, Zenon
    <2>3. ASSUME NEW w \in KernelPage, NEW r \in Process, NEW d \in Table, pt[w] = ut2[r][d]
          PROVE  pt[w] = NoFrame
        <3>1. ~ (r = q /\ d \in M)
            BY <1>3, <1>10, <2>3
        <3>2. pt[w] = ut[r][d]
            BY <1>12, <2>3, <3>1, Zenon
        <3> QED
            BY <2>1, <3>2, Zenon DEF KernelApart
    <2>4. \A w, x \in KernelPage : pt[w] = pt[x] /\ pt[w] # NoFrame => w = x
        BY <2>1, Zenon DEF KernelApart
    <2> QED
        BY <2>2, <2>3, <2>4 DEF KernelApart
<1>15. KernelBits(ar2, pt, ut2)
    <2>1. KernelBits(ar, pt, ut)
        BY Zenon DEF PagesOK
    <2>2. ASSUME NEW f \in KernelFrame
          PROVE  ar2[f] = 1 <=> \/ \E w \in KernelPage : pt[w] = f
                                \/ \E r \in Process : \E d \in Table : ut2[r][d] = f
        <3>1. CASE GotTable(f)
            <4>1. ar2[f] = 1
                BY <1>1, <3>1, Zenon
            <4>2. \E r \in Process : \E d \in Table : ut2[r][d] = f
                BY <1>3, <1>4, <3>1
            <4> QED
                BY <4>1, <4>2, Zenon
        <3>2. CASE ~ GotTable(f)
            <4>1. ar2[f] = ar[f]
                BY <1>1, <3>2, Zenon
            <4>2. ASSUME NEW r \in Process, NEW d \in Table PROVE ut2[r][d] = f <=> ut[r][d] = f
                <5>1. CASE r = q /\ d \in M
                    <6>1. ut2[r][d] # f
                        BY <1>3, <3>2, <5>1, Zenon
                    <6>2. ut[r][d] # f
                        BY <1>4, <1>7, <5>1, Zenon
                    <6> QED
                        BY <6>1, <6>2, Zenon
                <5>2. CASE ~ (r = q /\ d \in M)
                    BY <1>12, <5>2, Zenon
                <5> QED
                    BY <5>1, <5>2, Zenon
            <4>3. (\E r \in Process : \E d \in Table : ut2[r][d] = f)
                     <=> \E r \in Process : \E d \in Table : ut[r][d] = f
                BY <4>2, Zenon
            <4>4. ar[f] = 1 <=> \/ \E w \in KernelPage : pt[w] = f
                               \/ \E r \in Process : \E d \in Table : ut[r][d] = f
                BY <2>1, Zenon DEF KernelBits
            <4> QED
                BY <4>1, <4>3, <4>4, Zenon
        <3> QED
            BY <3>1, <3>2, Zenon
    <2> QED
        BY <2>2, Zenon DEF KernelBits
<1>16. UserBits(ar2, up2)
    <2>1. UserBits(ar, up)
        BY Zenon DEF PagesOK
    <2>2. ASSUME NEW i \in UserBit
          PROVE  ar2[UserPool + i] = 1 <=>
                    \E r \in Process : \E w \in UserPage : up2[r][w] = kernel_free_pages + i
        <3>1. CASE Got(i)
            <4>1. ar2[UserPool + i] = 1
                BY <1>1, <3>1, Zenon
            <4>2. \E r \in Process : \E w \in UserPage : up2[r][w] = kernel_free_pages + i
                BY <1>1, <1>3, <1>4, <3>1
            <4> QED
                BY <4>1, <4>2, Zenon
        <3>2. CASE ~ Got(i)
            <4>1. ar2[UserPool + i] = ar[UserPool + i]
                BY <1>1, <3>2, Zenon
            <4>2. ASSUME NEW r \in Process, NEW w \in UserPage
                  PROVE  up2[r][w] = kernel_free_pages + i <=> up[r][w] = kernel_free_pages + i
                <5>1. CASE r = q /\ w \in set
                    <6>1. up2[r][w] # kernel_free_pages + i
                        BY <1>3, <1>4, <1>8, <3>2, <5>1
                    <6>2. up[r][w] # kernel_free_pages + i
                        BY <1>4, <1>6, <5>1, Zenon
                    <6> QED
                        BY <6>1, <6>2, Zenon
                <5>2. CASE ~ (r = q /\ w \in set)
                    BY <1>11, <5>2, Zenon
                <5> QED
                    BY <5>1, <5>2, Zenon
            <4> QED
                BY <2>1, <4>1, <4>2, Zenon DEF UserBits
        <3> QED
            BY <3>1, <3>2, Zenon
    <2> QED
        BY <2>2, Zenon DEF UserBits
<1>17. KernelAddresses(ar2, pt)
    BY <1>1, Zenon DEF PagesOK, KernelAddresses
<1>18. UserAddresses(ua2, up2)
    <2>1. UserAddresses(ua, up)
        BY Zenon DEF PagesOK
    <2>2. ASSUME NEW r \in Process, NEW w \in UserPage
          PROVE  ua2[r][w] = 1 <=> up2[r][w] # NoFrame
        <3>1. CASE r = q /\ w \in set
            BY <1>3, <1>4, <1>6, <3>1
        <3>2. CASE ~ (r = q /\ w \in set)
            <4>1. ua[r][w] = 1 <=> up[r][w] # NoFrame
                BY <2>1, Zenon DEF UserAddresses
            <4>2. ua2[r][w] = ua[r][w] /\ up2[r][w] = up[r][w]
                BY <1>11, <3>2, Zenon
            <4> QED
                BY <4>1, <4>2, Zenon
        <3> QED
            BY <3>1, <3>2, Zenon
    <2> QED
        BY <2>2, Zenon DEF UserAddresses
<1>19. AllocationsMapped(pt, up2, tk2) /\ AllocationsApart(tk2)
    <2>1. AllocationsMapped(pt, up, tk) /\ AllocationsApart(tk)
        BY Zenon DEF PagesOK
    <2>2. ASSUME NEW a \in tk PROVE Allocated(a[1], a[2], a[3], pt, up2)
        <3>1. Allocated(a[1], a[2], a[3], pt, up)
            BY <2>1, Zenon DEF AllocationsMapped
        <3>2. a[1] # Kernel => \A i \in a[2]..a[2] + a[3] - 1 : i \in UserPage
            BY <3>1, Sizes DEF Allocated
        <3>3. \A r \in Process : \A w \in UserPage : up[r][w] # NoFrame => up2[r][w] # NoFrame
            BY <1>4, <1>11
        <3> QED
            BY <3>1, <3>2, <3>3, Zenon DEF Allocated
    <2>3. Allocated(q, v, n, pt, up2) /\ q # Kernel
        <3>1. \A i \in set : up2[q][i] # NoFrame
            BY <1>3, <1>4, <1>6
        <3>2. q # Kernel
            BY <1>4, PageAllocAssumption, Zenon
        <3> QED
            BY <1>4, <3>1, <3>2, Zenon DEF Allocated, set
    <2> DEFINE new == <<q, v, n>>
    <2>4. new = <<new[1], new[2], new[3]>> /\ new[1] = q /\ new[2] = v /\ new[3] = n
        OBVIOUS
    <2>5. tk2 = tk \cup {new}
        BY Zenon
    <2>6. new[2]..new[2] + new[3] - 1 = set
        BY <2>4, Zenon DEF set
    <2> HIDE DEF new, tk2
    <2>7. AllocationsMapped(pt, up2, tk2)
        <3>1. ASSUME NEW a \in tk2
              PROVE  a = <<a[1], a[2], a[3]>> /\ Allocated(a[1], a[2], a[3], pt, up2)
            <4>1. CASE a \in tk
                BY <2>1, <2>2, <4>1, Zenon DEF AllocationsMapped
            <4>2. CASE a = new
                BY <2>3, <2>4, <4>2, Zenon
            <4> QED
                BY <2>5, <4>1, <4>2, Zenon
        <3> QED
            BY <3>1, Zenon DEF AllocationsMapped
    <2>8. ASSUME NEW a \in tk, a[1] = q, NEW i \in a[2]..a[2] + a[3] - 1, i \in set
          PROVE  FALSE
        <3>1. Allocated(a[1], a[2], a[3], pt, up)
            BY <2>1, Zenon DEF AllocationsMapped
        <3>2. up[q][i] # NoFrame
            BY <2>3, <2>8, <3>1, Zenon DEF Allocated
        <3> QED
            BY <1>4, <2>8, <3>2, Zenon
    <2>9. ASSUME NEW a \in tk2, NEW b \in tk2, a[1] = b[1],
                 NEW i \in a[2]..a[2] + a[3] - 1, i \in b[2]..b[2] + b[3] - 1
          PROVE  a = b
        <3>1. CASE a \in tk /\ b \in tk
            BY <2>1, <2>9, <3>1, Zenon DEF AllocationsApart
        <3>2. a \in tk /\ b = new => FALSE
            BY <2>4, <2>6, <2>8, <2>9, Zenon
        <3>3. b \in tk /\ a = new => FALSE
            BY <2>4, <2>6, <2>8, <2>9, Zenon
        <3> QED
            BY <2>5, <3>1, <3>2, <3>3, Zenon
    <2>10. AllocationsApart(tk2)
        BY <2>9, Zenon DEF AllocationsApart
    <2> QED
        BY <2>7, <2>10, Zenon
<1>20. StacksKept(ar2, ua2, up2, tk2)
    <2>1. StacksKept(ar, ua, up, tk) /\ UserAddresses(ua, up)
        BY Zenon DEF PagesOK
    <2>2. StackPage \in UserPage
        BY Sizes
    <2>3. ASSUME NEW r \in Process, ua2[r][StackPage] = 1 PROVE <<r, StackPage, 1>> \in tk2
        <3>1. CASE r = q /\ StackPage \in set
            BY <1>5, <3>1, Zenon
        <3>2. CASE ~ (r = q /\ StackPage \in set)
            BY <1>11, <2>1, <2>2, <2>3, <3>2, Zenon DEF StacksKept
        <3> QED
            BY <3>1, <3>2, Zenon
    <2>4. ASSUME UserPool < KernelVaddr
          PROVE  /\ ar2[UserPool] = 0 => \A r \in Process : ua2[r][StackPage] = 0
                 /\ ar2[UserPool] = 1 =>
                        \E r \in Process : up2[r][StackPage] = kernel_free_pages
        <3>1. 0 \in UserBit /\ UserPool + 0 = UserPool
            BY <2>4, Sizes
        <3>2. (Got(0) => ar2[UserPool] = 1) /\ (~ Got(0) => ar2[UserPool] = ar[UserPool])
            BY <1>1, <3>1, Zenon
        <3>3. ar[UserPool] \in {0, 1}
            <4>1. UserPool \in 0..AreaEnd
                BY Sizes
            <4> QED
                BY <1>2, <4>1, Zenon DEF TablesTyped
        <3>4. CASE ar[UserPool] = 1
            <4>1. PICK r \in Process : up[r][StackPage] = kernel_free_pages
                BY <2>1, <2>4, <3>4, Zenon DEF StacksKept
            <4>2. kernel_free_pages # NoFrame
                BY Sizes, PageAllocAssumption, Zenon
            <4>3. up2[r][StackPage] = kernel_free_pages
                BY <1>4, <1>11, <2>2, <4>1, <4>2
            <4>4. ar2[UserPool] = 1
                BY <3>2, <3>4, Zenon
            <4> QED
                BY <4>3, <4>4
        <3>5. CASE ar[UserPool] = 0
            <4>1. ua[q][StackPage] = 0
                BY <1>4, <2>1, <2>4, <3>5, Zenon DEF StacksKept
            <4>2. ua[q][StackPage] # 1
                BY <4>1
            <4>3. up[q][StackPage] = NoFrame
                BY <1>4, <2>1, <2>2, <4>2, Zenon DEF UserAddresses
            <4>4. StackPage \in set /\ g[StackPage] = 0
                BY <1>5, <3>5, <4>3, Zenon
            <4>5. ar2[UserPool] = 1
                BY <3>2, <4>4, Zenon
            <4>6. up2[q][StackPage] = kernel_free_pages
                <5>1. kernel_free_pages + 0 = kernel_free_pages
                    BY Sizes
                <5> QED
                    BY <1>3, <4>4, <5>1, Zenon
            <4> QED
                BY <1>4, <4>5, <4>6
        <3> QED
            BY <3>3, <3>4, <3>5, Zenon
    <2> QED
        BY <2>3, <2>4, Zenon DEF StacksKept
<1> QED
    BY <1>3, <1>13, <1>14, <1>15, <1>16, <1>17, <1>18, <1>19, <1>20, Zenon
        DEF PagesOK, set, ar2, ua2, up2, ut2, uf

-----------------------------------------------------------------------------
\* pfree: an allocation of the kernel goes back.
LEMMA KernelUnmapStep ==
    ASSUME NEW ar, NEW pt, NEW ua, NEW up, NEW ut, NEW tk,
           PagesOK(ar, pt, ua, up, ut, tk),
           NEW v, NEW n, <<Kernel, v, n>> \in tk
    PROVE  /\ KernelRange(v, n, pt)
           /\ PagesOK(WithBits(ar, KernelMarks(v..v + n - 1, pt), 0),
                      PageUnmapping(pt, v, n), ua, up, ut, tk \ {<<Kernel, v, n>>})
<1> DEFINE set == v..v + n - 1
           ar2 == WithBits(ar, KernelMarks(set, pt), 0)
           pt2 == PageUnmapping(pt, v, n)
           a == <<Kernel, v, n>>
           tk2 == tk \ {a}
           Got(f) == \E i \in set : pt[i] = f
<1>1. /\ TablesTyped(ar, pt, ua, up, ut) /\ KernelApart(pt, ut) /\ KernelBits(ar, pt, ut)
      /\ UserBits(ar, up) /\ KernelAddresses(ar, pt) /\ AllocationsMapped(pt, up, tk)
      /\ AllocationsApart(tk) /\ StacksKept(ar, ua, up, tk)
    BY Zenon DEF PagesOK
<1>2. a[1] = Kernel /\ a[2] = v /\ a[3] = n
    OBVIOUS
<1> HIDE DEF a
<1>3. /\ v \in Nat /\ n \in Nat \ {0} /\ v + n - 1 <= UserPool
      /\ \A i \in set : pt[i] # NoFrame
    <2>1. Allocated(Kernel, v, n, pt, up)
        BY <1>1, <1>2, Zenon DEF AllocationsMapped, a
    <2> QED
        BY <2>1, Zenon DEF Allocated
<1>4. set \subseteq KernelPage
    BY <1>3, Sizes
<1>5. \A w \in KernelPage : pt[w] \in KernelFrame \cup {NoFrame}
    BY <1>1, Zenon DEF TablesTyped
<1>6. \A i \in set : pt[i] \in KernelFrame
    BY <1>3, <1>4, <1>5, Zenon
<1>7. KernelRange(v, n, pt)
    BY <1>3, <1>6, Zenon DEF KernelRange
<1>8. KernelArea(ar, ar2, set, pt, 0)
    BY <1>7, KernelMarked, Zenon
<1>9. /\ pt2 \in [KernelPage -> KernelFrame \cup {NoFrame}]
      /\ \A w \in set : pt2[w] = NoFrame
      /\ \A w \in KernelPage \ set : pt2[w] = pt[w]
    <2>1. pt2 = [w \in KernelPage |-> IF w \in set THEN NoFrame ELSE pt[w]]
        BY <1>1, Zenon DEF TablesTyped, PageUnmapping
    <2> HIDE DEF pt2, set
    <2> QED
        BY <1>4, <1>5, <2>1, Zenon
<1>10. ar2 \in [0..AreaEnd -> {0, 1}]
    BY <1>1, Zenon DEF TablesTyped, WithBits
<1>11. \A f \in KernelFrame : f # NoFrame
    BY PageAllocAssumption, Sizes DEF KernelFrame
<1> HIDE DEF set, ar2, pt2
<1>12. TablesTyped(ar2, pt2, ua, up, ut)
    BY <1>1, <1>9, <1>10, Zenon DEF TablesTyped
<1>13. \A w \in KernelPage : pt2[w] # NoFrame => w \notin set /\ pt2[w] = pt[w]
    BY <1>9, Zenon
<1>14. KernelApart(pt2, ut)
    <2>1. \A w, x \in KernelPage : pt2[w] = pt2[x] /\ pt2[w] # NoFrame => w = x
        <3>1. \A w, x \in KernelPage : pt[w] = pt[x] /\ pt[w] # NoFrame => w = x
            BY <1>1, Zenon DEF KernelApart
        <3> QED
            BY <1>13, <3>1, Zenon
    <2>2. \A w \in KernelPage : \A q \in Process : \A d \in Table :
            pt2[w] = ut[q][d] => pt2[w] = NoFrame
        <3>1. \A w \in KernelPage : \A q \in Process : \A d \in Table :
                pt[w] = ut[q][d] => pt[w] = NoFrame
            BY <1>1, Zenon DEF KernelApart
        <3> QED
            BY <1>13, <3>1, Zenon
    <2> QED
        BY <1>1, <2>1, <2>2, Zenon DEF KernelApart
<1>15. KernelBits(ar2, pt2, ut)
    <2>1. ASSUME NEW f \in KernelFrame
          PROVE  ar2[f] = 1 <=> \/ \E w \in KernelPage : pt2[w] = f
                                \/ \E q \in Process : \E d \in Table : ut[q][d] = f
        <3>1. CASE Got(f)
            <4>1. ar2[f] = 0
                BY <1>8, <3>1, Zenon DEF KernelArea
            <4>2. PICK i \in set : pt[i] = f
                BY <3>1, Zenon
            <4>3. ASSUME NEW w \in KernelPage, pt2[w] = f PROVE FALSE
                <5>1. w \notin set /\ pt[w] = f /\ f # NoFrame
                    BY <1>11, <1>13, <4>3, Zenon
                <5>2. w = i
                    BY <1>1, <1>4, <4>2, <5>1, Zenon DEF KernelApart
                <5> QED
                    BY <5>1, <5>2, Zenon
            <4>4. ASSUME NEW q \in Process, NEW d \in Table, ut[q][d] = f PROVE FALSE
                BY <1>1, <1>4, <1>11, <4>2, <4>4, Zenon DEF KernelApart
            <4> QED
                BY <4>1, <4>3, <4>4
        <3>2. CASE ~ Got(f)
            <4>1. ar2[f] = ar[f]
                BY <1>8, <3>2, Zenon DEF KernelArea
            <4>2. ASSUME NEW w \in KernelPage PROVE pt2[w] = f <=> pt[w] = f
                BY <1>9, <1>11, <3>2, Zenon
            <4> QED
                BY <1>1, <4>1, <4>2, Zenon DEF KernelBits
        <3> QED
            BY <3>1, <3>2, Zenon
    <2> QED
        BY <2>1, Zenon DEF KernelBits
<1>16. UserBits(ar2, up)
    BY <1>1, <1>8, Zenon DEF KernelArea, UserBits
<1>17. KernelAddresses(ar2, pt2)
    <2>1. ASSUME NEW w \in KernelPage
          PROVE  ar2[KernelVaddr + w] = 1 <=> pt2[w] # NoFrame
        BY <1>1, <1>8, <1>9 DEF KernelArea, KernelAddresses
    <2> QED
        BY <2>1, Zenon DEF KernelAddresses
<1>18. AllocationsMapped(pt2, up, tk2) /\ AllocationsApart(tk2)
    <2>1. ASSUME NEW b \in tk2 PROVE Allocated(b[1], b[2], b[3], pt2, up)
        <3>1. Allocated(b[1], b[2], b[3], pt, up)
            BY <1>1, <2>1, Zenon DEF AllocationsMapped
        <3>2. ASSUME b[1] = Kernel, NEW i \in b[2]..b[2] + b[3] - 1 PROVE pt2[i] # NoFrame
            <4>1. i \in KernelPage /\ pt[i] # NoFrame
                BY <3>1, <3>2, Sizes DEF Allocated
            <4>2. i \notin set
                <5>1. b \in tk /\ a \in tk /\ b # a
                    BY <2>1, Zenon DEF a
                <5>2. set = a[2]..a[2] + a[3] - 1
                    BY <1>2, Zenon DEF set
                <5> QED
                    BY <1>1, <1>2, <3>2, <5>1, <5>2, Zenon DEF AllocationsApart
            <4> QED
                BY <1>9, <4>1, <4>2, Zenon
        <3> QED
            BY <3>1, <3>2, Zenon DEF Allocated
    <2> QED
        BY <1>1, <2>1, Zenon DEF AllocationsMapped, AllocationsApart
<1>19. StacksKept(ar2, ua, up, tk2)
    <2>1. \A q \in Process : <<q, StackPage, 1>> # a
        <3>1. \A q \in Process : <<q, StackPage, 1>>[1] = q /\ q # Kernel
            BY PageAllocAssumption, Zenon
        <3> QED
            BY <1>2, <3>1, Zenon
    <2>2. UserPool < KernelVaddr => ar2[UserPool] = ar[UserPool]
        <3>1. UserPool < KernelVaddr =>
                0 \in 0..KernelVaddr - UserPool - 1 /\ UserPool + 0 = UserPool
            BY Sizes
        <3> QED
            BY <1>8, <3>1, Zenon DEF KernelArea
    <2> QED
        BY <1>1, <2>1, <2>2, Zenon DEF StacksKept
<1>20. UserApart(up) /\ UserAddresses(ua, up)
    BY Zenon DEF PagesOK
<1> QED
    BY <1>7, <1>12, <1>14, <1>15, <1>16, <1>17, <1>18, <1>19, <1>20, Zenon
        DEF PagesOK, set, ar2, pt2, a

\* The first frame of the user pool is behind the stack of a process.
LEMMA FirstFrameIsStack ==
    ASSUME NEW ar, NEW pt, NEW ua, NEW up, NEW ut, NEW tk,
           PagesOK(ar, pt, ua, up, ut, tk),
           NEW q \in Process, NEW w \in UserPage, up[q][w] = kernel_free_pages
    PROVE  w = StackPage
<1>1. kernel_free_pages # NoFrame /\ StackPage \in UserPage
    BY Sizes, PageAllocAssumption
<1>2. /\ TablesTyped(ar, pt, ua, up, ut) /\ UserBits(ar, up) /\ StacksKept(ar, ua, up, tk)
      /\ UserApart(up)
    BY Zenon DEF PagesOK
<1>3. UserPool < KernelVaddr
    <2>1. up[q][w] \in UserFrame \cup {NoFrame}
        BY <1>2, Zenon DEF TablesTyped
    <2> QED
        BY <1>1, <2>1, Sizes DEF UserFrame
<1>4. 0 \in 0..KernelVaddr - UserPool - 1 /\ UserPool + 0 = UserPool
      /\ kernel_free_pages + 0 = kernel_free_pages
    BY <1>3, Sizes
<1>5. ar[UserPool] = 1
    BY <1>2, <1>4, Zenon DEF UserBits
<1>6. PICK r \in Process : up[r][StackPage] = kernel_free_pages
    BY <1>2, <1>3, <1>5, Zenon DEF StacksKept
<1> QED
    BY <1>1, <1>2, <1>6 DEF UserApart

\* The bits of the user pool that belong to frames of pages in set.
PoolBits(row, set) == [i \in set |-> row[i] - kernel_free_pages]

\* pfree: an allocation of a process goes back, other than its stack.
LEMMA UserUnmapStep ==
    ASSUME NEW ar, NEW pt, NEW ua, NEW up, NEW ut, NEW tk,
           PagesOK(ar, pt, ua, up, ut, tk),
           NEW q \in Process, NEW v, NEW n, <<q, v, n>> \in tk, v # StackPage
    PROVE  LET set == v..v + n - 1
               g == PoolBits(up[q], set)
           IN  /\ UserRange(q, v, n, g, {}, g)
               /\ \A i \in set : up[q][i] \in UserFrame /\ up[q][i] # kernel_free_pages
               /\ PagesOK(WithBits(ar, UserMarks({}, g, set, g), 0), pt,
                          RangeOf(ua, q, v, n, 0),
                          FilledOf(up, q, UserPage, set, [i \in set |-> NoFrame]),
                          ut, tk \ {<<q, v, n>>})
<1> DEFINE set == v..v + n - 1
           g == PoolBits(up[q], set)
           none == [i \in set |-> NoFrame]
           ar2 == WithBits(ar, UserMarks({}, g, set, g), 0)
           ua2 == RangeOf(ua, q, v, n, 0)
           up2 == FilledOf(up, q, UserPage, set, none)
           a == <<q, v, n>>
           tk2 == tk \ {a}
           UserBit == 0..KernelVaddr - UserPool - 1
           Got(i) == \E j \in set : g[j] = i
<1>1. /\ TablesTyped(ar, pt, ua, up, ut) /\ KernelApart(pt, ut) /\ KernelBits(ar, pt, ut)
      /\ UserApart(up) /\ UserBits(ar, up) /\ KernelAddresses(ar, pt) /\ UserAddresses(ua, up)
      /\ AllocationsMapped(pt, up, tk) /\ AllocationsApart(tk) /\ StacksKept(ar, ua, up, tk)
    BY Zenon DEF PagesOK
<1>2. a[1] = q /\ a[2] = v /\ a[3] = n /\ q # Kernel
    BY PageAllocAssumption, Zenon
<1> HIDE DEF a
<1>3. /\ v \in Nat /\ n \in Nat \ {0} /\ v + n - 1 <= StackPage
      /\ \A i \in set : up[q][i] # NoFrame
    <2>1. Allocated(q, v, n, pt, up)
        BY <1>1, <1>2, Zenon DEF AllocationsMapped, a
    <2> QED
        BY <1>2, <2>1, Zenon DEF Allocated
<1>4. set \subseteq UserPage /\ StackPage \in UserPage
    BY <1>3, Sizes
<1>5. StackPage \notin set
    <2>1. SUFFICES ASSUME StackPage \in set PROVE FALSE
        OBVIOUS
    <2> DEFINE b == <<q, StackPage, 1>>
    <2>2. b \in tk
        BY <1>1, <1>3, <1>4, <2>1, Zenon DEF UserAddresses, StacksKept
    <2>3. b[1] = q /\ b[2] = StackPage /\ StackPage \in b[2]..b[2] + b[3] - 1
        BY Sizes
    <2> HIDE DEF b
    <2>4. StackPage \in a[2]..a[2] + a[3] - 1
        BY <1>2, <2>1, Zenon
    <2>5. a = b
        BY <1>1, <1>2, <2>2, <2>3, <2>4, Zenon DEF AllocationsApart, a
    <2> QED
        BY <1>2, <2>3, <2>5, Zenon
<1>6. \A i \in set : up[q][i] \in UserFrame /\ up[q][i] # kernel_free_pages
    <2>1. \A i \in set : up[q][i] \in UserFrame \cup {NoFrame}
        BY <1>1, <1>4, Zenon DEF TablesTyped
    <2>2. ASSUME NEW i \in set PROVE up[q][i] # kernel_free_pages
        BY <1>4, <1>5, FirstFrameIsStack, Zenon
    <2> QED
        BY <1>3, <2>1, <2>2, Zenon
<1>7. \A i \in set : g[i] = up[q][i] - kernel_free_pages
    BY Zenon DEF PoolBits
<1>8. /\ none \in [set -> UserFrame \cup {NoFrame}]
      /\ \A i \in set : none[i] = NoFrame
    BY Zenon
<1> HIDE DEF g, none
<1>9. \A i \in set : g[i] \in UserBit /\ up[q][i] = kernel_free_pages + g[i] /\ g[i] # 0
    <2> HIDE DEF set
    <2> QED
        BY <1>6, <1>7, Sizes DEF UserFrame
<1>10. UserRange(q, v, n, g, {}, g)
    BY <1>3, <1>9, Zenon DEF UserRange
<1>11. UserArea(ar, ar2, {}, g, set, g, 0)
    BY <1>10, UserMarked, Zenon
<1>12. /\ ua2 \in [Process -> [0..StackPage + 1 -> {0, 1}]]
       /\ up2 \in [Process -> [UserPage -> UserFrame \cup {NoFrame}]]
       /\ PageEntries(ua, up, ua2, up2, q, set, 0, none)
    <2>1. /\ ua \in [Process -> [0..StackPage + 1 -> {0, 1}]]
          /\ up \in [Process -> [UserPage -> UserFrame \cup {NoFrame}]]
        BY <1>1, Zenon DEF TablesTyped
    <2>2. n \in Nat /\ 0 \in {0, 1}
        BY <1>3, Zenon
    <2> QED
        BY <1>3, <1>4, <1>8, <2>1, <2>2, PagesWritten, Zenon
<1>13. ar2 \in [0..AreaEnd -> {0, 1}]
    BY <1>1, Zenon DEF TablesTyped, WithBits
<1>14. \A i \in UserBit : kernel_free_pages + i # NoFrame
    BY PageAllocAssumption, Sizes
<1>15. \A i, j \in UserBit : kernel_free_pages + i = kernel_free_pages + j => i = j
    BY Sizes
<1> HIDE DEF set, ar2, ua2, up2
<1>16. TablesTyped(ar2, pt, ua2, up2, ut)
    BY <1>1, <1>12, <1>13, Zenon DEF TablesTyped
<1>17. /\ \A r \in Process : \A w \in UserPage :
            ~ (r = q /\ w \in set) => up2[r][w] = up[r][w] /\ ua2[r][w] = ua[r][w]
       /\ \A w \in set : up2[q][w] = NoFrame /\ ua2[q][w] = 0
    BY <1>8, <1>12, Zenon DEF PageEntries
<1>18. \A r \in Process : \A w \in UserPage :
            up2[r][w] # NoFrame => ~ (r = q /\ w \in set) /\ up2[r][w] = up[r][w]
    BY <1>17, Zenon
<1>19. UserApart(up2)
    BY <1>1, <1>18 DEF UserApart
<1>20. KernelBits(ar2, pt, ut) /\ KernelAddresses(ar2, pt)
    <2>1. \A f \in KernelFrame : ar2[f] = ar[f]
        BY <1>11, Zenon DEF UserArea
    <2>2. \A w \in KernelPage : ar2[KernelVaddr + w] = ar[KernelVaddr + w]
        BY <1>11, Zenon DEF UserArea
    <2> QED
        BY <1>1, <2>1, <2>2, Zenon DEF KernelBits, KernelAddresses
<1>21. UserBits(ar2, up2)
    <2>1. ASSUME NEW i \in UserBit
          PROVE  ar2[UserPool + i] = 1 <=>
                    \E r \in Process : \E w \in UserPage : up2[r][w] = kernel_free_pages + i
        <3>1. CASE Got(i)
            <4>1. ar2[UserPool + i] = 0
                BY <1>11, <3>1, Zenon DEF UserArea
            <4>2. PICK j \in set : g[j] = i
                BY <3>1, Zenon
            <4>3. up[q][j] = kernel_free_pages + i /\ j \in UserPage
                BY <1>4, <1>9, <4>2, Zenon
            <4>4. ASSUME NEW r \in Process, NEW w \in UserPage,
                         up2[r][w] = kernel_free_pages + i
                  PROVE  FALSE
                <5>1. ~ (r = q /\ w \in set) /\ up[r][w] = up[q][j] /\ up[q][j] # NoFrame
                    BY <1>14, <1>18, <4>3, <4>4, Zenon
                <5>2. r = q /\ w = j
                    BY <1>1, <4>3, <5>1 DEF UserApart
                <5> QED
                    BY <5>1, <5>2, Zenon
            <4> QED
                BY <4>1, <4>4
        <3>2. CASE ~ Got(i)
            <4>1. ar2[UserPool + i] = ar[UserPool + i]
                BY <1>11, <3>2, Zenon DEF UserArea
            <4>2. ASSUME NEW r \in Process, NEW w \in UserPage
                  PROVE  up2[r][w] = kernel_free_pages + i <=> up[r][w] = kernel_free_pages + i
                <5>1. CASE r = q /\ w \in set
                    <6>1. up2[r][w] # kernel_free_pages + i
                        BY <1>14, <1>17, <5>1, Zenon
                    <6>2. up[r][w] # kernel_free_pages + i
                        BY <1>9, <1>15, <3>2, <5>1, Zenon
                    <6> QED
                        BY <6>1, <6>2, Zenon
                <5>2. CASE ~ (r = q /\ w \in set)
                    BY <1>17, <5>2, Zenon
                <5> QED
                    BY <5>1, <5>2, Zenon
            <4> QED
                BY <1>1, <4>1, <4>2, Zenon DEF UserBits
        <3> QED
            BY <3>1, <3>2, Zenon
    <2> QED
        BY <2>1, Zenon DEF UserBits
<1>22. UserAddresses(ua2, up2)
    <2>1. ASSUME NEW r \in Process, NEW w \in UserPage
          PROVE  ua2[r][w] = 1 <=> up2[r][w] # NoFrame
        BY <1>1, <1>17 DEF UserAddresses
    <2> QED
        BY <2>1, Zenon DEF UserAddresses
<1>23. AllocationsMapped(pt, up2, tk2) /\ AllocationsApart(tk2)
    <2>1. ASSUME NEW b \in tk2 PROVE Allocated(b[1], b[2], b[3], pt, up2)
        <3>1. Allocated(b[1], b[2], b[3], pt, up)
            BY <1>1, <2>1, Zenon DEF AllocationsMapped
        <3>2. ASSUME b[1] # Kernel, NEW i \in b[2]..b[2] + b[3] - 1
              PROVE  up2[b[1]][i] # NoFrame
            <4>1. i \in UserPage /\ b[1] \in Process /\ up[b[1]][i] # NoFrame
                BY <3>1, <3>2, Sizes DEF Allocated
            <4>2. ~ (b[1] = q /\ i \in set)
                <5>1. b \in tk /\ a \in tk /\ b # a
                    BY <2>1, Zenon DEF a
                <5>2. set = a[2]..a[2] + a[3] - 1
                    BY <1>2, Zenon DEF set
                <5> QED
                    BY <1>1, <1>2, <3>2, <5>1, <5>2, Zenon DEF AllocationsApart
            <4> QED
                BY <1>17, <4>1, <4>2, Zenon
        <3> QED
            BY <3>1, <3>2, Zenon DEF Allocated
    <2> QED
        BY <1>1, <2>1, Zenon DEF AllocationsMapped, AllocationsApart
<1>24. StacksKept(ar2, ua2, up2, tk2)
    <2>1. \A r \in Process : <<r, StackPage, 1>> # a
        <3>1. \A r \in Process : <<r, StackPage, 1>>[2] = StackPage
            OBVIOUS
        <3> QED
            BY <1>2, <3>1, Zenon
    <2>2. UserPool < KernelVaddr => ar2[UserPool] = ar[UserPool]
        <3>1. UserPool < KernelVaddr => 0 \in UserBit /\ UserPool + 0 = UserPool
            BY Sizes
        <3>2. ~ Got(0)
            BY <1>9, Zenon
        <3> QED
            BY <1>11, <3>1, <3>2, Zenon DEF UserArea
    <2>3. \A r \in Process : /\ ua2[r][StackPage] = ua[r][StackPage]
                             /\ up2[r][StackPage] = up[r][StackPage]
        BY <1>4, <1>5, <1>17, Zenon
    <2> QED
        BY <1>1, <2>1, <2>2, <2>3, Zenon DEF StacksKept
<1> QED
    BY <1>1, <1>6, <1>10, <1>16, <1>19, <1>20, <1>21, <1>22, <1>23, <1>24, Zenon
        DEF PagesOK, set, g, none, ar2, ua2, up2, a

-----------------------------------------------------------------------------
\* BitmapScan.

\* The first index of a search: a set of naturals has a least element, which
\* is its Min.
LEMMA LeastElement ==
    ASSUME NEW S \in SUBSET Nat, S # {}
    PROVE  Min(S) \in S /\ \A y \in S : Min(S) <= y
<1>1. PICK x \in S : \A y \in S : ~ (<<y, x>> \in OpToRel(<, Nat))
    BY NatLessThanWellFounded, WFMin, Zenon
<1>2. ASSUME NEW y \in S PROVE x <= y
    <2>1. ~ (<<y, x>> \in {ss \in Nat \X Nat : ss[1] < ss[2]})
        BY <1>1, Zenon DEF OpToRel
    <2> QED
        BY <2>1
<1> QED
    BY <1>2, Zenon DEF Min

\* A loop from 0 upwards: what holds at 0 and is passed on holds everywhere.
LEMMA LoopInduction ==
    ASSUME NEW S \in SUBSET Nat, 0 \in S, \A n \in S : n + 1 \in S
    PROVE  S = Nat
<1>1. SUFFICES ASSUME Nat \ S # {} PROVE FALSE
    BY Zenon
<1>2. PICK x \in Nat \ S : \A y \in Nat \ S : x <= y
    BY <1>1, LeastElement, Zenon
<1>3. x # 0 /\ x - 1 \in Nat
    BY <1>2
<1>4. x - 1 \in S
    BY <1>2, <1>3
<1> QED
    BY <1>2, <1>3, <1>4

\* Every bit of a bitmap is in one of its bytes.
LEMMA ByteOfBit ==
    ASSUME NEW len \in Nat, NEW i \in 0..len * ByteBits - 1
    PROVE  \E b \in 0..len - 1 : i \in b * ByteBits..(b + 1) * ByteBits - 1
<1> DEFINE b == i \div ByteBits
<1>1. ByteBits \in Nat /\ ByteBits > 0 /\ i \in Nat /\ len * ByteBits \in Nat
    BY BitmapAssumption, Times
<1>2. b \in Nat /\ i = b * ByteBits + (i % ByteBits) /\ i % ByteBits \in 0..ByteBits - 1
    BY <1>1
<1> HIDE DEF b
<1>3. (b + 1) * ByteBits = b * ByteBits + ByteBits /\ b * ByteBits \in Nat
    BY <1>1, <1>2, Times, Zenon
<1>4. i \in b * ByteBits..(b + 1) * ByteBits - 1
    BY <1>1, <1>2, <1>3
<1>5. len <= b => len * ByteBits <= b * ByteBits
    BY <1>1, <1>2, Times, Zenon
<1>6. b < len
    BY <1>1, <1>2, <1>3, <1>4, <1>5
<1> QED
    BY <1>2, <1>4, <1>6

\* The bit at which BitmapScan starts to count.
ScanStart(m, base, len) ==
    Min({i \in FirstByte(m, base, len) * ByteBits..(FirstByte(m, base, len) + 1) * ByteBits - 1 :
            ~ BitmapTestBit(m, base, i)})

LEMMA StartsAtFirst ==
    ASSUME NEW m, NEW base, NEW len \in Nat
    PROVE  /\ ScanAsserts(m, base, len) =>
                \A i \in 0..len * ByteBits - 1 : BitmapTestBit(m, base, i)
           /\ ~ ScanAsserts(m, base, len) =>
                /\ ScanStart(m, base, len) \in 0..len * ByteBits - 1
                /\ ~ BitmapTestBit(m, base, ScanStart(m, base, len))
                /\ \A i \in 0..ScanStart(m, base, len) - 1 : BitmapTestBit(m, base, i)
<1> DEFINE Test(i) == BitmapTestBit(m, base, i)
           Bits(b) == b * ByteBits..(b + 1) * ByteBits - 1
           some == {b \in 0..len - 1 : \E i \in Bits(b) : ~ Test(i)}
           byte == FirstByte(m, base, len)
           clear == {i \in Bits(byte) : ~ Test(i)}
           start == ScanStart(m, base, len)
<1>0. ByteBits \in Nat /\ len * ByteBits \in Nat
    BY BitmapAssumption, Times, Zenon
<1>1. byte \in {len} \cup some /\ \A b \in {len} \cup some : byte <= b
    <2> DEFINE all == {len} \cup some
    <2>1. byte = Min(all)
        BY Zenon DEF FirstByte
    <2>2. all \in SUBSET Nat /\ all # {}
        OBVIOUS
    <2> HIDE DEF all, byte
    <2>3. byte \in all /\ \A b \in all : byte <= b
        BY <2>1, <2>2, LeastElement, Zenon
    <2> QED
        BY <2>3, Zenon DEF all
<1>2. ASSUME NEW i \in 0..len * ByteBits - 1, ~ Test(i)
      PROVE  \E b \in some : i \in Bits(b)
    <2>1. PICK b \in 0..len - 1 : i \in Bits(b)
        BY ByteOfBit, Zenon
    <2> HIDE DEF Bits
    <2> QED
        BY <1>2, <2>1, Zenon
<1>3. ScanAsserts(m, base, len) => some = {}
    <2>1. SUFFICES ASSUME byte = len, NEW b \in some PROVE FALSE
        BY Zenon DEF ScanAsserts
    <2>2. b \in 0..len - 1 /\ len <= b
        BY <1>1, <2>1, Zenon
    <2> QED
        BY <2>2
<1>4. ASSUME ~ ScanAsserts(m, base, len)
      PROVE  /\ start \in 0..len * ByteBits - 1
             /\ ~ Test(start)
             /\ \A i \in 0..start - 1 : Test(i)
    <2>1. byte \in some /\ byte \in Nat /\ byte + 1 <= len
        <3>1. byte \in some
            BY <1>1, <1>4, Zenon DEF ScanAsserts
        <3>2. byte \in 0..len - 1
            BY <3>1, Zenon
        <3> HIDE DEF byte
        <3> QED
            BY <3>1, <3>2
    <2>2. /\ byte * ByteBits \in Nat
          /\ (byte + 1) * ByteBits <= len * ByteBits
          /\ (byte + 1) * ByteBits \in Nat
        <3> HIDE DEF byte
        <3> QED
            BY <1>0, <2>1, Times
    <2>3. clear # {}
        BY <2>1, Zenon
    <2>4. Bits(byte) \in SUBSET (0..len * ByteBits - 1)
        <3> HIDE DEF byte
        <3> QED
            BY <1>0, <2>2
    <2>5. clear \in SUBSET Nat /\ clear \in SUBSET (0..len * ByteBits - 1)
        BY <2>4
    <2>6. start = Min(clear)
        BY Zenon DEF ScanStart
    <2>7. start \in clear /\ \A y \in clear : start <= y
        <3> HIDE DEF clear, start
        <3> QED
            BY <2>3, <2>5, <2>6, LeastElement, Zenon
    <2>8. start \in 0..len * ByteBits - 1 /\ ~ Test(start) /\ start \in Bits(byte)
        BY <2>5, <2>7, Zenon
    <2>9. ASSUME NEW i \in 0..start - 1, ~ Test(i) PROVE FALSE
        <3>1. i \in Nat /\ i < start /\ start \in Nat
            BY <2>8
        <3>2. i \in 0..len * ByteBits - 1
            BY <2>8, <3>1, <1>0
        <3>3. PICK b \in some : i \in Bits(b)
            BY <1>2, <2>9, <3>2, Zenon
        <3>4. i \notin clear
            BY <2>7, <3>1
        <3>5. b # byte
            BY <2>9, <3>3, <3>4, Zenon
        <3>6. byte <= b /\ b \in 0..len - 1
            BY <1>1, <3>3, Zenon
        <3> HIDE DEF byte, start
        <3>7. byte + 1 <= b /\ b \in Nat
            BY <2>1, <3>5, <3>6
        <3>8. (byte + 1) * ByteBits <= b * ByteBits /\ b * ByteBits \in Nat
            BY <1>0, <2>1, <3>7, Times
        <3> QED
            BY <2>2, <2>8, <3>1, <3>3, <3>8, <1>0
    <2> QED
        BY <2>8, <2>9, Zenon
<1>5. ScanAsserts(m, base, len) => \A i \in 0..len * ByteBits - 1 : Test(i)
    BY <1>2, <1>3, Zenon
<1> QED
    BY <1>4, <1>5, Zenon

\* The loop of BitmapScan: f[k] is avl_bits_count after bit k.
CountLoop(m, base, start, last, f) ==
    f = [k \in start..last |->
            IF k = start THEN 1
            ELSE IF BitmapTestBit(m, base, k) THEN 0 ELSE f[k - 1] + 1]

\* There is such a function, so that CHOOSE finds one.
LEMMA CountLoopExists ==
    ASSUME NEW m, NEW base, NEW start \in Nat, NEW n \in Nat
    PROVE  \E f : CountLoop(m, base, start, start + n, f)
<1> DEFINE Test(i) == BitmapTestBit(m, base, i)
           N == {j \in Nat : \E f : CountLoop(m, base, start, start + j, f)}
<1>1. 0 \in N
    <2>1. CountLoop(m, base, start, start + 0, [k \in start..start |-> 1])
        BY DEF CountLoop
    <2> QED
        BY <2>1, Zenon
<1>2. ASSUME NEW j \in N PROVE j + 1 \in N
    <2>1. PICK f : CountLoop(m, base, start, start + j, f)
        BY <1>2, Zenon
    <2> DEFINE z == start + j + 1
               g == [k \in start..z |->
                        IF k = z THEN (IF Test(z) THEN 0 ELSE f[z - 1] + 1) ELSE f[k]]
    <2>2. j \in Nat /\ z \in Nat /\ start < z /\ z - 1 \in start..(start + j)
        BY <1>2
    <2>3. ASSUME NEW k \in start..z
          PROVE  g[k] = IF k = start THEN 1 ELSE IF Test(k) THEN 0 ELSE g[k - 1] + 1
        <3> HIDE DEF Test
        <3>1. CASE k = z
            <4>1. g[z] = (IF Test(z) THEN 0 ELSE f[z - 1] + 1)
                BY <3>1, Zenon
            <4>2. z # start /\ z - 1 \in start..z /\ z - 1 # z
                BY <2>2
            <4>3. g[z - 1] = f[z - 1]
                BY <4>2, Zenon
            <4> QED
                BY <3>1, <4>1, <4>2, <4>3, Zenon
        <3>2. CASE k # z
            <4>1. k \in start..(start + j)
                BY <2>2, <3>2
            <4>2. g[k] = f[k]
                BY <3>2, Zenon
            <4>3. k # start => k - 1 \in start..z /\ k - 1 # z
                BY <2>2, <4>1
            <4>4. k # start => g[k - 1] = f[k - 1]
                BY <4>3, Zenon
            <4>5. f[k] = IF k = start THEN 1 ELSE IF Test(k) THEN 0 ELSE f[k - 1] + 1
                BY <2>1, <4>1, Zenon DEF CountLoop, Test
            <4> QED
                BY <4>2, <4>4, <4>5, Zenon
        <3> QED
            BY <3>1, <3>2, Zenon
    <2>4. g = [k \in start..z |-> g[k]]
        BY Zenon
    <2> HIDE DEF g
    <2>5. CountLoop(m, base, start, z, g)
        BY <2>3, <2>4, Zenon DEF CountLoop
    <2>6. z = start + (j + 1) /\ j + 1 \in Nat
        BY <2>2
    <2> HIDE DEF z
    <2> QED
        BY <2>5, <2>6, Zenon
<1>3. N = Nat
    <2>1. N \in SUBSET Nat
        BY Zenon
    <2> HIDE DEF N
    <2> QED
        BY <1>1, <1>2, <2>1, LoopInduction, Zenon
<1> QED
    BY <1>3, Zenon

\* Bit k and the f[k] - 1 bits before it are clear and were counted from 1
\* on; the bit before those is set, unless the count began there.
RunAt(m, base, start, f, k) ==
    /\ f[k] \in 0..k - start + 1
    /\ \A i \in k - f[k] + 1..k : ~ BitmapTestBit(m, base, i) /\ f[i] = f[k] - (k - i)
    /\ f[k] < k - start + 1 => BitmapTestBit(m, base, k - f[k])

LEMMA CountsRuns ==
    ASSUME NEW m, NEW base, NEW start \in Nat, NEW last \in Nat, start <= last,
           NEW f, CountLoop(m, base, start, last, f), ~ BitmapTestBit(m, base, start),
           NEW k \in start..last
    PROVE  RunAt(m, base, start, f, k)
<1> DEFINE Test(i) == BitmapTestBit(m, base, i)
           Run(j) == RunAt(m, base, start, f, j)
           N == {j \in Nat : start + j <= last => Run(start + j)}
<1>1. /\ f[start] = 1
      /\ \A j \in start + 1..last : /\ Test(j) => f[j] = 0
                                    /\ ~ Test(j) => f[j] = f[j - 1] + 1
    <2>1. \A j \in start..last :
            f[j] = IF j = start THEN 1 ELSE IF Test(j) THEN 0 ELSE f[j - 1] + 1
        BY Zenon DEF CountLoop
    <2>2. start \in start..last
        OBVIOUS
    <2>3. \A j \in start + 1..last : j \in start..last /\ j # start
        OBVIOUS
    <2> HIDE DEF Test
    <2> QED
        BY <2>1, <2>2, <2>3, Zenon
<1> HIDE DEF Test
<1>2. 0 \in N
    <2>1. Run(start)
        <3>1. \A i \in start - f[start] + 1..start : i = start
            BY <1>1
        <3>2. ~ Test(start)
            BY Zenon DEF Test
        <3> QED
            BY <1>1, <3>1, <3>2 DEF RunAt, Test
    <2>2. start + 0 = start
        OBVIOUS
    <2> QED
        BY <2>1, <2>2, Zenon
<1>3. ASSUME NEW j \in N PROVE j + 1 \in N
    <2> DEFINE h == start + j
    <2>1. SUFFICES ASSUME h + 1 <= last PROVE Run(h + 1)
        <3>1. start + (j + 1) = h + 1 /\ j + 1 \in Nat
            BY <1>3
        <3> HIDE DEF h
        <3> QED
            BY <2>1, <3>1, Zenon
    <2>2. h \in Nat /\ start <= h /\ h <= last /\ h + 1 \in start + 1..last
        BY <1>3, <2>1
    <2>3. Run(h)
        BY <1>3, <2>2, Zenon
    <2> HIDE DEF h
    <2>4. CASE Test(h + 1)
        <3>1. f[h + 1] = 0
            BY <1>1, <2>2, <2>4, Zenon
        <3>2. (h + 1) - f[h + 1] = h + 1
            BY <2>2, <3>1
        <3>3. Test((h + 1) - f[h + 1])
            BY <2>4, <3>2, Zenon
        <3> QED
            BY <2>2, <3>1, <3>3 DEF RunAt, Test
    <2>5. CASE ~ Test(h + 1)
        <3>1. f[h + 1] = f[h] + 1
            BY <1>1, <2>2, <2>5
        <3>2. /\ f[h] \in 0..h - start + 1
              /\ \A i \in h - f[h] + 1..h : ~ Test(i) /\ f[i] = f[h] - (h - i)
              /\ f[h] < h - start + 1 => Test(h - f[h])
            BY <2>3, Zenon DEF RunAt, Test
        <3>3. (h + 1) - f[h + 1] = h - f[h]
            BY <2>2, <3>1, <3>2
        <3>4. f[h + 1] \in 0..(h + 1) - start + 1
            BY <2>2, <3>1, <3>2
        <3>5. ASSUME NEW i \in (h + 1) - f[h + 1] + 1..h + 1
              PROVE  ~ Test(i) /\ f[i] = f[h + 1] - ((h + 1) - i)
            <4>1. CASE i = h + 1
                BY <2>2, <2>5, <3>4, <4>1
            <4>2. CASE i # h + 1
                <5>1. i \in h - f[h] + 1..h
                    BY <2>2, <3>1, <3>2, <4>2
                <5>2. ~ Test(i) /\ f[i] = f[h] - (h - i)
                    BY <3>2, <5>1, Zenon
                <5> QED
                    BY <2>2, <3>1, <3>2, <5>1, <5>2
            <4> QED
                BY <4>1, <4>2, Zenon
        <3>6. f[h + 1] < (h + 1) - start + 1 => Test((h + 1) - f[h + 1])
            <4>1. f[h + 1] < (h + 1) - start + 1 => f[h] < h - start + 1
                BY <2>2, <3>1, <3>2
            <4> QED
                BY <3>2, <3>3, <4>1, Zenon
        <3> QED
            BY <3>4, <3>5, <3>6, Zenon DEF RunAt, Test
    <2> QED
        BY <2>4, <2>5, Zenon
<1>4. N = Nat
    <2>1. N \in SUBSET Nat
        BY Zenon
    <2> HIDE DEF N
    <2> QED
        BY <1>2, <1>3, <2>1, LoopInduction, Zenon
<1>5. k - start \in Nat /\ start + (k - start) = k /\ k <= last
    OBVIOUS
<1> QED
    BY <1>4, <1>5, Zenon

\* cnt clear bits from r on; they may reach the bit behind the bitmap.
FitsAt(m, base, last, cnt, r) ==
    /\ r \in Nat /\ r + cnt - 1 <= last
    /\ \A i \in r..r + cnt - 1 : ~ BitmapTestBit(m, base, i)

\* A place that BitmapScan returns fits, and there is none before it; the
\* bit behind the bitmap is used only together with one inside.
LEMMA ScanFindsFirst ==
    ASSUME NEW m, NEW base, NEW len \in Nat, NEW cnt \in Nat \ {0},
           ~ ScanAsserts(m, base, len)
    PROVE  LET r == BitmapScan(m, base, len, cnt)
               last == len * ByteBits
           IN  /\ r # -1 => FitsAt(m, base, last, cnt, r)
               /\ r # -1 /\ cnt = 1 => r < last
               /\ \A s : FitsAt(m, base, last, cnt, s) /\ s < last => r # -1 /\ r <= s
<1> DEFINE r == BitmapScan(m, base, len, cnt)
           last == len * ByteBits
           start == ScanStart(m, base, len)
           Test(i) == BitmapTestBit(m, base, i)
           f == CHOOSE g : CountLoop(m, base, start, last, g)
           found == {k \in start + 1..last : f[k] = cnt}
<1>1. r = IF cnt = 1 THEN start ELSE IF found = {} THEN -1 ELSE Min(found) - cnt + 1
    BY Zenon DEF BitmapScan, ScanStart, CountLoop
<1>2. last \in Nat
    BY BitmapAssumption, Times, Zenon
<1>3. start \in 0..last - 1 /\ ~ Test(start) /\ \A i \in 0..start - 1 : Test(i)
    BY StartsAtFirst, Zenon
<1> HIDE DEF r, last, start, Test
<1>4. CountLoop(m, base, start, last, f)
    <2>1. start \in Nat /\ last - start \in Nat /\ start + (last - start) = last
        BY <1>2, <1>3
    <2> DEFINE n == last - start
    <2>2. \E g : CountLoop(m, base, start, last, g)
        <3>1. n \in Nat /\ start + n = last
            BY <2>1, Zenon
        <3> HIDE DEF n
        <3>2. \E g : CountLoop(m, base, start, start + n, g)
            BY <2>1, <3>1, CountLoopExists, Zenon
        <3> QED
            BY <3>1, <3>2, Zenon
    <2> QED
        BY <2>2, Zenon
<1> HIDE DEF f
<1>5. ASSUME NEW k \in start..last
      PROVE  /\ f[k] \in 0..k - start + 1
             /\ \A i \in k - f[k] + 1..k : ~ Test(i) /\ f[i] = f[k] - (k - i)
             /\ f[k] < k - start + 1 => Test(k - f[k])
    <2>1. start \in Nat /\ start <= last
        BY <1>2, <1>3
    <2>2. RunAt(m, base, start, f, k)
        BY <1>2, <1>3, <1>4, <2>1, CountsRuns, Zenon DEF Test
    <2> QED
        BY <2>2, Zenon DEF RunAt, Test
<1>6. f[start] = 1
    BY <1>2, <1>3, <1>4 DEF CountLoop
<1>7. found # {} => Min(found) \in found /\ \A k \in found : Min(found) <= k
    <2>1. found \in SUBSET Nat
        BY <1>2, <1>3
    <2> HIDE DEF found
    <2> QED
        BY <2>1, LeastElement, Zenon
<1>8. ASSUME r # -1
      PROVE  FitsAt(m, base, last, cnt, r) /\ (cnt = 1 => r < last)
    <2>1. CASE cnt = 1
        <3>1. r = start /\ r + cnt - 1 = start
            BY <1>1, <1>3, <2>1
        <3>2. \A i \in r..r + cnt - 1 : i = start
            BY <1>2, <1>3, <3>1
        <3> QED
            BY <1>2, <1>3, <3>1, <3>2 DEF FitsAt, Test
    <2>2. CASE cnt # 1
        <3> DEFINE k == Min(found)
        <3>1. found # {} /\ r = k - cnt + 1
            BY <1>1, <1>8, <2>2, Zenon
        <3>2. k \in found
            BY <1>7, <3>1, Zenon
        <3>3. k \in start + 1..last /\ f[k] = cnt
            BY <3>2, Zenon
        <3> HIDE DEF k, found
        <3>4. k \in start..last
            BY <1>3, <3>3
        <3>5. cnt \in 0..k - start + 1 /\ \A i \in k - cnt + 1..k : ~ Test(i)
            BY <1>5, <3>3, <3>4, Zenon
        <3>6. r \in Nat /\ r + cnt - 1 = k /\ k <= last
            BY <1>2, <1>3, <3>1, <3>3, <3>5
        <3> QED
            BY <2>2, <3>1, <3>5, <3>6, Zenon DEF FitsAt, Test
    <2> QED
        BY <2>1, <2>2, Zenon
<1>9. ASSUME NEW s, FitsAt(m, base, last, cnt, s), s < last
      PROVE  r # -1 /\ r <= s
    <2>1. /\ s \in Nat /\ s + cnt - 1 <= last
          /\ \A i \in s..s + cnt - 1 : ~ Test(i)
        BY <1>9, Zenon DEF FitsAt, Test
    <2>2. start <= s
        <3>1. ~ Test(s)
            BY <2>1
        <3>2. s < start => s \in 0..start - 1
            BY <1>3, <2>1
        <3> QED
            BY <1>3, <2>1, <3>1, <3>2
    <2>3. CASE cnt = 1
        BY <1>1, <1>3, <2>2, <2>3
    <2>4. CASE cnt # 1
        <3> DEFINE k == s + cnt - 1
                   x == k - (f[k] - cnt)
        <3>1. k \in start..last /\ k \in Nat
            BY <1>2, <1>3, <2>1, <2>2
        <3>2. /\ f[k] \in 0..k - start + 1
              /\ \A i \in k - f[k] + 1..k : f[i] = f[k] - (k - i)
              /\ f[k] < k - start + 1 => Test(k - f[k])
            BY <1>5, <3>1, Zenon
        <3>3. cnt <= f[k]
            <4>1. SUFFICES ASSUME f[k] < cnt PROVE FALSE
                BY <3>1, <3>2
            <4>2. k - f[k] \in s..s + cnt - 1 /\ f[k] < k - start + 1
                BY <1>3, <2>1, <2>2, <3>1, <3>2, <4>1
            <4> QED
                BY <2>1, <3>2, <4>2, Zenon
        <3>4. x \in k - f[k] + 1..k /\ f[k] - (k - x) = cnt
            BY <2>4, <3>1, <3>2, <3>3
        <3>5. f[x] = cnt /\ x <= k /\ x \in start..last
            <4>1. f[x] = cnt
                BY <3>2, <3>4, Zenon
            <4> HIDE DEF x
            <4> QED
                BY <1>2, <1>3, <3>1, <3>2, <3>4, <4>1
        <3> HIDE DEF x
        <3>6. x \in found
            <4>1. x # start
                BY <1>6, <2>4, <3>5, Zenon
            <4> QED
                BY <1>3, <3>5, <4>1
        <3>7. found # {} /\ Min(found) <= x /\ Min(found) \in found
            BY <1>7, <3>6, Zenon
        <3>8. r = Min(found) - cnt + 1
            BY <1>1, <2>4, <3>7, Zenon
        <3>9. Min(found) \in start..last /\ f[Min(found)] = cnt
            BY <1>2, <1>3, <3>7
        <3>10. cnt \in 0..Min(found) - start + 1
            BY <1>5, <3>9, Zenon
        <3> HIDE DEF found
        <3> QED
            BY <1>2, <1>3, <2>1, <3>5, <3>7, <3>8, <3>9, <3>10
    <2> QED
        BY <2>3, <2>4, Zenon
<1> QED
    BY <1>8, <1>9, Zenon DEF r, last

\* BitmapScan is first fit on every bitmap.
LEMMA FirstFitScan ==
    ASSUME NEW m, NEW base, NEW len \in Nat
    PROVE  ScanFits(m, base, len)
<1> DEFINE last == len * ByteBits
           Test(i) == BitmapTestBit(m, base, i)
<1>1. last \in Nat
    BY BitmapAssumption, Times, Zenon
<1>2. CASE ScanAsserts(m, base, len)
    BY <1>2, StartsAtFirst, Zenon DEF ScanFits
<1>3. CASE ~ ScanAsserts(m, base, len)
    <2>1. SUFFICES ASSUME NEW cnt \in 1..last
                   PROVE  LET r == BitmapScan(m, base, len, cnt) IN
                          \/ r = FirstFit(m, base, len, cnt)
                          \/ /\ FirstFit(m, base, len, cnt) = -1 /\ cnt > 1
                             /\ r = last - cnt + 1
                             /\ \A i \in r..last : ~ Test(i)
        BY <1>3, Zenon DEF ScanFits
    <2> DEFINE r == BitmapScan(m, base, len, cnt)
               fits == {s \in 0..last - cnt : \A i \in s..s + cnt - 1 : ~ Test(i)}
    <2>2. cnt \in Nat \ {0}
        BY <1>1, <2>1
    <2>3. /\ r # -1 => FitsAt(m, base, last, cnt, r)
          /\ r # -1 /\ cnt = 1 => r < last
          /\ \A s : FitsAt(m, base, last, cnt, s) /\ s < last => r # -1 /\ r <= s
        BY <1>3, <2>2, ScanFindsFirst, Zenon
    <2>4. FirstFit(m, base, len, cnt) = IF fits = {} THEN -1 ELSE Min(fits)
        BY Zenon DEF FirstFit
    <2> HIDE DEF r, last, Test
    <2>5. r # -1 => /\ r \in Nat /\ r + cnt - 1 <= last
                    /\ \A i \in r..r + cnt - 1 : ~ Test(i)
        BY <2>3, Zenon DEF FitsAt, Test
    <2>6. CASE fits = {}
        <3>1. FirstFit(m, base, len, cnt) = -1
            BY <2>4, <2>6, Zenon
        <3>2. ASSUME r # -1
              PROVE  cnt > 1 /\ r = last - cnt + 1 /\ \A i \in r..last : ~ Test(i)
            <4>1. ~ (r \in 0..last - cnt)
                BY <2>5, <2>6, <3>2, Zenon
            <4>2. r = last - cnt + 1
                BY <1>1, <2>2, <2>5, <3>2, <4>1
            <4>3. cnt > 1 /\ r + cnt - 1 = last
                BY <1>1, <2>2, <2>3, <2>5, <3>2, <4>2
            <4> QED
                BY <2>5, <3>2, <4>2, <4>3, Zenon
        <3> QED
            BY <3>1, <3>2, Zenon DEF r
    <2>7. CASE fits # {}
        <3> DEFINE s == Min(fits)
        <3>1. s \in fits /\ \A y \in fits : s <= y
            <4>1. fits \in SUBSET Nat
                BY <1>1, <2>2
            <4> HIDE DEF fits
            <4> QED
                BY <2>7, <4>1, LeastElement, Zenon
        <3> HIDE DEF s
        <3>2. s \in 0..last - cnt /\ \A i \in s..s + cnt - 1 : ~ Test(i)
            BY <3>1, Zenon
        <3>3. s \in Nat /\ s + cnt - 1 <= last /\ s < last
            BY <1>1, <2>2, <3>2
        <3>4. FitsAt(m, base, last, cnt, s)
            BY <3>2, <3>3, Zenon DEF FitsAt, Test
        <3>5. r # -1 /\ r <= s
            BY <2>3, <3>3, <3>4, Zenon
        <3>6. r \in 0..last - cnt
            BY <1>1, <2>2, <2>5, <3>2, <3>5
        <3>7. s <= r
            BY <2>5, <3>1, <3>5, <3>6, Zenon
        <3>8. r = s
            BY <2>5, <3>3, <3>5, <3>7
        <3> QED
            BY <2>4, <2>7, <3>8, Zenon DEF r, s
    <2> QED
        BY <2>6, <2>7, Zenon
<1> QED
    BY <1>2, <1>3, Zenon
=============================================================================
