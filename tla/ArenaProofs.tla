---------------------------- MODULE ArenaProofs ----------------------------
(***************************************************************************)
(* The heap of Arena for every page size, header, range of block sizes and *)
(* pool: what sys_malloc hands out is the caller's own, the free lists and *)
(* the counts in the headers agree, and nothing leaks.                     *)
(***************************************************************************)
EXTENDS ArenaSteps

-----------------------------------------------------------------------------
LEMMA HeapInit == ArenaInit => HeapInv
<1> SUFFICES ASSUME ArenaInit PROVE HeapInv
    OBVIOUS
<1>1. /\ free_list = [d \in desc |-> <<>>] /\ arena = [n \in Page |-> NoArena]
      /\ live = <<>>
    BY Zenon DEF ArenaInit, Page
<1>2. /\ DOMAIN live = {}
      /\ \A d \in desc : free_list[d] = <<>> /\ Range(free_list[d]) = {}
    BY <1>1 DEF Range
<1>3. \A n \in Page : arena[n] = NoArena
    BY <1>1, Zenon
<1>4. HeapType(free_list, arena, live)
    BY <1>1, <1>2 DEF HeapType, Headers
<1>5. \A n \in Page : ~ IsSmall(arena, n) /\ ~ IsLarge(arena, n) /\ arena[n] # Inner
    BY <1>3, <1>4, HeaderKinds, Zenon
<1>6. \A d \in desc : IsInjective(free_list[d])
    BY <1>2 DEF IsInjective
<1> QED
    BY <1>2, <1>4, <1>5, <1>6, Zenon
    DEF HeapInv, Heap, LargeOK, LiveOK, FreeOK, CutOK, CutPage, InUse

\* MallocLarge is LargeStep, on the pages that palloc finds.
LEMMA MallocLargeInv ==
    ASSUME HeapInv, NEW size \in Sizes, MallocLarge(size)
    PROVE  HeapInv'
<1> DEFINE cnt == (size + HeaderSize + PageSize - 1) \div PageSize
           av == Min(Fits(cnt))
<1>1. size \in Nat /\ size > Largest
    BY ArenaAssumption, Zenon DEF MallocLarge
<1>2. size > 0
    BY <1>1, Constants
<1>3. cnt \in Nat /\ cnt > 0 /\ size + HeaderSize <= cnt * PageSize
    <2>1. ASSUME NEW s \in Nat, s > 0
          PROVE  LET c == (s + PageSize - 1) \div PageSize
                 IN  c \in Nat /\ c > 0 /\ s <= c * PageSize
        <3> DEFINE x == s + PageSize - 1
                   c == x \div PageSize
        <3>1. x \in Nat /\ x >= PageSize /\ PageSize \in Nat /\ PageSize > 0
            BY <2>1, Constants
        <3>2. /\ c \in Int /\ x = PageSize * c + (x % PageSize)
              /\ x % PageSize \in 0..(PageSize - 1)
            BY <3>1
        <3>3. ASSUME NEW q \in Int, NEW r \in 0..(PageSize - 1), x = PageSize * q + r
              PROVE  q \in Nat /\ q > 0 /\ s <= q * PageSize
            <4>1. PageSize * q \in Int /\ PageSize * q = q * PageSize
                BY <3>1
            <4>2. s <= PageSize * q /\ PageSize * q > 0
                BY <2>1, <3>1, <3>3, <4>1
            <4>3. CASE q <= 0
                <5>1. PageSize * q <= 0
                    BY <3>1, <4>3
                <5> QED
                    BY <4>1, <4>2, <5>1
            <4>4. CASE q > 0
                BY <4>1, <4>2, <4>4
            <4> QED
                BY <4>3, <4>4
        <3> QED
            BY <3>2, <3>3, Zenon
    <2>2. size + HeaderSize \in Nat /\ size + HeaderSize > 0
        BY <1>1, <1>2, Constants
    <2> QED
        BY <2>1, <2>2, Zenon
<1>4. /\ Fits(cnt) # {}
      /\ arena' = [n \in 0..Pages - 1 |->
                IF n = av THEN [large_request |-> 1, desc |-> -1, cnt |-> cnt]
                ELSE IF n \in av..av + cnt - 1 THEN Inner ELSE arena[n]]
      /\ live' = Lives(av * PageSize + HeaderSize, size)
      /\ free_list' = free_list
    BY Zenon DEF MallocLarge
<1> HIDE DEF cnt, av
<1>5. Fits(cnt) \in SUBSET Nat
    BY <1>3, Constants DEF Fits
<1>6. av \in Fits(cnt)
    BY <1>4, <1>5, Least, Zenon DEF av
<1>7. /\ av \in Nat
      /\ av + cnt <= Pages
      /\ \A i \in av..(av + cnt - 1) : arena[i] = NoArena
    BY <1>3, <1>5, <1>6, Constants DEF Fits
<1>8. Heap(free_list, arena, live)
    BY Zenon DEF HeapInv
<1>9. live' = With(live, LargeAddress(av), size)
    BY <1>4, Zenon DEF Lives, With, LargeAddress
<1>10. arena' = LargeArenas(arena, av, cnt)
    BY <1>4, Zenon DEF LargeArenas, Page
<1>11. Heap(free_list, arena', live')
    BY <1>1, <1>2, <1>3, <1>7, <1>8, <1>9, <1>10, LargeStep, Zenon
<1>12. ASSUME NEW n \in Page, IsSmall(arena', n) PROVE arena'[n] = arena[n]
    BY <1>10, <1>12 DEF LargeArenas, IsSmall, Inner
<1>13. \A n \in Page : InUse(arena', n)
    BY <1>12, Zenon DEF HeapInv, InUse, IsSmall
<1> QED
    BY <1>4, <1>11, <1>13, Zenon DEF HeapInv

\* MallocBlock is CutStep, if the free list is empty, and TakeStep.
LEMMA MallocBlockInv ==
    ASSUME HeapInv, NEW size \in Sizes, MallocBlock(size)
    PROVE  HeapInv'
<1> DEFINE d == ArenaIdx(size)
           cut == free_list[d] = <<>>
           new == Min(Fits(1))
           list == IF cut THEN Blocks(new, d) ELSE free_list[d]
           arenas == IF cut THEN CutArenas(arena, new, d) ELSE arena
           lists == IF cut THEN CutLists(free_list, new, d) ELSE free_list
           p == Head(list)
           av == block2arena(p)
<1>1. /\ size > 0 /\ size <= Largest /\ (cut => Fits(1) # {})
      /\ free_list' = [free_list EXCEPT ![d] = Tail(list)]
      /\ arena' = TakeBlock(av, arenas)
      /\ live' = With(live, p, size)
    BY Zenon DEF MallocBlock, Lives, With, CutArenas
<1>2. size \in Nat
    BY ArenaAssumption, Zenon
<1>3. d \in desc /\ size <= block_size(d)
    <2> DEFINE D == {e \in desc : size <= block_size(e)}
    <2>1. D \in SUBSET Nat
        BY Constants DEF desc
    <2>2. ArenaSum - 1 \in D
        BY <1>1, Constants DEF desc, Largest
    <2>3. Min(D) \in D
        <3> HIDE DEF D
        <3> QED
            BY <2>1, <2>2, Least, Zenon
    <2> QED
        BY <2>3, Zenon DEF ArenaIdx
<1>4. /\ Heap(free_list, arena, live) /\ \A n \in Page : InUse(arena, n)
      /\ free_list \in [desc -> Seq(Nat)]
    BY Zenon DEF HeapInv, Heap, HeapType
<1>5. lists = [free_list EXCEPT ![d] = list] /\ lists[d] = list
    <2> HIDE DEF d, new
    <2> QED
        BY <1>3, <1>4, Zenon DEF CutLists
<1>6. /\ Heap(lists, arenas, live) /\ list # <<>>
      /\ \A n \in Page \ {av} : InUse(arenas, n)
    <2>1. CASE cut
        <3>1. Fits(1) \in SUBSET Nat /\ Fits(1) # {}
            BY <1>1, <2>1, Constants DEF Fits
        <3>2. new \in Fits(1)
            BY <3>1, Least, Zenon
        <3>3. new \in Page /\ arena[new] = NoArena
            BY <3>1, <3>2, Constants DEF Fits, Page
        <3> HIDE DEF new, d
        <3>4. lists = CutLists(free_list, new, d) /\ arenas = CutArenas(arena, new, d)
            BY <2>1, Zenon
        <3>5. /\ Heap(lists, arenas, live) /\ lists[d] # <<>>
              /\ block2arena(Head(lists[d])) = new
              /\ \A n \in Page \ {new} : arenas[n] = arena[n]
            BY <1>3, <1>4, <2>1, <3>3, <3>4, CutStep
        <3> HIDE DEF list, lists, arenas
        <3>6. \A n \in Page \ {av} : InUse(arenas, n)
            BY <1>4, <1>5, <3>5, Zenon DEF InUse, IsSmall
        <3> QED
            BY <1>5, <3>5, <3>6, Zenon
    <2>2. CASE ~ cut
        BY <1>4, <2>2, Zenon
    <2> QED
        BY <2>1, <2>2, Zenon
<1>7. free_list' = TakeLists(lists, d)
    <2>1. /\ free_list' = [free_list EXCEPT ![d] = Tail(list)]
          /\ lists = [free_list EXCEPT ![d] = list]
        BY <1>1, <1>5, Zenon
    <2> HIDE DEF d, list, lists
    <2> QED
        BY <1>3, <1>4, <1>5, <2>1, Zenon DEF TakeLists
<1> HIDE DEF d, list, lists, arenas, p, av
<1>8. p = Head(lists[d]) /\ av = block2arena(p)
    BY <1>5, Zenon DEF p, av
<1>9. /\ Heap(free_list', arena', live') /\ InUse(arena', av)
      /\ \A n \in Page \ {av} : arena'[n] = arenas[n]
    <2>1. size > 0 /\ arena' = TakeBlock(av, arenas) /\ live' = With(live, p, size)
        BY <1>1, Zenon
    <2>2. Heap(lists, arenas, live) /\ lists[d] # <<>>
        BY <1>5, <1>6, Zenon
    <2>3. /\ Heap(TakeLists(lists, d), TakeBlock(av, arenas), With(live, p, size))
          /\ InUse(TakeBlock(av, arenas), av)
          /\ \A n \in Page \ {av} : TakeBlock(av, arenas)[n] = arenas[n]
        BY <1>2, <1>3, <1>8, <2>1, <2>2, TakeStep
    <2> QED
        BY <1>7, <2>1, <2>3, Zenon
<1>10. \A n \in Page : InUse(arena', n)
    BY <1>6, <1>9, Zenon DEF InUse, IsSmall
<1> QED
    BY <1>9, <1>10, Zenon DEF HeapInv

\* sys_free is LargeFreeStep, or GiveStep and, for the last block in use of an
\* arena, ReturnStep.
LEMMA FreeInv ==
    ASSUME HeapInv, NEW p \in DOMAIN live, sys_free(p)
    PROVE  HeapInv'
<1> DEFINE av == block2arena(p)
           d == arena[av].desc
           list == Append(free_list[d], p)
<1>1. /\ Heap(free_list, arena, live) /\ \A n \in Page : InUse(arena, n)
      /\ free_list \in [desc -> Seq(Nat)] /\ arena \in [Page -> Headers]
      /\ HeapType(free_list, arena, live)
    BY Zenon DEF HeapInv, Heap, HeapType
<1>2. av \in Page /\ (IsSmall(arena, av) \/ IsLarge(arena, av))
    BY <1>1, Zenon DEF Heap, LiveOK, HasBlock, HasPages
<1>3. live' = Without(live, p)
    BY Zenon DEF sys_free, Without
<1>4. /\ av \in Nat
      /\ IsSmall(arena, av) => /\ d \in desc /\ arena[av].cnt \in Nat
                               /\ ~ IsLarge(arena, av)
    BY <1>1, <1>2, HeaderKinds, Zenon
<1>5. CASE IsLarge(arena, av)
    <2>1. arena' = LargeFreeArenas(arena, av) /\ free_list' = free_list
        BY <1>5, Zenon DEF sys_free, pfree, LargeFreeArenas, IsLarge, Page
    <2> HIDE DEF av
    <2>2. av = block2arena(p)
        BY Zenon DEF av
    <2>3. /\ Heap(free_list', arena', live')
          /\ \A n \in Page : IsSmall(arena', n) => arena'[n] = arena[n]
        BY <1>1, <1>3, <1>5, <2>1, <2>2, LargeFreeStep
    <2> QED
        BY <1>1, <2>3, Zenon DEF HeapInv, InUse, IsSmall
<1>6. CASE IsSmall(arena, av)
    <2> DEFINE fl == GiveLists(free_list, d, p)
               ar == GiveArenas(arena, av)
    <2>1. /\ Heap(fl, ar, live') /\ IsSmall(ar, av)
          /\ ar[av].desc = d /\ ar[av].cnt = arena[av].cnt + 1
          /\ \A n \in Page \ {av} : ar[n] = arena[n]
        <3> HIDE DEF av, d
        <3>1. av = block2arena(p) /\ d = arena[av].desc
            BY Zenon DEF av, d
        <3> QED
            BY <1>1, <1>3, <1>6, <3>1, GiveStep
    <2>2. d \in desc /\ arena[av].cnt \in Nat /\ ~ IsLarge(arena, av)
        BY <1>4, <1>6, Zenon
    <2>3. CASE arena[av].cnt + 1 = memory_blocks_sum(d)
        <3>1. ReturnArena(av, d, list)
            BY <2>2, <2>3, Zenon DEF sys_free, IsLarge
        <3>2. fl[d] = list /\ list \in Seq(Nat) /\ IsInjective(list)
            <4>1. fl[d] = list
                BY <1>1, <2>2, Zenon DEF GiveLists
            <4>2. fl[d] \in Seq(Nat) /\ IsInjective(fl[d])
                BY <2>1, <2>2, Zenon DEF Heap, HeapType, FreeOK
            <4> QED
                BY <4>1, <4>2, Zenon
        <3>3. BlockSet(av, d) \subseteq Range(list)
            <4> HIDE DEF fl, ar, d, av
            <4>1. HeapType(fl, ar, live') /\ FreeOK(fl, ar) /\ CutOK(fl, ar, live')
                BY <2>1, Zenon DEF Heap
            <4>2. ar[av].cnt = Cardinality(FreeOf(fl, ar, av))
                BY <1>2, <2>1, <4>1, Zenon DEF CutOK, CutPage
            <4>3. FreeOf(fl, ar, av) = BlockSet(av, d)
                BY <1>2, <2>1, <2>3, <4>1, <4>2, FreeBlocks
            <4> QED
                BY <2>1, <3>2, <4>3, Zenon DEF FreeOf
        <3>4. PICK rest \in Seq(Nat) :
                /\ IsInjective(rest)
                /\ Range(rest) = Range(list) \ BlockSet(av, d)
                /\ free_list' = [free_list EXCEPT ![d] = rest]
            BY <1>4, <2>2, <3>1, <3>2, <3>3, ReturnedList, Zenon
        <3>5. free_list' = SetList(fl, d, rest)
            <4> HIDE DEF d, list, av
            <4> QED
                BY <1>1, <2>2, <3>4, Zenon DEF SetList, GiveLists
        <3>6. arena' = ReturnArenas(ar, av)
            <4>1. arena' = [n \in Page |->
                             IF n \in av..(av + 1 - 1) THEN NoArena ELSE arena[n]]
                BY <3>1, Zenon DEF ReturnArena, pfree, Page
            <4>2. av..(av + 1 - 1) = {av}
                BY <1>4
            <4> HIDE DEF av
            <4> QED
                BY <1>1, <1>2, <4>1, <4>2, Zenon DEF ReturnArenas, GiveArenas
        <3> HIDE DEF fl, ar, d, av, list
        <3>7. /\ Heap(free_list', arena', live')
              /\ \A n \in Page \ {av} : arena'[n] = ar[n]
            <4>1. ar[av].cnt = memory_blocks_sum(d) /\ d = ar[av].desc
                BY <2>1, <2>3, Zenon
            <4>2. IsInjective(rest) /\ Range(rest) = Range(fl[d]) \ BlockSet(av, d)
                BY <3>2, <3>4, Zenon
            <4>3. /\ Heap(SetList(fl, d, rest), ReturnArenas(ar, av), live')
                  /\ \A n \in Page \ {av} : ReturnArenas(ar, av)[n] = ar[n]
                BY <1>2, <2>1, <4>1, <4>2, ReturnStep
            <4> QED
                BY <3>5, <3>6, <4>3, Zenon
        <3>8. ~ IsSmall(arena', av)
            <4>1. arena'[av] = NoArena
                BY <1>1, <1>2, <3>6, Zenon DEF ReturnArenas, ar, GiveArenas
            <4> QED
                BY <4>1 DEF NoArena, IsSmall
        <3> QED
            BY <1>1, <2>1, <3>7, <3>8, Zenon DEF HeapInv, InUse, IsSmall
    <2>4. CASE arena[av].cnt + 1 # memory_blocks_sum(d)
        <3>1. free_list' = fl /\ arena' = ar
            BY <2>2, <2>4, Zenon DEF sys_free, IsLarge, GiveLists, GiveArenas
        <3>2. ar[av].cnt < memory_blocks_sum(d)
            <4>1. arena[av].cnt < memory_blocks_sum(d)
                BY <1>1, <1>2, <1>6, Zenon DEF InUse
            <4> HIDE DEF d, av
            <4> QED
                BY <2>1, <2>2, <2>4, <4>1, BlockSizes
        <3> HIDE DEF fl, ar, d, av
        <3> QED
            BY <1>1, <2>1, <3>1, <3>2, Zenon DEF HeapInv, InUse, IsSmall
    <2> QED
        BY <2>3, <2>4, Zenon
<1> QED
    BY <1>2, <1>5, <1>6, Zenon

LEMMA HeapInvariant == ArenaSpec => []HeapInv
<1>1. ASSUME HeapInv, ArenaNext PROVE HeapInv'
    <2>1. ASSUME NEW size \in Sizes, sys_malloc(size) PROVE HeapInv'
        BY <1>1, <2>1, MallocLargeInv, MallocBlockInv, Zenon DEF sys_malloc
    <2>2. ASSUME NEW p \in DOMAIN live, sys_free(p) PROVE HeapInv'
        BY <1>1, <2>2, FreeInv, Zenon
    <2> QED
        BY <1>1, <2>1, <2>2, Zenon DEF ArenaNext
<1>2. ASSUME HeapInv, UNCHANGED heapVars PROVE HeapInv'
    <2>1. free_list' = free_list /\ arena' = arena /\ live' = live
        BY <1>2, Zenon DEF heapVars
    <2> QED
        BY <1>2, <2>1, Zenon DEF HeapInv, InUse, IsSmall
<1> QED
    BY HeapInit, <1>1, <1>2, PTL DEF ArenaSpec

-----------------------------------------------------------------------------
\* What the invariant says about the bytes that callers have.

\* The pages of a range of bytes.
LEMMA PagesOf ==
    ASSUME NEW n \in Nat, NEW c \in Nat, NEW b \in Nat,
           n * PageSize + HeaderSize <= b, b < n * PageSize + c * PageSize
    PROVE  /\ b \div PageSize \in n..(n + c - 1)
           /\ b \div PageSize = n => b % PageSize >= HeaderSize
<1> DEFINE q == b \div PageSize
           r == b % PageSize
<1>1. PageSize \in Nat /\ PageSize > 0 /\ HeaderSize \in Nat
    BY Constants, Zenon
<1>2. q \in Int /\ r \in 0..(PageSize - 1) /\ b = PageSize * q + r
    BY <1>1
<1> HIDE DEF q, r
<1>3. q \in Nat /\ b = q * PageSize + r
    <2>1. ~ q < 0
        <3>1. ASSUME q < 0 PROVE PageSize * q <= -PageSize
            <4>1. PICK k \in Nat : q = -(k + 1)
                BY <1>2, <3>1
            <4>2. PageSize * q = -(PageSize * k) - PageSize /\ PageSize * k \in Nat
                BY <1>1, <4>1
            <4> QED
                BY <1>1, <4>2
        <3>2. PageSize * q \in Int
            BY <1>1, <1>2
        <3> QED
            BY <1>1, <1>2, <3>1, <3>2
    <2>2. PageSize * q = q * PageSize
        BY <1>1, <1>2
    <2> QED
        BY <1>2, <2>1, <2>2
<1>4. n * PageSize \in Nat /\ c * PageSize \in Nat /\ q * PageSize \in Nat
    BY <1>1, <1>3, Multiples, Zenon
<1>5. ~ q < n
    <2>1. ASSUME q < n PROVE q * PageSize + PageSize <= n * PageSize
        BY <1>1, <1>3, <2>1, Multiples, Zenon
    <2> QED
        BY <1>1, <1>2, <1>3, <1>4, <2>1
<1>6. ~ n + c <= q
    <2>1. ASSUME n + c <= q PROVE (n + c) * PageSize <= q * PageSize
        BY <1>1, <1>3, <2>1, Multiples
    <2>2. (n + c) * PageSize = n * PageSize + c * PageSize
        BY <1>1
    <2> QED
        BY <1>1, <1>2, <1>3, <1>4, <2>1, <2>2
<1>7. q = n => r >= HeaderSize
    BY <1>1, <1>2, <1>3, <1>4
<1> QED
    BY <1>3, <1>5, <1>6, <1>7 DEF q, r

\* A byte of an allocation is on the page of its block, or on one of its pages.
LEMMA ByteOf ==
    ASSUME HeapInv, NEW p \in DOMAIN live, NEW b \in Extent(p)
    PROVE  LET n == block2arena(p)
               m == b \div PageSize
           IN  /\ b \in Nat /\ n \in Page /\ m \in Page
               /\ \/ /\ HasBlock(arena, live, p)
                     /\ m = n /\ b % PageSize >= HeaderSize
                     /\ p <= b /\ b < p + block_size(arena[n].desc)
                  \/ /\ HasPages(arena, live, p)
                     /\ m \in n..(n + arena[n].cnt - 1)
                     /\ m = n \/ arena[m] = Inner
                     /\ m = n => b % PageSize >= HeaderSize
<1> DEFINE n == block2arena(p)
           m == b \div PageSize
<1>1. HeapType(free_list, arena, live) /\ LargeOK(arena, live) /\ LiveOK(arena, live)
    BY Zenon DEF HeapInv, Heap
<1>2. /\ p \in Nat /\ live[p] \in Nat /\ live[p] > 0
      /\ n \in Page /\ (HasBlock(arena, live, p) \/ HasPages(arena, live, p))
    BY <1>1 DEF HeapType, LiveOK
<1>3. b \in Nat /\ p <= b /\ b < p + live[p]
    BY <1>2 DEF Extent
<1>4. n \in Nat
    BY <1>1, <1>2, HeaderKinds, Zenon
<1>5. n * PageSize \in Nat
    BY <1>4, Constants
<1>6. CASE HasBlock(arena, live, p)
    <2> DEFINE d == arena[n].desc
    <2>1. IsSmall(arena, n) /\ p \in BlockSet(n, d) /\ live[p] <= block_size(d)
        BY <1>6, Zenon DEF HasBlock
    <2>2. d \in desc
        BY <1>1, <1>2, <2>1, HeaderKinds, Zenon
    <2> HIDE DEF d, n
    <2>3. /\ n * PageSize + HeaderSize <= p
          /\ p + block_size(d) <= n * PageSize + PageSize
        BY <1>4, <2>1, <2>2, BlockPlace, Zenon
    <2>4. block_size(d) \in Nat
        BY <2>2, BlockSizes, Zenon
    <2>5. /\ n * PageSize + HeaderSize <= b /\ b < n * PageSize + 1 * PageSize
          /\ b < p + block_size(d)
        BY <1>2, <1>3, <1>5, <2>1, <2>3, <2>4, Constants
    <2>6. m \in n..(n + 1 - 1) /\ (m = n => b % PageSize >= HeaderSize)
        BY <1>3, <1>4, <2>5, PagesOf, Zenon
    <2>7. m = n
        BY <1>4, <2>6
    <2> QED
        BY <1>2, <1>3, <1>6, <2>5, <2>6, <2>7, Zenon DEF d, n
<1>7. CASE HasPages(arena, live, p)
    <2> DEFINE c == arena[n].cnt
    <2>1. /\ IsLarge(arena, n) /\ p = n * PageSize + HeaderSize
          /\ live[p] + HeaderSize <= c * PageSize
        BY <1>7, Zenon DEF HasPages, LargeAddress
    <2>2. c \in Nat
        BY <1>1, <1>2, <2>1, HeaderKinds, Zenon
    <2>3. n + c <= Pages
        BY <1>1, <1>2, <2>1, Zenon DEF LargeOK
    <2> HIDE DEF c, n
    <2>4. c * PageSize \in Nat
        BY <2>2, Constants
    <2>5. n * PageSize + HeaderSize <= b /\ b < n * PageSize + c * PageSize
        BY <1>2, <1>3, <1>5, <2>1, <2>4, Constants
    <2>6. m \in n..(n + c - 1) /\ (m = n => b % PageSize >= HeaderSize)
        BY <1>3, <1>4, <2>2, <2>5, PagesOf, Zenon
    <2> HIDE DEF m
    <2>7. m \in Page /\ (m = n \/ m \in (n + 1)..(n + c - 1))
        BY <1>4, <2>2, <2>3, <2>6, Constants DEF Page
    <2>8. m = n \/ arena[m] = Inner
        BY <1>1, <1>2, <2>1, <2>7, LaterPages, Zenon DEF c
    <2> QED
        BY <1>2, <1>3, <1>7, <2>6, <2>7, <2>8, Zenon DEF c, n, m
<1> QED
    BY <1>2, <1>6, <1>7, Zenon

LEMMA HeapIsolated == HeapInv => LiveIsolated
<1> SUFFICES ASSUME HeapInv, NEW p \in DOMAIN live
             PROVE  /\ \A q \in DOMAIN live \ {p} : Extent(p) \cap Extent(q) = {}
                    /\ \A b \in Extent(p) :
                        /\ arena[b \div PageSize] # NoArena
                        /\ arena[b \div PageSize] # Inner => b % PageSize >= HeaderSize
                    /\ \A d \in desc : \A i \in DOMAIN free_list[d] :
                        Extent(p) \cap
                          free_list[d][i]..free_list[d][i] + block_size(d) - 1 = {}
    BY Zenon DEF LiveIsolated
<1>1. /\ HeapType(free_list, arena, live) /\ LargeOK(arena, live)
      /\ FreeOK(free_list, arena) /\ CutOK(free_list, arena, live)
    BY Zenon DEF HeapInv, Heap
<1>2. ASSUME NEW q \in DOMAIN live, q # p, NEW b \in Extent(p), b \in Extent(q)
      PROVE  FALSE
    <2> DEFINE m == b \div PageSize
               n == block2arena(p)
               k == block2arena(q)
    <2>1. /\ b \in Nat /\ n \in Page /\ m \in Page
          /\ \/ /\ HasBlock(arena, live, p) /\ m = n
                /\ p <= b /\ b < p + block_size(arena[n].desc)
             \/ /\ HasPages(arena, live, p)
                /\ m \in n..(n + arena[n].cnt - 1)
                /\ m = n \/ arena[m] = Inner
        BY ByteOf, Zenon
    <2>2. /\ k \in Page
          /\ \/ /\ HasBlock(arena, live, q) /\ m = k
                /\ q <= b /\ b < q + block_size(arena[k].desc)
             \/ /\ HasPages(arena, live, q)
                /\ m \in k..(k + arena[k].cnt - 1)
                /\ m = k \/ arena[m] = Inner
        BY <1>2, ByteOf, Zenon
    <2>3. /\ HasBlock(arena, live, p) => IsSmall(arena, n) /\ p \in BlockSet(n, arena[n].desc)
          /\ HasBlock(arena, live, q) => IsSmall(arena, k) /\ q \in BlockSet(k, arena[k].desc)
          /\ HasPages(arena, live, p) => IsLarge(arena, n) /\ p = LargeAddress(n)
          /\ HasPages(arena, live, q) => IsLarge(arena, k) /\ q = LargeAddress(k)
        BY Zenon DEF HasBlock, HasPages
    <2> HIDE DEF m, n, k
    <2>4. /\ n \in Nat /\ k \in Nat /\ m \in Nat
          /\ IsSmall(arena, m) => /\ ~ IsLarge(arena, m) /\ arena[m] # Inner
                                  /\ arena[m].desc \in desc
        BY <1>1, <2>1, <2>2, HeaderKinds, Zenon
    <2>5. CASE /\ HasBlock(arena, live, p) /\ m = n /\ p <= b
               /\ b < p + block_size(arena[n].desc)
        <3>1. /\ m = k /\ HasBlock(arena, live, q)
              /\ q <= b /\ b < q + block_size(arena[m].desc)
            BY <2>2, <2>3, <2>4, <2>5, Zenon
        <3>2. /\ p \in BlockSet(m, arena[m].desc)
              /\ q \in BlockSet(m, arena[m].desc) /\ arena[m].desc \in desc
            BY <2>3, <2>4, <2>5, <3>1, Zenon
        <3>3. p + block_size(arena[m].desc) <= q \/ q + block_size(arena[m].desc) <= p
            BY <1>2, <2>4, <3>2, BlocksApart, Zenon
        <3>4. p \in Nat /\ q \in Nat /\ block_size(arena[m].desc) \in Nat
            BY <2>4, <3>2, BlockPlace, BlockSizes, Zenon
        <3> QED
            BY <2>1, <2>5, <3>1, <3>3, <3>4
    <2>6. CASE /\ HasPages(arena, live, p)
               /\ m \in n..(n + arena[n].cnt - 1)
               /\ m = n \/ arena[m] = Inner
        <3>1. /\ HasPages(arena, live, q)
              /\ m \in k..(k + arena[k].cnt - 1)
            BY <2>2, <2>3, <2>4, <2>6, Zenon
        <3>2. IsLarge(arena, n) /\ IsLarge(arena, k) /\ n # k
            BY <1>2, <2>3, <2>6, <3>1, Zenon
        <3>3. arena[n].cnt \in Nat /\ arena[k].cnt \in Nat
            BY <1>1, <2>1, <2>2, <3>2, HeaderKinds, Zenon
        <3>4. n < k => n + arena[n].cnt <= k
            BY <1>1, <2>1, <2>2, <3>2, LargeApart, Zenon
        <3>5. k < n => k + arena[k].cnt <= n
            BY <1>1, <2>1, <2>2, <3>2, LargeApart, Zenon
        <3> QED
            BY <2>4, <2>6, <3>1, <3>2, <3>3, <3>4, <3>5
    <2> QED
        BY <2>1, <2>5, <2>6, Zenon
<1>3. ASSUME NEW b \in Extent(p)
      PROVE  /\ arena[b \div PageSize] # NoArena
             /\ arena[b \div PageSize] # Inner => b % PageSize >= HeaderSize
    <2> DEFINE m == b \div PageSize
               n == block2arena(p)
    <2>1. /\ n \in Page /\ m \in Page
          /\ \/ HasBlock(arena, live, p) /\ m = n /\ b % PageSize >= HeaderSize
             \/ /\ HasPages(arena, live, p)
                /\ m = n \/ arena[m] = Inner
                /\ m = n => b % PageSize >= HeaderSize
        BY ByteOf, Zenon
    <2>2. /\ HasBlock(arena, live, p) => IsSmall(arena, n)
          /\ HasPages(arena, live, p) => IsLarge(arena, n)
        BY Zenon DEF HasBlock, HasPages
    <2> HIDE DEF m, n
    <2>3. IsSmall(arena, n) \/ IsLarge(arena, n) => arena[n] # NoArena
        BY <1>1, <2>1, HeaderKinds, Zenon
    <2>4. NoArena # Inner
        BY <1>1, <2>1, HeaderKinds, Zenon
    <2>5. arena[m] # NoArena /\ (arena[m] # Inner => b % PageSize >= HeaderSize)
        BY <2>1, <2>2, <2>3, <2>4, Zenon
    <2> QED
        BY <2>5, Zenon DEF m
<1>4. ASSUME NEW d \in desc, NEW i \in DOMAIN free_list[d], NEW b \in Extent(p),
             b \in free_list[d][i]..free_list[d][i] + block_size(d) - 1
      PROVE  FALSE
    <2> DEFINE c == free_list[d][i]
               m == b \div PageSize
               n == block2arena(p)
    <2>1. c \in Range(free_list[d])
        BY Zenon DEF Range
    <2>2. /\ block2arena(c) \in Page /\ IsSmall(arena, block2arena(c))
          /\ arena[block2arena(c)].desc = d /\ c \in BlockSet(block2arena(c), d)
        BY <1>1, <2>1, Zenon DEF FreeOK, OnList
    <2>3. /\ b \in Nat /\ n \in Page /\ m \in Page
          /\ \/ /\ HasBlock(arena, live, p) /\ m = n
                /\ p <= b /\ b < p + block_size(arena[n].desc)
             \/ /\ HasPages(arena, live, p)
                /\ m = n \/ arena[m] = Inner
        BY ByteOf, Zenon
    <2>4. /\ HasBlock(arena, live, p) => p \in BlockSet(n, arena[n].desc)
          /\ HasPages(arena, live, p) => IsLarge(arena, n)
        BY Zenon DEF HasBlock, HasPages
    <2>5. b \in c..c + block_size(d) - 1
        BY <1>4, Zenon
    <2> HIDE DEF c, n
    <2> DEFINE k == block2arena(c)
    <2>6. k \in Page /\ k \in Nat
        BY <1>1, <2>2, HeaderKinds, Zenon
    <2>7. /\ c \in Nat /\ block_size(d) \in Nat
          /\ k * PageSize + HeaderSize <= c
          /\ c + block_size(d) <= k * PageSize + PageSize
        BY <2>2, <2>6, BlockPlace, BlockSizes, Zenon
    <2>8. m = k
        <3>1. k * PageSize \in Nat
            BY <2>6, Constants
        <3>2. k * PageSize <= b /\ b < k * PageSize + PageSize
            BY <2>3, <2>5, <2>7, <3>1, Constants
        <3> QED
            BY <2>3, <2>6, <3>2, PageOf, Zenon
    <2> HIDE DEF k, m
    <2>9. IsSmall(arena, k) /\ arena[k].desc = d /\ c \in BlockSet(k, d)
        BY <2>2, Zenon DEF k
    <2>10. ~ IsLarge(arena, k) /\ arena[k] # Inner
        BY <1>1, <2>6, <2>9, HeaderKinds, Zenon
    <2>11. n = k /\ p \in BlockSet(k, d) /\ p <= b /\ b < p + block_size(d)
        BY <2>3, <2>4, <2>8, <2>9, <2>10, Zenon
    <2>12. c # p
        BY <1>1, <2>1, <2>6, <2>9, <2>11, Zenon DEF CutOK, CutPage, c
    <2>13. p + block_size(d) <= c \/ c + block_size(d) <= p
        BY <2>6, <2>9, <2>11, <2>12, BlocksApart, Zenon
    <2>14. p \in Nat
        BY <2>6, <2>11, BlockPlace, Zenon
    <2> QED
        BY <2>3, <2>5, <2>7, <2>11, <2>13, <2>14
<1> QED
    BY <1>2, <1>3, <1>4, Zenon

\* The indices of the blocks of a page on a free list are as many as the blocks.
LEMMA CountIndices ==
    ASSUME NEW l \in Seq(Nat), IsInjective(l), NEW n
    PROVE  Cardinality({i \in DOMAIN l : block2arena(l[i]) = n})
            = Cardinality({b \in Range(l) : block2arena(b) = n})
<1> DEFINE I == {i \in DOMAIN l : block2arena(l[i]) = n}
           B == {b \in Range(l) : block2arena(b) = n}
           f == [i \in I |-> l[i]]
<1>1. DOMAIN l = 1..Len(l) /\ Len(l) \in Nat
    OBVIOUS
<1>2. I \subseteq 1..Len(l)
    BY <1>1, Zenon
<1>3. IsFiniteSet(I)
    <2>1. IsFiniteSet(1..Len(l))
        BY <1>1, FS_Interval
    <2> HIDE DEF I
    <2> QED
        BY <1>2, <2>1, FS_Subset, Zenon
<1>4. \A i \in I : f[i] \in B
    BY Zenon DEF Range
<1>5. \A b \in B : \E i \in I : f[i] = b
    BY Zenon DEF Range
<1>6. \A i, j \in I : f[i] = f[j] => i = j
    BY Zenon DEF IsInjective
<1>7. f \in [I -> B] /\ DOMAIN f = I
    BY <1>4, Zenon
<1> HIDE DEF f, B, I
<1>8. f \in Bijection(I, B)
    <2>1. IsInjective(f)
        BY <1>6, <1>7, Zenon DEF IsInjective
    <2>2. f \in Injection(I, B)
        BY <1>7, <2>1, Zenon DEF Injection
    <2>3. f \in Surjection(I, B)
        BY <1>5, <1>7, Zenon DEF Surjection
    <2> QED
        BY <2>2, <2>3, Zenon DEF Bijection
<1>9. ExistsBijection(I, B)
    BY <1>8, Zenon DEF ExistsBijection
<1> QED
    BY <1>3, <1>9, FS_Bijection, Zenon DEF I, B

LEMMA HeapCounts == HeapInv => FreeListsOK
<1> SUFFICES ASSUME HeapInv PROVE FreeListsOK
    OBVIOUS
<1>1. /\ HeapType(free_list, arena, live)
      /\ FreeOK(free_list, arena) /\ CutOK(free_list, arena, live)
    BY Zenon DEF HeapInv, Heap
<1>2. ASSUME NEW d \in desc, NEW i \in DOMAIN free_list[d]
      PROVE  /\ Small(block2arena(free_list[d][i]))
             /\ arena[block2arena(free_list[d][i])].desc = d
    <2>1. free_list[d][i] \in Range(free_list[d])
        BY Zenon DEF Range
    <2> QED
        BY <1>1, <2>1, Zenon DEF FreeOK, OnList, IsSmall, Small
<1>3. ASSUME NEW n \in Page, Small(n)
      PROVE  /\ arena[n].cnt < memory_blocks_sum(arena[n].desc)
             /\ arena[n].cnt = Cardinality({i \in DOMAIN free_list[arena[n].desc] :
                                    block2arena(free_list[arena[n].desc][i]) = n})
    <2>1. IsSmall(arena, n)
        BY <1>3, Zenon DEF Small, IsSmall
    <2>2. arena[n].desc \in desc
        BY <1>1, <2>1, HeaderKinds, Zenon
    <2>3. /\ free_list[arena[n].desc] \in Seq(Nat)
          /\ IsInjective(free_list[arena[n].desc])
        BY <1>1, <2>2, Zenon DEF HeapType, FreeOK
    <2>4. arena[n].cnt = Cardinality(FreeOf(free_list, arena, n))
        BY <1>1, <2>1, Zenon DEF CutOK, CutPage
    <2>5. arena[n].cnt < memory_blocks_sum(arena[n].desc)
        BY <2>1, Zenon DEF HeapInv, InUse
    <2> QED
        BY <2>3, <2>4, <2>5, CountIndices, Zenon DEF FreeOf
<1>4. \A d \in desc : IsInjective(free_list[d])
    BY <1>1, Zenon DEF FreeOK
<1> QED
    BY <1>2, <1>3, <1>4, Zenon DEF FreeListsOK, Page

LEMMA HeapReturned == HeapInv => NothingLeaks
<1> SUFFICES ASSUME HeapInv, live = <<>> PROVE ArenaInit
    BY Zenon DEF NothingLeaks
<1>1. /\ HeapType(free_list, arena, live) /\ LargeOK(arena, live)
      /\ FreeOK(free_list, arena) /\ CutOK(free_list, arena, live)
    BY Zenon DEF HeapInv, Heap
<1>2. DOMAIN live = {}
    OBVIOUS
<1>3. \A n \in Page : ~ IsLarge(arena, n)
    BY <1>1, <1>2, Zenon DEF LargeOK
<1>4. ASSUME NEW n \in Page, IsSmall(arena, n) PROVE FALSE
    <2> DEFINE d == arena[n].desc
    <2>1. n \in Nat /\ d \in desc /\ arena[n].cnt \in Nat
        BY <1>1, <1>4, HeaderKinds, Zenon
    <2>2. \A b \in BlockSet(n, d) : b \in Range(free_list[d])
        BY <1>1, <1>2, <1>4, Zenon DEF CutOK, CutPage
    <2>3. \A b \in BlockSet(n, d) : block2arena(b) = n
        BY <2>1, BlockPlace, Zenon
    <2>4. FreeOf(free_list, arena, n) \subseteq BlockSet(n, d)
        BY <1>1, <1>4, FreeBlocks, Zenon
    <2>5. FreeOf(free_list, arena, n) = BlockSet(n, d)
        BY <2>2, <2>3, <2>4, Zenon DEF FreeOf
    <2>6. Cardinality(FreeOf(free_list, arena, n)) = memory_blocks_sum(d)
        BY <2>1, <2>5, BlockCount, Zenon
    <2>7. arena[n].cnt = memory_blocks_sum(d)
        BY <1>1, <1>4, <2>6, Zenon DEF CutOK, CutPage
    <2>8. arena[n].cnt < memory_blocks_sum(d)
        BY <1>4, Zenon DEF HeapInv, InUse
    <2> QED
        BY <2>1, <2>7, <2>8
<1>5. \A n \in Page : arena[n] = NoArena
    BY <1>1, <1>3, <1>4, HeaderKinds, Zenon DEF LargeOK
<1>6. arena = [n \in 0..Pages - 1 |-> NoArena]
    BY <1>1, <1>5, Zenon DEF HeapType, Page
<1>7. ASSUME NEW d \in desc PROVE free_list[d] = <<>>
    <2>1. Range(free_list[d]) = {}
        BY <1>1, <1>4, Zenon DEF FreeOK, OnList
    <2>2. free_list[d] \in Seq(Nat)
        BY <1>1, Zenon DEF HeapType
    <2> QED
        BY <2>1, <2>2, TakenOff, Zenon
<1>8. free_list = [d \in desc |-> <<>>]
    BY <1>1, <1>7, Zenon DEF HeapType
<1> QED
    BY <1>6, <1>8, Zenon DEF ArenaInit

-----------------------------------------------------------------------------
\* Whatever sizes callers ask for and in whatever order they free, what
\* sys_malloc returns is theirs alone: no other allocation, header, free block
\* or unmapped page is in it.
THEOREM HeapCorrect == ArenaSpec => []LiveIsolated
    BY HeapInvariant, HeapIsolated, PTL

\* The free lists and the cnt of each arena always agree, so that the ASSERTs on
\* elem_find in sys_malloc and sys_free hold and a page goes back to the pool
\* exactly when its last block is freed.
THEOREM CountsCorrect == ArenaSpec => []FreeListsOK
    BY HeapInvariant, HeapCounts, PTL

\* When all that sys_malloc returned has been freed, sys_free has given back
\* every page.
THEOREM HeapDoesNotLeak == ArenaSpec => []NothingLeaks
    BY HeapInvariant, HeapReturned, PTL

=============================================================================
