------------------------------- MODULE Arena -------------------------------
(***************************************************************************)
(* sys_malloc and sys_free (source/kernel/memory.c) for the kernel or for  *)
(* one process.  Both run under the lock of their pool, so each call is    *)
(* one step.  Pages come from the allocator of PageAlloc, of which only    *)
(* the choice of addresses matters here.                                   *)
(*                                                                         *)
(* An address is a number; page number n begins at n * PageSize, with a    *)
(* struct arena in its first HeaderSize bytes.                             *)
(***************************************************************************)
EXTENDS Integers, Sequences, FiniteSetsExt

CONSTANTS
    PageSize,       \* 4096
    HeaderSize,     \* sizeof(struct arena), 12
    MinBlock,       \* 16
    ArenaSum,       \* ARENA_SUM, 7
    Pages,          \* pages of the pool
    Sizes           \* bound: the sizes that callers ask for

desc == 0..ArenaSum - 1
block_size(d) == MinBlock * 2 ^ d
memory_blocks_sum(d) == (PageSize - HeaderSize) \div block_size(d)
Largest == block_size(ArenaSum - 1)     \* 1024

ASSUME ArenaAssumption ==
    /\ {PageSize, HeaderSize, MinBlock, ArenaSum, Pages} \subseteq Nat \ {0}
    /\ Largest + HeaderSize <= PageSize
    /\ Sizes \subseteq Nat

VARIABLES
    free_list,  \* the free_list of each desc: addresses of blocks
    arena,      \* struct arena at the start of each page; NoArena if unmapped
    live        \* what callers have: address -> size they asked for

heapVars == <<free_list, arena, live>>

NoArena == [large_request |-> -1, desc |-> -1, cnt |-> 0]

\* A later page of a large allocation, which has no header.
Inner == [large_request |-> -2, desc |-> -1, cnt |-> 0]

\* ArenaInit.
ArenaInit ==
    /\ free_list = [d \in desc |-> <<>>]
    /\ arena = [n \in 0..Pages - 1 |-> NoArena]
    /\ live = <<>>

-----------------------------------------------------------------------------
\* Mutant: the header is forgotten.
arena2block_NoHeader(n, d, idx) == n * PageSize + idx * block_size(d)

arena2block(n, d, idx) == n * PageSize + HeaderSize + idx * block_size(d)

block2arena(p) == p \div PageSize

\* The blocks of page n, in order.
Blocks(n, d) == [i \in 1..memory_blocks_sum(d) |-> arena2block(n, d, i - 1)]

\* palloc(PF, cnt): the first of cnt unmapped pages in a row.  If there is none
\* the heap does not change: the call returns NULL, or, with no page left at
\* all, an ASSERT stops the kernel (PageAlloc).
Fits(cnt) == {n \in 0..Pages - cnt : \A i \in n..n + cnt - 1 : arena[i] = NoArena}

\* A caller gets p.
Lives(p, size) == [q \in DOMAIN live \cup {p} |-> IF q = p THEN size ELSE live[q]]

\* sys_malloc for more than the largest block: whole pages.
MallocLarge(size) ==
    LET cnt == (size + HeaderSize + PageSize - 1) \div PageSize IN
    /\ size > Largest /\ size < Pages * PageSize
    /\ Fits(cnt) # {}
    /\ LET av == Min(Fits(cnt)) IN
       /\ arena' = [n \in 0..Pages - 1 |->
                IF n = av THEN [large_request |-> 1, desc |-> -1, cnt |-> cnt]
                ELSE IF n \in av..av + cnt - 1 THEN Inner ELSE arena[n]]
       /\ live' = Lives(av * PageSize + HeaderSize, size)
    /\ UNCHANGED free_list

\* The first desc whose blocks are large enough.
ArenaIdx(size) == Min({d \in desc : size <= block_size(d)})

\* Mutant: cnt is not counted down.
TakeBlock_NoCount(av, a) == a

\* av->cnt--
TakeBlock(av, a) == [a EXCEPT ![av].cnt = @ - 1]

\* sys_malloc for a block: if none is free, a page is cut into blocks first.
MallocBlock(size) ==
    LET d == ArenaIdx(size)
        cut == free_list[d] = <<>>
        new == Min(Fits(1))
        list == IF cut THEN Blocks(new, d) ELSE free_list[d]
        arenas == IF cut THEN [arena EXCEPT ![new] =
                        [large_request |-> 0, desc |-> d, cnt |-> memory_blocks_sum(d)]]
                  ELSE arena
        p == Head(list)
    IN  /\ size > 0 /\ size <= Largest
        /\ cut => Fits(1) # {}
        /\ free_list' = [free_list EXCEPT ![d] = Tail(list)]
        /\ arena' = TakeBlock(block2arena(p), arenas)
        /\ live' = Lives(p, size)

sys_malloc(size) == MallocLarge(size) \/ MallocBlock(size)

-----------------------------------------------------------------------------
\* pfree(PF, av, cnt)
pfree(av, cnt) == [n \in 0..Pages - 1 |-> IF n \in av..av + cnt - 1 THEN NoArena ELSE arena[n]]

\* The list without b, which is on it.
list_remove(list, b) ==
    LET i == CHOOSE j \in DOMAIN list : list[j] = b
    IN  SubSeq(list, 1, i - 1) \o SubSeq(list, i + 1, Len(list))

\* Mutant: the page goes while its blocks stay on the free list.
ReturnArena_Listed(av, d, list) ==
    /\ free_list' = [free_list EXCEPT ![d] = list]
    /\ arena' = pfree(av, 1)

\* All blocks of a page are free: they leave the free list, and the page goes.
ReturnArena(av, d, list) ==
    LET left[i \in 0..memory_blocks_sum(d)] ==
            IF i = 0 THEN list ELSE list_remove(left[i - 1], Blocks(av, d)[i])
    IN  /\ free_list' = [free_list EXCEPT ![d] = left[memory_blocks_sum(d)]]
        /\ arena' = pfree(av, 1)

\* sys_free of an address that sys_malloc returned.
sys_free(p) ==
    LET av == block2arena(p)
        d == arena[av].desc
        list == Append(free_list[d], p)
    IN  /\ live' = [q \in DOMAIN live \ {p} |-> live[q]]
        /\ IF arena[av].large_request = 1
           THEN /\ arena' = pfree(av, arena[av].cnt)
                /\ UNCHANGED free_list
           ELSE IF arena[av].cnt + 1 = memory_blocks_sum(d)
           THEN ReturnArena(av, d, list)
           ELSE /\ free_list' = [free_list EXCEPT ![d] = list]
                /\ arena' = [arena EXCEPT ![av].cnt = @ + 1]

ArenaNext ==
    \/ \E size \in Sizes : sys_malloc(size)
    \/ \E p \in DOMAIN live : sys_free(p)

ArenaSpec == ArenaInit /\ [][ArenaNext]_heapVars

-----------------------------------------------------------------------------
\* The arenas of page n, and the bytes of an allocation.
Small(n) == arena[n].large_request = 0
Extent(p) == p..p + live[p] - 1

(***************************************************************************)
(* The memory that sys_malloc returns is the caller's own: it overlaps no  *)
(* other live allocation, no header, no free block (whose list_elem is     *)
(* inside it) and no page that is not mapped, however allocations of       *)
(* several sizes and frees alternate.                                      *)
(***************************************************************************)
LiveIsolated ==
    \A p \in DOMAIN live :
        /\ \A q \in DOMAIN live \ {p} : Extent(p) \cap Extent(q) = {}
        /\ \A b \in Extent(p) :
            /\ arena[b \div PageSize] # NoArena
            /\ arena[b \div PageSize] # Inner => b % PageSize >= HeaderSize
        /\ \A d \in desc : \A i \in DOMAIN free_list[d] :
            Extent(p) \cap free_list[d][i]..free_list[d][i] + block_size(d) - 1 = {}

(***************************************************************************)
(* The count in the header of an arena is the number of its blocks on the  *)
(* free list of its desc; each of them is there once, and none stays when  *)
(* the page is returned (the ASSERTs on elem_find in both functions).      *)
(***************************************************************************)
FreeListsOK ==
    /\ \A d \in desc :
        /\ IsInjective(free_list[d])
        /\ \A i \in DOMAIN free_list[d] :
            LET n == block2arena(free_list[d][i]) IN Small(n) /\ arena[n].desc = d
    /\ \A n \in 0..Pages - 1 : Small(n) =>
        /\ arena[n].cnt < memory_blocks_sum(arena[n].desc)
        /\ arena[n].cnt = Cardinality({i \in DOMAIN free_list[arena[n].desc] :
                                block2arena(free_list[arena[n].desc][i]) = n})

\* Nothing leaks: when all allocations have been freed, in whatever order, all
\* pages are back in the pool and all free lists are empty.
NothingLeaks == live = <<>> => ArenaInit
=============================================================================
