----------------------------- MODULE PageAlloc -----------------------------
(***************************************************************************)
(* The page allocator of source/kernel/memory.c: two pools of page frames, *)
(* the address space of the kernel and those of the processes, and the     *)
(* page tables that join them.  Each operation runs under the lock of its  *)
(* pool and is one step here; module PoolRace is about what those locks do *)
(* not cover.                                                              *)
(*                                                                         *)
(* Page frames are numbered from the end of used_mem: those of the kernel  *)
(* pool first, then those of the user pool.  The three bitmaps of the      *)
(* kernel lie one behind the other from MEM_BITMAP_BASE on.                *)
(***************************************************************************)
EXTENDS Bitmap

CONSTANTS
    kernel_free_pages,  \* as VmemPoolInit computes them from the memory size
    user_free_pages,
    UserBytes,          \* bytes of a process's vaddr_bitmap
    TablePages,         \* pages that one page table maps (1024)
    PallocLimit,        \* the number of pages that palloc refuses (3840)
    Process,
    Tracked,            \* bound: the kernel pages whose TLB entry is tracked
    NoFrame             \* a page table entry without PAGE_P_1

kernel_bitmap_length == kernel_free_pages \div ByteBits

user_bitmap_length == user_free_pages \div ByteBits

KernelPool == 0
UserPool == kernel_bitmap_length * ByteBits
KernelVaddr == (kernel_bitmap_length + user_bitmap_length) * ByteBits
AreaEnd == KernelVaddr + kernel_bitmap_length * ByteBits

\* The pages of the kernel's heap, and the one behind it that BitmapScan may
\* add to the last ones.
KernelPage == 0..kernel_bitmap_length * ByteBits
UserPage == 0..UserBytes * ByteBits - 1
StackPage == UserBytes * ByteBits - 1       \* of USER_STACK3_VADDR
Table == 0..StackPage \div TablePages

Kernel == "kernel"

ASSUME PageAllocAssumption ==
    /\ kernel_free_pages \in Nat \ {0}
    /\ user_free_pages \in Nat \ {0}
    /\ UserBytes \in Nat \ {0}
    /\ TablePages \in Nat \ {0}
    /\ PallocLimit \in Nat
    /\ Tracked \subseteq KernelPage
    /\ Kernel \notin Process
    /\ NoFrame \notin Nat

VARIABLES
    kernel,     \* "up", or the ASSERT that has failed: "limit" (palloc), "out"
                \* (BitmapScan), "remap" (PageMapping) or "side" (pfree)
    area,       \* the bitmaps of the two pools and of the kernel's addresses
    pte,        \* the frame behind each page of the kernel's heap
    uarea,      \* the vaddr_bitmap of each process
    upte,       \* the frame behind each page of a process
    utable,     \* the frame of each page table of a process
    taken,      \* the allocations that are in use: <<owner, first page, count>>
    current,    \* the process that is running, or Kernel for a kernel thread
    tlb         \* the frame that the processor has cached for a tracked page

pageVars == <<kernel, area, pte, uarea, upte, utable, taken, current, tlb>>

\* VmemPoolInit, and CreatUserVaddrBitmap for every process.
VmemPoolInit ==
    /\ kernel = "up"
    /\ area = [i \in 0..AreaEnd |-> 0]
    /\ pte = [v \in KernelPage |-> NoFrame]
    /\ uarea = [q \in Process |-> [i \in 0..StackPage + 1 |-> 0]]
    /\ upte = [q \in Process |-> [v \in UserPage |-> NoFrame]]
    /\ utable = [q \in Process |-> [d \in Table |-> NoFrame]]
    /\ taken = {}
    /\ current = Kernel
    /\ tlb = [v \in Tracked |-> NoFrame]

-----------------------------------------------------------------------------
PanicSpin(why) == kernel' = why /\ UNCHANGED <<area, pte, uarea, upte, utable, taken, current, tlb>>

\* n calls of GetOnePhysicPage: the bits they return, in order.  Each call
\* finds the lowest clear bit (Bitmap), so that the j-th finds the one with
\* j - 1 clear bits below it, and fails its ASSERT if there is none.
Free(pool, len) == {i \in 0..len * ByteBits - 1 : area[pool + i] = 0}
Lowest(set, n) ==
    [j \in 1..n |-> CHOOSE i \in set : Cardinality({k \in set : k < i}) = j - 1]

\* The range of bits that GetVirtualPage and ReturnVirtualPage write.
SetRange(m, base, first, n, value) ==
    [i \in DOMAIN m |-> IF i \in base + first..base + first + n - 1 THEN value ELSE m[i]]

\* palloc(KERNEL_POOL, n), called by kpalloc and sys_malloc, which asks for at
\* most as many pages as the pool has.  The page tables of the kernel are all
\* there from the start.
kpalloc(n) ==
    /\ kernel = "up" /\ current = Kernel
    /\ LET v == BitmapScan(area, KernelVaddr, kernel_bitmap_length, n)
           free == Free(KernelPool, kernel_bitmap_length)
           got == Lowest(free, n)
       IN  IF n >= PallocLimit THEN PanicSpin("limit")
           ELSE IF ScanAsserts(area, KernelVaddr, kernel_bitmap_length)
           THEN PanicSpin("out")
           ELSE /\ v # -1
                /\ IF Cardinality(free) < n THEN PanicSpin("out")
                   ELSE IF \E i \in v..v + n - 1 : pte[i] # NoFrame
                   THEN PanicSpin("remap")
                   ELSE /\ area' = [i \in 0..AreaEnd |->
                                IF \/ i \in KernelVaddr + v..KernelVaddr + v + n - 1
                                   \/ i \in {KernelPool + got[j] : j \in 1..n}
                                THEN 1 ELSE area[i]]
                        /\ pte' = [i \in KernelPage |->
                                IF i \in v..v + n - 1 THEN got[i - v + 1] ELSE pte[i]]
                        /\ taken' = taken \cup {<<Kernel, v, n>>}
                        /\ UNCHANGED <<kernel, uarea, upte, utable, current, tlb>>

\* PageMapping for a process: pages v to v + n - 1 get the frames got, and a
\* page table that is missing gets a frame of the kernel pool.
PageMapping(q, v, n, got) ==
    LET missing == {d \in {i \div TablePages : i \in v..v + n - 1} : utable[q][d] = NoFrame}
        free == Free(KernelPool, kernel_bitmap_length)
        tables == Lowest(free, Cardinality(missing))
    IN  IF Cardinality(free) < Cardinality(missing) THEN PanicSpin("out")
        ELSE IF \E i \in v..v + n - 1 : upte[q][i] # NoFrame
        THEN PanicSpin("remap")
        ELSE /\ area' = [i \in 0..AreaEnd |->
                    IF \/ i \in {KernelPool + tables[j] : j \in 1..Cardinality(missing)}
                       \/ i \in {UserPool + got[j] : j \in 1..n}
                    THEN 1 ELSE area[i]]
             /\ utable' = [utable EXCEPT ![q] = [d \in Table |->
                    IF d \in missing
                    THEN tables[Cardinality({e \in missing : e <= d})]
                    ELSE utable[q][d]]]
             /\ upte' = [upte EXCEPT ![q] = [i \in UserPage |->
                    IF i \in v..v + n - 1
                    THEN kernel_free_pages + got[i - v + 1] ELSE upte[q][i]]]
             /\ uarea' = [uarea EXCEPT ![q] = SetRange(@, 0, v, n, 1)]
             /\ taken' = taken \cup {<<q, v, n>>}
             /\ UNCHANGED <<kernel, pte, current, tlb>>

\* palloc(USER_POOL, n), called by upalloc and by sys_malloc in a process that
\* has been started.
upalloc(q, n) ==
    /\ kernel = "up" /\ current = q
    /\ uarea[q][StackPage] = 1
    /\ LET v == BitmapScan(uarea[q], 0, UserBytes, n)
           free == Free(UserPool, user_bitmap_length)
       IN  IF n >= PallocLimit THEN PanicSpin("limit")
           ELSE IF ScanAsserts(uarea[q], 0, UserBytes)
           THEN PanicSpin("out")
           ELSE /\ v # -1
                /\ IF Cardinality(free) < n THEN PanicSpin("out")
                   ELSE PageMapping(q, v, n, Lowest(free, n))

\* VirtualAddrMapping(USER_POOL, USER_STACK3_VADDR), which StartProcess calls
\* once, before the process allocates anything.
VirtualAddrMapping(q) ==
    /\ kernel = "up" /\ current = q
    /\ uarea[q][StackPage] = 0
    /\ LET free == Free(UserPool, user_bitmap_length) IN
       IF free = {} THEN PanicSpin("out")
       ELSE PageMapping(q, StackPage, 1, Lowest(free, 1))

-----------------------------------------------------------------------------
\* Mutant: the bit of a page of the user pool is looked up in the kernel's.
ReturnOnePhysicPage_Kernel(f) == KernelPool + f

\* The bit that ReturnOnePhysicPage clears.  The first page of the user pool
\* fails the comparison and is counted on from the start of the kernel pool,
\* which is wrong unless kernel_free_pages is a multiple of 8.
ReturnOnePhysicPage(f) ==
    IF f > kernel_free_pages THEN UserPool + (f - kernel_free_pages) ELSE KernelPool + f

\* Mutant: the page table entry stays present.
PageUnmapping_Kept(table, v, n) == table

\* PageUnmapping of pages v to v + n - 1.  Its invlpg names the local variable
\* v_addr, so that the TLB entry of the stack goes, not that of the page.
PageUnmapping(table, v, n) ==
    [i \in DOMAIN table |-> IF i \in v..v + n - 1 THEN NoFrame ELSE table[i]]

\* pfree, called by sys_free (and by nobody for other than whole allocations).
\* All frames must be on the side of the border where the first one is.
SameSide(frames, first) ==
    \A f \in frames : (f >= kernel_free_pages) = (first >= kernel_free_pages)

pfree(a) ==
    LET q == a[1]
        v == a[2]
        n == a[3]
        table == IF q = Kernel THEN pte ELSE upte[q]
        frames == {table[i] : i \in v..v + n - 1}
        bits == {ReturnOnePhysicPage(f) : f \in frames}
        cleared == [i \in 0..AreaEnd |-> IF i \in bits THEN 0 ELSE area[i]]
    IN  /\ kernel = "up" /\ current = q
        /\ IF ~ SameSide(frames, table[v])
           THEN PanicSpin("side")
           ELSE /\ taken' = taken \ {a}
                /\ IF q = Kernel
                   THEN /\ area' = SetRange(cleared, KernelVaddr, v, n, 0)
                        /\ pte' = PageUnmapping(pte, v, n)
                        /\ UNCHANGED <<uarea, upte>>
                   ELSE /\ area' = cleared
                        /\ upte' = [upte EXCEPT ![q] = PageUnmapping(@, v, n)]
                        /\ uarea' = [uarea EXCEPT ![q] = SetRange(@, 0, v, n, 0)]
                        /\ UNCHANGED pte
                /\ UNCHANGED <<kernel, utable, current, tlb>>

\* The processor caches the translation of a page that is accessed.
Access(v) ==
    /\ kernel = "up" /\ current = Kernel
    /\ tlb[v] = NoFrame
    /\ tlb' = [tlb EXCEPT ![v] = pte[v]]
    /\ UNCHANGED <<kernel, area, pte, uarea, upte, utable, taken, current>>

\* A thread switch: ActivePDE loads cr3, which empties the TLB.
ActivePDE(next) ==
    /\ kernel = "up"
    /\ current' = next
    /\ tlb' = [v \in Tracked |-> NoFrame]
    /\ UNCHANGED <<kernel, area, pte, uarea, upte, utable, taken>>

PageNext ==
    \/ \E n \in 1..kernel_free_pages : kpalloc(n)
    \/ \E q \in Process : VirtualAddrMapping(q)
    \/ \E q \in Process, n \in 1..user_free_pages : upalloc(q, n)
    \/ \E a \in taken : (a[1] # Kernel => a[2] # StackPage) /\ pfree(a)
    \/ \E v \in Tracked : Access(v)
    \/ \E next \in Process \cup {Kernel} : ActivePDE(next)

PageSpec == VmemPoolInit /\ [][PageNext]_pageVars

-----------------------------------------------------------------------------
(***************************************************************************)
(* Every page frame is behind at most one page of one address space, or is *)
(* one page table: no frame is handed out while somebody has it.           *)
(***************************************************************************)
FramesOwnedOnce ==
    LET Uses == ({Kernel} \X {"page"} \X KernelPage)
                  \cup (Process \X {"page"} \X UserPage)
                  \cup (Process \X {"table"} \X Table)
        At(u) == IF u[2] = "table" THEN utable[u[1]][u[3]]
                 ELSE IF u[1] = Kernel THEN pte[u[3]] ELSE upte[u[1]][u[3]]
    IN  \A u, w \in Uses : At(u) = At(w) /\ At(u) # NoFrame => u = w

(***************************************************************************)
(* The bitmaps tell the truth: the bit of a frame is set if and only if    *)
(* the frame is in use, the bit of an address if and only if the page is   *)
(* mapped.  Nothing that was freed is lost to the pools.                   *)
(***************************************************************************)
BitmapsTrue ==
    LET Used(f) == \/ \E v \in KernelPage : pte[v] = f
                   \/ \E q \in Process : \/ \E v \in UserPage : upte[q][v] = f
                                        \/ \E d \in Table : utable[q][d] = f
    IN  /\ \A f \in 0..UserPool - 1 : area[KernelPool + f] = 1 <=> Used(f)
        /\ \A i \in 0..user_bitmap_length * ByteBits - 1 :
                area[UserPool + i] = 1 <=> Used(kernel_free_pages + i)
        /\ \A v \in KernelPage : area[KernelVaddr + v] = 1 <=> pte[v] # NoFrame
        /\ \A q \in Process, v \in UserPage : uarea[q][v] = 1 <=> upte[q][v] # NoFrame

(***************************************************************************)
(* PageMapping never meets a page that is mapped already, and pfree never  *)
(* a frame of the other pool.  The ASSERTs that may fail are that of       *)
(* BitmapScan, when a pool or an address space has nothing left, and that  *)
(* of palloc on the number of pages (memory.c:244), where a pool has as    *)
(* many: sys_malloc lets every size below pool_size through.  With the     *)
(* 32 MB of the bochs configuration each pool has exactly 3840 pages, so   *)
(* that a malloc of all but the last bytes of a pool panics there.         *)
(***************************************************************************)
PanicsOnlyWhenOut ==
    \/ kernel \in {"up", "out"}
    \/ /\ kernel = "limit"
       /\ PallocLimit <= kernel_free_pages \/ PallocLimit <= user_free_pages

(***************************************************************************)
(* BitmapScan finds the first place for any number of pages in the bitmap  *)
(* of the kernel's addresses and in those of the processes, however they   *)
(* are fragmented.  The one exception: it tests the bit behind a bitmap,   *)
(* and may return a place that reaches one page too far, where nothing     *)
(* fits inside.  (The other properties show what comes of that: nothing.)  *)
(***************************************************************************)
ScanIsFirstFit ==
    /\ ScanFits(area, KernelVaddr, kernel_bitmap_length)
    /\ \A q \in Process : ScanFits(uarea[q], 0, UserBytes)

(***************************************************************************)
(* "refresh the tlb (cache of paging)" (memory.c:161): where a page is     *)
(* mapped, the processor does not use the frame of an earlier mapping.     *)
(***************************************************************************)
TlbFresh == \A v \in Tracked : pte[v] # NoFrame => tlb[v] \in {NoFrame, pte[v]}
=============================================================================
