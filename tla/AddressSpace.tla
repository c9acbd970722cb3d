---------------------------- MODULE AddressSpace ----------------------------
(***************************************************************************)
(* Page directories and page tables as they lie in memory: SetupPage of    *)
(* source/boot/loader.S, PageMapping and its relatives in                  *)
(* source/kernel/memory.c, CreatPDE and ActivePDE of                       *)
(* source/userprog/process.c.  The kernel reads and writes all of them     *)
(* through the last entry of the directory in cr3, which points to the     *)
(* directory itself.                                                       *)
(*                                                                         *)
(* A page is its number, a word the number of its page times Entries plus  *)
(* its place in it.  Each operation is one step, as in PageAlloc.          *)
(***************************************************************************)
EXTENDS Integers, FiniteSetsExt

CONSTANTS
    Entries,        \* of a directory and of a table: 1024
    KernelFirst,    \* the first entry of the kernel's part: 0x300
    LowPages,       \* pages of the low 1 MB: 256
    Window,         \* pages of 64 KB: 16
    Region,         \* pages of 16 MB: 4096
    HeapPages,      \* bits of kernel_vaddr
    UserStart,      \* the page of USER_VADDR_START
    UserPages,      \* bits of a process's vaddr_bitmap
    kernel_free_pages, user_free_pages,
    Process,
    NoFrame

Self == Entries - 1
Base == KernelFirst * Entries           \* the page of 0xC0000000
Image == Base..Base + LowPages - 1
Heap == Base + LowPages..Base + LowPages + HeapPages - 1
UserPage == UserStart..UserStart + UserPages - 1
StackPage == Max(UserPage)              \* of USER_STACK3_VADDR

\* PAGE_DIR_TABLE_POS, and behind it the tables of the kernel and the pools.
KernelDir == LowPages
KernelTable(d) == KernelDir + 1 + (d - KernelFirst)
KernelPool == LET used_mem == KernelTable(Self) IN used_mem..used_mem + kernel_free_pages - 1
UserPool == {Max(KernelPool) + i : i \in 1..user_free_pages}
TableFrame == KernelDir..Max(KernelPool)

ASSUME AddressSpaceAssumption ==
    /\ \A d \in {Entries, KernelFirst, LowPages, Window, HeapPages, kernel_free_pages} :
            d \in Nat \ {0}
    /\ Window < LowPages /\ LowPages < Entries /\ Base % Window = 0
    /\ Region \in Nat \ {0} /\ Region % Window = 0 /\ Base % Region = 0
    /\ LowPages + HeapPages <= (Self - KernelFirst) * Entries
    /\ UserStart >= Entries /\ UserStart + UserPages <= Base

VARIABLES
    entry,          \* the entries in each frame that may be a table
    kernel_vaddr,   \* the pages of the heap that are in use
    userprog_vaddr, \* the pages of each process that are in use
    kernel_memory_pool, user_memory_pool,   \* the frames that are free
    PDE_addr,       \* the page of each process's directory; 0 until it exists
    current,        \* the process that is running, or Kernel for a kernel thread
    cr3

spaceVars == <<entry, kernel_vaddr, userprog_vaddr, kernel_memory_pool,
               user_memory_pool, PDE_addr, current, cr3>>

Kernel == "kernel"
NoEntries == [i \in 0..Self |-> NoFrame]

-----------------------------------------------------------------------------
\* The frame behind page v, in memory m and directory dir.
Translate(m, dir, v) ==
    LET table == IF dir \in DOMAIN m THEN m[dir][v \div Entries] ELSE NoFrame
    IN  IF table \in DOMAIN m THEN m[table][v % Entries] ELSE NoFrame

Load(m, word) ==
    LET f == Translate(m, cr3, word \div Entries)
    IN  IF f \in DOMAIN m THEN m[f][word % Entries] ELSE NoFrame

Stored(m, word, f) ==
    LET at == Translate(m, cr3, word \div Entries)
    IN  [g \in DOMAIN m |-> IF g = at THEN [m[g] EXCEPT ![word % Entries] = f] ELSE m[g]]

\* memset of a whole page to 0.
Cleared(m, page) ==
    [g \in DOMAIN m |-> IF g = Translate(m, cr3, page) THEN NoEntries ELSE m[g]]

GetPTEPointer(v) == Self * Entries * Entries + v
GetPDEPointer(v) == (Self * Entries + Self) * Entries + (v \div Entries)

VirtualAddrToPhysicAddr(v) == Load(entry, GetPTEPointer(v))

\* Entries 0 and KernelFirst lead to the low memory; its heap is still empty.
SetupPage ==
    entry = [g \in TableFrame |->
        IF g = KernelDir
        THEN [i \in 0..Self |->
                IF i = Self THEN KernelDir
                ELSE IF i = 0 THEN KernelTable(KernelFirst)
                ELSE IF i >= KernelFirst THEN KernelTable(i) ELSE NoFrame]
        ELSE IF g = KernelTable(KernelFirst)
        THEN [i \in 0..Self |-> IF i < LowPages THEN i ELSE NoFrame]
        ELSE NoEntries]

SpaceInit ==
    /\ SetupPage
    /\ kernel_vaddr = {}
    /\ userprog_vaddr = [q \in Process |-> {}]
    /\ kernel_memory_pool = KernelPool
    /\ user_memory_pool = UserPool
    /\ PDE_addr = [q \in Process |-> 0]
    /\ current = Kernel
    /\ cr3 = KernelDir

-----------------------------------------------------------------------------
\* Mutant: the new table keeps what the frame held before.
PageMapping_Dirty(v, f, t) ==
    IF Load(entry, GetPDEPointer(v)) # NoFrame
    THEN Stored(entry, GetPTEPointer(v), f)
    ELSE Stored(Stored(entry, GetPDEPointer(v), t), GetPTEPointer(v), f)

\* The memory after PageMapping of page v to frame f; t is the frame that a
\* missing table gets.
PageMapping(v, f, t) ==
    IF Load(entry, GetPDEPointer(v)) # NoFrame
    THEN Stored(entry, GetPTEPointer(v), f)
    ELSE LET linked == Stored(entry, GetPDEPointer(v), t)
         IN  Stored(Cleared(linked, GetPTEPointer(v) \div Entries), GetPTEPointer(v), f)

\* A page that the kernel has used for data: what is in it afterwards, read
\* as entries.
Junk == [i \in 0..Self |-> 0]

\* kpalloc(1) in a kernel thread, whose caller then fills the page.  The
\* kernel stops when there is no page or no frame (PageAlloc).
kpalloc ==
    /\ current = Kernel
    /\ Heap \ kernel_vaddr # {} /\ kernel_memory_pool # {}
    /\ LET v == Min(Heap \ kernel_vaddr)
           f == Min(kernel_memory_pool)
       IN  /\ kernel_vaddr' = kernel_vaddr \cup {v}
           /\ kernel_memory_pool' = kernel_memory_pool \ {f}
           /\ entry' = [PageMapping(v, f, f) EXCEPT ![f] = Junk]
    /\ UNCHANGED <<userprog_vaddr, user_memory_pool, PDE_addr, current, cr3>>

\* Mutant: the new directory does not get the entry of the low memory.
Directory_NoLow(f) ==
    [i \in 0..Self |->
        IF i = Self THEN f
        ELSE IF i >= KernelFirst THEN Load(entry, (Self * Entries + Self) * Entries + i)
        ELSE NoFrame]

\* What CreatPDE fills frame f with: the kernel's part and entry 0 of the
\* directory in cr3, and f itself.
Directory(f) ==
    [i \in 0..Self |->
        IF i = Self THEN f
        ELSE IF i >= KernelFirst \/ i = 0
        THEN Load(entry, (Self * Entries + Self) * Entries + i)
        ELSE NoFrame]

\* CreatPDE, which ExecProcess calls in a kernel thread.
CreatPDE(q) ==
    /\ current = Kernel /\ PDE_addr[q] = 0
    /\ Heap \ kernel_vaddr # {} /\ kernel_memory_pool # {}
    /\ LET v == Min(Heap \ kernel_vaddr)
           f == Min(kernel_memory_pool)
       IN  /\ kernel_vaddr' = kernel_vaddr \cup {v}
           /\ kernel_memory_pool' = kernel_memory_pool \ {f}
           /\ entry' = [PageMapping(v, f, f) EXCEPT ![f] = Directory(f)]
           /\ PDE_addr' = [PDE_addr EXCEPT ![q] = v]
    /\ UNCHANGED <<userprog_vaddr, user_memory_pool, current, cr3>>

\* PageUnmapping: the whole entry becomes 0.
PageUnmapping(v) == Stored(entry, GetPTEPointer(v), NoFrame)

\* pfree of a page that kpalloc has returned.
kpfree(v) ==
    /\ current = Kernel
    /\ v \in kernel_vaddr /\ \A q \in Process : PDE_addr[q] # v
    /\ kernel_memory_pool' = kernel_memory_pool \cup {VirtualAddrToPhysicAddr(v)}
    /\ entry' = PageUnmapping(v)
    /\ kernel_vaddr' = kernel_vaddr \ {v}
    /\ UNCHANGED <<userprog_vaddr, user_memory_pool, PDE_addr, current, cr3>>

\* Process q maps its page v to a frame of the user pool; a table that is
\* missing gets one of the kernel pool.
MapPage(q, v) ==
    /\ current = q
    /\ user_memory_pool # {}
    /\ LET f == Min(user_memory_pool)
           tables == IF Load(entry, GetPDEPointer(v)) = NoFrame
                     THEN {Min(kernel_memory_pool)} ELSE {}
       IN  /\ entry' = PageMapping(v, f, Min(kernel_memory_pool))
           /\ userprog_vaddr' = [userprog_vaddr EXCEPT ![q] = @ \cup {v}]
           /\ user_memory_pool' = user_memory_pool \ {f}
           /\ kernel_memory_pool' = kernel_memory_pool \ tables
    /\ UNCHANGED <<kernel_vaddr, PDE_addr, current, cr3>>

\* VirtualAddrMapping of the page of the stack: what StartProcess does first.
VirtualAddrMapping(q) ==
    /\ StackPage \notin userprog_vaddr[q] /\ kernel_memory_pool # {}
    /\ MapPage(q, StackPage)

\* upalloc(1), by a process that has been started.
upalloc(q) ==
    /\ StackPage \in userprog_vaddr[q] /\ UserPage \ userprog_vaddr[q] # {}
    /\ LET v == Min(UserPage \ userprog_vaddr[q]) IN
       /\ Load(entry, GetPDEPointer(v)) = NoFrame => kernel_memory_pool # {}
       /\ MapPage(q, v)

\* pfree of a page of process q.
upfree(q, v) ==
    /\ current = q
    /\ v \in userprog_vaddr[q] \ {StackPage}
    /\ user_memory_pool' = user_memory_pool \cup {VirtualAddrToPhysicAddr(v)}
    /\ entry' = PageUnmapping(v)
    /\ userprog_vaddr' = [userprog_vaddr EXCEPT ![q] = @ \ {v}]
    /\ UNCHANGED <<kernel_vaddr, kernel_memory_pool, PDE_addr, current, cr3>>

\* A thread switch; the directory is found through the old one.
ActivePDE(next) ==
    /\ next # Kernel => PDE_addr[next] # 0
    /\ current' = next
    /\ cr3' = IF next = Kernel THEN KernelDir ELSE VirtualAddrToPhysicAddr(PDE_addr[next])
    /\ UNCHANGED <<entry, kernel_vaddr, userprog_vaddr, kernel_memory_pool,
                   user_memory_pool, PDE_addr>>

SpaceNext ==
    \/ kpalloc
    \/ \E v \in Heap : kpfree(v)
    \/ \E q \in Process :
        \/ CreatPDE(q) \/ VirtualAddrMapping(q) \/ upalloc(q)
        \/ \E v \in UserPage : upfree(q, v)
    \/ \E next \in Process \cup {Kernel} : ActivePDE(next)

SpaceSpec == SpaceInit /\ [][SpaceNext]_spaceVars

-----------------------------------------------------------------------------
\* The pages that the registers of the processor get, for a table in page v.
\* IdtInit and TssInit shift a 32-bit address and keep 16 bits of it;
\* SetUpGDTDesc leaves bits 16 to 23 out.
idt_operand(v) == v % Window
gdt_operand(v) == v % Window
SetUpGDTDesc(v) == Region * (v \div Region) + (v % Window)

\* The entry point of an interrupt handler is stored whole, in two words.
MakeIdtDesc(v) == Window * (v \div Window) + (v % Window)

-----------------------------------------------------------------------------
\* The directory of each address space, wherever cr3 points.
DirOf(s) == IF s = Kernel THEN KernelDir ELSE Translate(entry, KernelDir, PDE_addr[s])
Existing == {Kernel} \cup {q \in Process : PDE_addr[q] # 0}

BootMap == [v \in 0..LowPages - 1 \cup Image |-> v % Entries]
Mapped == DOMAIN BootMap \cup Heap \cup UserPage

A == INSTANCE Spaces WITH
        Boot <- BootMap,
        Frame <- KernelPool \cup UserPool,
        space <- [s \in Existing |->
                    LET dir == DirOf(s) IN
                    [v \in Mapped |-> Translate(entry, dir, v)]]

(***************************************************************************)
(* The page tables implement the address spaces of module Spaces: what the *)
(* kernel maps after a process was created reaches it as well, though its  *)
(* directory is a copy (process.c:48); what a process maps stays its own,  *)
(* though everything is written through the directory that happens to be   *)
(* in cr3 (memory.c:78-90); a new table is empty.                          *)
(***************************************************************************)
ImplementsSpaces == A!SpacesSpec

(***************************************************************************)
(* In every address space the processor finds what it looks up by itself,  *)
(* the IDT, the GDT, the TSS and the interrupt handlers, if they lie in    *)
(* the first 64 KB of the kernel.  Further up it would find the handlers   *)
(* only, for the bases of the IDT and of the TSS lose bits                 *)
(* (interrupt.c:195, tss.c:50).  The IDT and the GDT are found through     *)
(* entry 0 of the directory, which CreatPDE therefore must copy.           *)
(***************************************************************************)
DescriptorsReach ==
    \A s \in Existing, v \in Image :
        LET dir == DirOf(s)
            At(page) == Translate(entry, dir, page)
        IN
        /\ At(idt_operand(v)) = At(v) <=> v < Base + Window
        /\ At(SetUpGDTDesc(v)) = At(v) <=> v < Base + Window
        /\ At(gdt_operand(Base)) = At(Base)
        /\ At(MakeIdtDesc(v)) = v - Base
=============================================================================
