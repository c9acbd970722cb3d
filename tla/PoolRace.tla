------------------------------ MODULE PoolRace ------------------------------
(***************************************************************************)
(* Who may take a frame out of the kernel pool at the same time            *)
(* (source/kernel/memory.c).  palloc in a kernel thread does so under the  *)
(* lock of the kernel pool; PageMapping does so for a process that needs a *)
(* page table, under the lock of the user pool.  The locks are the ones    *)
(* that sync.c promises (AbstractLock, which Sync implements).             *)
(*                                                                         *)
(* A kernel thread, and a process that StartProcess is setting up, run     *)
(* with interrupts on and may be preempted between any two accesses to the *)
(* bitmap.  A process in a system call has interrupts off.                 *)
(***************************************************************************)
EXTENDS AbstractLock, FiniteSetsExt

CONSTANTS
    KernelThread,   \* the threads that call kpalloc, sys_malloc and sys_free
    Process,
    Frame,          \* the frames of the kernel pool
    KernelLock,     \* kernel_memory_pool.lock
    UserLock        \* user_memory_pool.lock

ASSUME PoolRaceAssumption ==
    /\ KernelThread \cap Process = {}
    /\ Thread = KernelThread \cup Process
    /\ NULL \notin Thread
    /\ {KernelLock, UserLock} \subseteq Lock /\ KernelLock # UserLock
    /\ Frame \subseteq Nat

VARIABLES
    used,       \* the frames whose bit is set
    pc,         \* where a thread is in GetOnePhysicPage or ReturnOnePhysicPage
    bit_idx,    \* what BitmapScan returned to it, or what it gives back
    byte,       \* what BitmapSetBit has read of the bitmap
    own,        \* the frames each thread has been given
    crossed     \* whether a kernel thread and a process have written the bitmap
                \* across each other (Crosses)

raceVars == <<owner, depth, used, pc, bit_idx, byte, own, crossed>>

RaceInit ==
    /\ AbstractInit
    /\ used = {}
    /\ pc = [t \in Thread |-> "idle"]
    /\ bit_idx = [t \in Thread |-> NULL]
    /\ byte = [t \in Thread |-> {}]
    /\ own = [t \in Thread |-> {}]
    /\ crossed = FALSE

-----------------------------------------------------------------------------
\* Mutant: one of the kernel threads takes the lock of the other pool.
LockOf_Mixed(t) ==
    IF t \in KernelThread /\ t # CHOOSE u \in KernelThread : TRUE
    THEN KernelLock ELSE UserLock

\* The lock that t holds when it takes a frame out of the kernel pool.
LockOf(t) == IF t \in KernelThread THEN KernelLock ELSE UserLock

\* A thread under the other lock has read of the bitmap what t is about to change,
\* and has yet to write it back.
Crosses(t) ==
    \E u \in Thread : /\ (u \in Process) # (t \in Process)
                      /\ pc[u] \in {"set", "store", "erase"}

Goto(t, label) == pc' = [pc EXCEPT ![t] = label]

\* kpalloc and VirtualAddrMapping, up to GetOnePhysicPage(&kernel_memory_pool).
\* A process gets here once, from StartProcess, for the table of its stack.
sys_lock_lock(t) ==
    /\ pc[t] = "idle"
    /\ t \in Process => own[t] = {}
    /\ Acquire(t, LockOf(t))
    /\ Goto(t, "scan")
    /\ UNCHANGED <<used, bit_idx, byte, own, crossed>>

\* GetOnePhysicPage.  (When no frame is left, the kernel stops.)
BitmapScan(t) ==
    /\ pc[t] = "scan"
    /\ used # Frame
    /\ bit_idx' = [bit_idx EXCEPT ![t] = Min(Frame \ used)]
    /\ Goto(t, "set")
    /\ UNCHANGED <<owner, depth, used, byte, own, crossed>>

\* BitmapSetBit reads the byte and writes it back.
BitmapLoad(t) ==
    /\ pc[t] \in {"set", "clear"}
    /\ byte' = [byte EXCEPT ![t] = used]
    /\ Goto(t, IF pc[t] = "set" THEN "store" ELSE "erase")
    /\ UNCHANGED <<owner, depth, used, bit_idx, own, crossed>>

BitmapStore(t) ==
    /\ \/ /\ pc[t] = "store"
          /\ used' = byte[t] \cup {bit_idx[t]}
          /\ own' = [own EXCEPT ![t] = @ \cup {bit_idx[t]}]
       \/ /\ pc[t] = "erase"
          /\ used' = byte[t] \ {bit_idx[t]}
          /\ own' = [own EXCEPT ![t] = @ \ {bit_idx[t]}]
    /\ crossed' = (crossed \/ Crosses(t))
    /\ Goto(t, "unlock")
    /\ UNCHANGED <<owner, depth, bit_idx, byte>>

sys_lock_unlock(t) ==
    /\ pc[t] = "unlock"
    /\ Release(t, LockOf(t))
    /\ Goto(t, "idle")
    /\ bit_idx' = [bit_idx EXCEPT ![t] = NULL]
    /\ byte' = [byte EXCEPT ![t] = {}]
    /\ UNCHANGED <<used, own, crossed>>

\* sys_free in a kernel thread, up to ReturnOnePhysicPage.
sys_free(t, f) ==
    /\ pc[t] = "idle" /\ t \in KernelThread /\ f \in own[t]
    /\ Acquire(t, LockOf(t))
    /\ bit_idx' = [bit_idx EXCEPT ![t] = f]
    /\ Goto(t, "clear")
    /\ UNCHANGED <<used, byte, own, crossed>>

\* A process that runs has interrupts off in its system calls: when sys_malloc
\* maps pages whose page table is missing, the frame is taken in one go.
GetOnePhysicPage(t) ==
    /\ pc[t] = "idle"
    /\ t \in Process /\ own[t] # {}
    /\ owner[LockOf(t)] = NULL
    /\ used # Frame
    /\ used' = used \cup {Min(Frame \ used)}
    /\ own' = [own EXCEPT ![t] = @ \cup {Min(Frame \ used)}]
    /\ crossed' = (crossed \/ Crosses(t))
    /\ UNCHANGED <<owner, depth, pc, bit_idx, byte>>

RaceNext ==
    \E t \in Thread :
        \/ sys_lock_lock(t) \/ BitmapScan(t) \/ BitmapLoad(t) \/ BitmapStore(t)
        \/ sys_lock_unlock(t) \/ GetOnePhysicPage(t)
        \/ \E f \in Frame : sys_free(t, f)

RaceSpec == RaceInit /\ [][RaceNext]_raceVars

-----------------------------------------------------------------------------
(***************************************************************************)
(* No frame is given to two threads, and the bit of every frame that a     *)
(* thread has is set ("1: this physic page had been mapped"); and no frame *)
(* is lost: when no thread is in the allocator, a bit that is set belongs  *)
(* to a thread.  It takes a lock that all who take frames share to make    *)
(* this true, for BitmapSetBit reads a byte and writes it back.            *)
(***************************************************************************)
FrameGivenOnce ==
    /\ \A t, u \in Thread : t # u => own[t] \cap own[u] = {}
    /\ UNION {own[t] : t \in Thread} \subseteq used
    /\ (\A t \in Thread : pc[t] = "idle") => used = UNION {own[t] : t \in Thread}

(***************************************************************************)
(* What the two locks of memory.c do see to: frames are given once, and    *)
(* none is lost, however the kernel threads interrupt each other and the   *)
(* processes each other, and even where the two kinds take turns.  It      *)
(* takes a kernel thread and a process that write the bitmap across each   *)
(* other to break it.                                                      *)
(***************************************************************************)
GivenOnceUnlessCrossed == ~ crossed => FrameGivenOnce
=============================================================================
