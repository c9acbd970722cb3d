--------------------------- MODULE CreationProofs ---------------------------
(***************************************************************************)
(* The kernel pool under its two locks, and AllocatePid, for any number of *)
(* threads, frames and locks, and for every bound on the pids.             *)
(***************************************************************************)
EXTENDS Creation, WellFoundedInduction, TLAPS

\* Where a thread holds the lock of the pool, and where it holds pid_lock.
InPool == {"scan", "set", "store", "clear", "erase", "unlock"}
InPid == {"pid_load", "pid_store", "pid_unlock"}
Place == {"idle", "pid_return"} \cup InPool \cup InPid

CreationTypeOK ==
    /\ owner \in [Lock -> Thread \cup {NULL}]
    /\ pc \in [Thread -> Place]
    /\ own \in [Thread -> SUBSET Frame]
    /\ bit_idx \in [Thread -> Frame \cup {NULL}]
    /\ \A t \in Thread : pc[t] \in {"set", "store", "clear", "erase"} => bit_idx[t] \in Frame
    /\ byte \in [Thread -> SUBSET Frame]
    /\ used \in SUBSET Frame
    /\ crossed \in BOOLEAN
    /\ next_pid \in Nat /\ latest \in Nat
    /\ register \in [Thread -> Nat]
    /\ before \in [Thread -> Nat]
    /\ pid \in [Thread -> Nat]


\* A thread that is inside an allocator has the lock that it took.
LocksHeld ==
    \A t \in Thread :
        /\ pc[t] \in InPool => owner[LockOf(t)] = t
        /\ pc[t] \in InPid => owner[PidLock] = t

(***************************************************************************)
(* Why AllocatePid returns a new pid though it reads next_pid again after  *)
(* the lock is given back: next_pid never falls, and is above everything   *)
(* returned before from the moment the call has stored it.                 *)
(***************************************************************************)
PidInv ==
    /\ latest <= next_pid
    /\ \A t \in Thread :
        /\ before[t] <= next_pid
        /\ pc[t] = "pid_store" => register[t] = next_pid
        /\ pc[t] \in {"pid_unlock", "pid_return"} => before[t] < next_pid
        /\ pc[t] \notin InPid \cup {"pid_return"} =>
              pid[t] = 0 \/ before[t] < pid[t]

CreationInv == CreationTypeOK /\ LocksHeld /\ PidInv

(***************************************************************************)
(* The bitmap of the pool is what the threads have been given, at every    *)
(* instant; what BitmapScan has found, and the byte that BitmapSetBit has  *)
(* read, are still true when it is written back.  This is so as long as no *)
(* kernel thread and process have written across each other: the lock that *)
(* a thread holds keeps the other threads of its kind out, and the rest is *)
(* what crossed records.                                                   *)
(***************************************************************************)
FrameInv ==
    /\ used = UNION {own[t] : t \in Thread}
    /\ \A t, u \in Thread : t # u => own[t] \cap own[u] = {}
    /\ \A t \in Thread :
        /\ pc[t] \in {"set", "store"} => bit_idx[t] \in Frame \ used
        /\ pc[t] \in {"clear", "erase"} => bit_idx[t] \in own[t]
        /\ pc[t] \in {"store", "erase"} => byte[t] = used

\* BitmapScan, told that a bit is clear, returns the number of a clear bit.
LEMMA ScanFinds ==
    ASSUME NEW S \in SUBSET Frame, S # Frame
    PROVE  Min(Frame \ S) \in Frame \ S
<1> DEFINE T == Frame \ S
<1>1. T \subseteq Nat /\ T # {}
    BY PoolRaceAssumption, Zenon
<1>2. PICK x \in T : \A y \in T : ~ (<<y, x>> \in OpToRel(<, Nat))
    <2>1. IsWellFoundedOn(OpToRel(<, Nat), Nat)
        BY NatLessThanWellFounded, Zenon
    <2> QED
        BY <1>1, <2>1, WFMin, Zenon
<1>3. ASSUME NEW y \in T
      PROVE  x <= y
    <2>1. ~ (<<y, x>> \in {ss \in Nat \X Nat : ss[1] < ss[2]})
        BY <1>2, Zenon DEF OpToRel
    <2> QED
        BY <1>1, <2>1
<1> QED
    BY <1>2, <1>3, Zenon DEF Min

-----------------------------------------------------------------------------
LEMMA CreationInitInv == CreationInit => CreationInv /\ FrameInv
<1> SUFFICES ASSUME CreationInit PROVE CreationInv /\ FrameInv
    OBVIOUS
<1> USE DEF CreationInit, RaceInit, AbstractInit
<1>1. CreationTypeOK
    BY Zenon DEF CreationTypeOK, Place
<1>2. LocksHeld
    BY Zenon DEF LocksHeld, InPool, InPid
<1>3. PidInv
    BY DEF PidInv
<1>4. FrameInv
    BY Zenon DEF FrameInv
<1> QED
    BY <1>1, <1>2, <1>3, <1>4, Zenon DEF CreationInv

\* What taking a lock, giving it back, and moving on change.
LEMMA StepFacts ==
    ASSUME CreationTypeOK, NEW t \in Thread
    PROVE  /\ \A l \in Lock : Acquire(t, l) =>
                \A m \in Lock : owner'[m] = IF m = l THEN t ELSE owner[m]
           /\ \A l \in Lock : Release(t, l) =>
                \A m \in Lock : owner'[m] = IF m = l THEN NULL ELSE owner[m]
           /\ \A label : Goto(t, label) =>
                \A u \in Thread : pc'[u] = IF u = t THEN label ELSE pc[u]
BY Zenon DEF CreationTypeOK, Acquire, Release, Goto

\* Every step of a thread in the pool keeps the types, and its lock while it
\* is inside.
LEMMA RaceNextInv == CreationInv /\ RaceNext /\ UNCHANGED pidVars => CreationInv'
<1> SUFFICES ASSUME CreationInv, RaceNext, UNCHANGED pidVars PROVE CreationInv'
    OBVIOUS
<1> USE DEF CreationInv, pidVars
<1>0. PICK t \in Thread :
        \/ sys_lock_lock(t) \/ BitmapScan(t) \/ BitmapLoad(t) \/ BitmapStore(t)
        \/ sys_lock_unlock(t) \/ GetOnePhysicPage(t)
        \/ \E f \in Frame : sys_free(t, f)
    BY Zenon DEF RaceNext
<1>1. /\ LockOf(t) \in Lock \ {PidLock}
      /\ \A u \in Thread : LockOf(u) \in Lock \ {PidLock}
    BY PoolRaceAssumption, CreationAssumption, Zenon DEF LockOf
<1>2. used # Frame => Min(Frame \ used) \in Frame
    BY ScanFinds, Zenon DEF CreationTypeOK
<1>3. CreationTypeOK'
    <2> USE DEF CreationTypeOK, Goto
    <2>1. CASE sys_lock_lock(t)
        BY <1>1, <2>1, Zenon DEF sys_lock_lock, Acquire, Place, InPool
    <2>2. CASE BitmapScan(t)
        BY <1>2, <2>2, Zenon DEF BitmapScan, Place, InPool
    <2>3. CASE BitmapLoad(t)
        BY <2>3, Zenon DEF BitmapLoad, Place, InPool
    <2>4. CASE BitmapStore(t)
        <3>1. own[t] \cup {bit_idx[t]} \in SUBSET Frame /\ own[t] \ {bit_idx[t]} \in SUBSET Frame
            BY <2>4, Zenon DEF BitmapStore
        <3>2. byte[t] \cup {bit_idx[t]} \in SUBSET Frame /\ byte[t] \ {bit_idx[t]} \in SUBSET Frame
            BY <2>4, Zenon DEF BitmapStore
        <3> QED
            BY <2>4, <3>1, <3>2, Zenon DEF BitmapStore, Place, InPool
    <2>5. CASE sys_lock_unlock(t)
        BY <1>1, <2>5, Zenon DEF sys_lock_unlock, Release, Place
    <2>6. CASE GetOnePhysicPage(t)
        BY <1>2, <2>6, Zenon DEF GetOnePhysicPage
    <2>7. CASE \E f \in Frame : sys_free(t, f)
        <3>1. PICK f \in Frame : sys_free(t, f)
            BY <2>7, Zenon
        <3> QED
            BY <1>1, <3>1, Zenon DEF sys_free, Acquire, Place, InPool
    <2> QED
        BY <1>0, <2>1, <2>2, <2>3, <2>4, <2>5, <2>6, <2>7, Zenon
<1>4. LocksHeld'
    <2> SUFFICES ASSUME NEW u \in Thread, NEW l \in Lock, l = LockOf(u)
                 PROVE  /\ pc'[u] \in InPool => owner'[l] = u
                        /\ pc'[u] \in InPid => owner'[PidLock] = u
        BY <1>1, Zenon DEF LocksHeld, LockOf
    <2>k. PICK k \in Lock : k = LockOf(t)
        BY <1>1, Zenon
    <2>a. PidLock \in Lock \ {k, l} /\ NULL \notin Thread
        BY <1>1, <2>k, PoolRaceAssumption, CreationAssumption, Zenon
    <2>b. /\ pc[u] \in InPool => owner[l] = u
          /\ pc[u] \in InPid => owner[PidLock] = u
          /\ pc[t] \in InPool => owner[k] = t
        BY <2>k, Zenon DEF LocksHeld
    <2>c. u = t => k = l
        BY <2>k, Zenon
    <2>1. CASE /\ pc[t] = "idle" /\ Acquire(t, k)
               /\ Goto(t, "scan") \/ Goto(t, "clear")
        <3>0. owner[k] = NULL
            BY <2>1, Zenon DEF Acquire
        <3>1. /\ owner'[l] = IF l = k THEN t ELSE owner[l]
              /\ owner'[PidLock] = owner[PidLock]
            BY <2>a, <2>1, StepFacts
        <3>2. pc'[u] = pc[u] \/ (u = t /\ pc'[u] \in {"scan", "clear"})
            BY <2>1, StepFacts
        <3> QED
            BY <2>a, <2>b, <2>c, <3>0, <3>1, <3>2, Zenon DEF InPool, InPid
    <2>2. CASE /\ UNCHANGED owner
               /\ pc'[u] = pc[u] \/ (u = t /\ pc[u] \in InPool /\ pc'[u] \notin InPid)
        BY <2>b, <2>2, Zenon
    <2>3. CASE Release(t, k) /\ Goto(t, "idle")
        <3>0. owner[k] = t
            BY <2>3, Zenon DEF Release
        <3>1. /\ owner'[l] = IF l = k THEN NULL ELSE owner[l]
              /\ owner'[PidLock] = owner[PidLock]
            BY <2>a, <2>3, StepFacts
        <3>2. pc'[u] = IF u = t THEN "idle" ELSE pc[u]
            BY <2>3, StepFacts
        <3> QED
            BY <2>a, <2>b, <2>c, <3>0, <3>1, <3>2, Zenon DEF InPool, InPid
    <2>4. CASE sys_lock_lock(t)
        BY <2>k, <2>1, <2>4, Zenon DEF sys_lock_lock
    <2>5. CASE BitmapScan(t) \/ BitmapLoad(t) \/ BitmapStore(t) \/ GetOnePhysicPage(t)
        <3>1. /\ UNCHANGED owner
              /\ \/ UNCHANGED pc
                 \/ pc[t] \in InPool /\ \E label \in InPool : Goto(t, label)
            BY <2>5, Zenon DEF BitmapScan, BitmapLoad, BitmapStore, GetOnePhysicPage, InPool
        <3>2. \A label \in InPool : label \notin InPid
            BY Zenon DEF InPool, InPid
        <3> QED
            BY <2>2, <3>1, <3>2, StepFacts
    <2>6. CASE sys_lock_unlock(t)
        BY <2>k, <2>3, <2>6, Zenon DEF sys_lock_unlock
    <2>7. CASE \E f \in Frame : sys_free(t, f)
        BY <2>k, <2>1, <2>7, Zenon DEF sys_free
    <2> QED
        BY <1>0, <2>4, <2>5, <2>6, <2>7, Zenon
<1>5. /\ \A u \in Thread : pc'[u] \notin InPid \cup {"pid_return"} <=>
                           pc[u] \notin InPid \cup {"pid_return"}
      /\ \A u \in Thread, l \in InPid \cup {"pid_return"} : pc'[u] = l => pc[u] = l
    BY <1>0, Zenon DEF CreationTypeOK, Goto, InPid, sys_lock_lock, BitmapScan, BitmapLoad,
                BitmapStore, sys_lock_unlock, GetOnePhysicPage, sys_free
<1>6. PidInv'
    BY <1>5, Zenon DEF PidInv, InPid
<1> QED
    BY <1>3, <1>4, <1>6, Zenon

\* Every step of AllocatePid keeps them too: only the thread with pid_lock
\* changes next_pid, and a pid is returned once next_pid has passed it.
LEMMA PidNextInv ==
    ASSUME NEW t \in Thread
    PROVE  /\ CreationInv
           /\ AllocatePid(t) \/ PidLoad(t) \/ PidStore(t) \/ PidUnlock(t) \/ PidReturn(t)
           => CreationInv'
<1>0. SUFFICES ASSUME CreationInv,
                      \/ AllocatePid(t) \/ PidLoad(t) \/ PidStore(t)
                      \/ PidUnlock(t) \/ PidReturn(t)
               PROVE  CreationInv'
    OBVIOUS
<1>1. CreationTypeOK /\ LocksHeld /\ PidInv /\ PidLock \in Lock
    BY <1>0, CreationAssumption, Zenon DEF CreationInv
<1>2. next_pid \in Nat /\ latest \in Nat /\ before \in [Thread -> Nat] /\ register[t] \in Nat
    BY <1>1, Zenon DEF CreationTypeOK
<1>3. CreationTypeOK'
    <2> USE <1>1, <1>2 DEF CreationTypeOK, Goto, Place, InPid
    <2>1. CASE AllocatePid(t)
        BY <2>1, Zenon DEF AllocatePid, Acquire, PidLockOf
    <2>2. CASE PidLoad(t)
        BY <2>2, Zenon DEF PidLoad
    <2>3. CASE PidStore(t)
        BY <2>3 DEF PidStore
    <2>4. CASE PidUnlock(t)
        BY <2>4, Zenon DEF PidUnlock, Release, PidLockOf, pidVars
    <2>5. CASE PidReturn(t)
        BY <2>5, Zenon DEF PidReturn
    <2> QED
        BY <1>0, <2>1, <2>2, <2>3, <2>4, <2>5, Zenon
<1>4. LocksHeld'
    <2> SUFFICES ASSUME NEW u \in Thread, NEW l \in Lock, l = LockOf(u)
                 PROVE  /\ pc'[u] \in InPool => owner'[l] = u
                        /\ pc'[u] \in InPid => owner'[PidLock] = u
        BY PoolRaceAssumption, Zenon DEF LocksHeld, LockOf
    <2>a. l # PidLock /\ NULL \notin Thread
        BY PoolRaceAssumption, CreationAssumption, Zenon DEF LockOf
    <2>b. /\ pc[u] \in InPool => owner[l] = u
          /\ pc[u] \in InPid => owner[PidLock] = u
        BY <1>1, Zenon DEF LocksHeld
    <2>1. CASE AllocatePid(t)
        <3>1. Acquire(t, PidLock) /\ Goto(t, "pid_load")
            BY <2>1, Zenon DEF AllocatePid, PidLockOf
        <3>2. owner[PidLock] = NULL
            BY <3>1, Zenon DEF Acquire
        <3>3. owner'[l] = owner[l] /\ owner'[PidLock] = t
            BY <1>1, <2>a, <3>1, StepFacts
        <3>4. pc'[u] = IF u = t THEN "pid_load" ELSE pc[u]
            BY <1>1, <3>1, StepFacts
        <3> QED
            BY <2>a, <2>b, <3>2, <3>3, <3>4, Zenon DEF InPool, InPid
    <2>2. CASE PidLoad(t) \/ PidStore(t) \/ PidReturn(t)
        <3>1. /\ UNCHANGED owner
              /\ \/ pc[t] \in InPid /\ \E label \in InPid : Goto(t, label)
                 \/ Goto(t, "idle")
            BY <2>2, Zenon DEF PidLoad, PidStore, PidReturn, InPid
        <3>2. \/ pc'[u] = pc[u] \/ (u = t /\ pc'[u] = "idle")
              \/ (u = t /\ pc[u] \in InPid /\ pc'[u] \in InPid)
            BY <1>1, <3>1, StepFacts
        <3> QED
            BY <2>b, <3>1, <3>2, Zenon DEF InPool, InPid
    <2>3. CASE PidUnlock(t)
        <3>1. Release(t, PidLock) /\ Goto(t, "pid_return")
            BY <2>3, Zenon DEF PidUnlock, PidLockOf
        <3>2. owner[PidLock] = t
            BY <3>1, Zenon DEF Release
        <3>3. owner'[l] = owner[l]
            BY <1>1, <2>a, <3>1, StepFacts
        <3>4. pc'[u] = IF u = t THEN "pid_return" ELSE pc[u]
            BY <1>1, <3>1, StepFacts
        <3> QED
            BY <2>a, <2>b, <3>2, <3>3, <3>4, Zenon DEF InPool, InPid
    <2> QED
        BY <1>0, <2>1, <2>2, <2>3, Zenon
<1>5. PidInv'
    <2>1. CASE AllocatePid(t)
        BY <1>1, <2>1, Zenon DEF CreationTypeOK, PidInv, AllocatePid, Goto, InPid
    <2>2. CASE PidLoad(t)
        BY <1>1, <2>2, Zenon DEF CreationTypeOK, PidInv, PidLoad, Goto, InPid
    <2>3. CASE PidStore(t)
        <3>1. next_pid' = next_pid + 1
            BY <1>1, <2>3, Zenon DEF PidInv, PidStore
        <3>2. UNCHANGED <<latest, before, pid>>
            BY <2>3, Zenon DEF PidStore
        <3>3. \A u \in Thread : u # t => pc[u] \notin InPid
            BY <1>1, <2>3, Zenon DEF LocksHeld, PidStore, InPid
        <3>4. \A u \in Thread : pc'[u] = IF u = t THEN "pid_unlock" ELSE pc[u]
            BY <1>1, <2>3, StepFacts, Zenon DEF PidStore
        <3>5. latest' <= next_pid' /\ \A u \in Thread : before'[u] < next_pid'
            BY <1>1, <1>2, <3>1, <3>2 DEF PidInv
        <3>6. \A u \in Thread : before'[u] <= next_pid'
            BY <1>2, <1>3, <3>5 DEF CreationTypeOK
        <3> QED
            BY <1>1, <3>2, <3>3, <3>4, <3>5, <3>6, Zenon DEF PidInv, InPid
    <2>4. CASE PidUnlock(t)
        BY <1>1, <2>4, Zenon DEF CreationTypeOK, PidInv, PidUnlock, Goto, InPid, pidVars
    <2>5. CASE PidReturn(t)
        <3>1. before[t] < next_pid
            BY <1>1, <2>5, Zenon DEF PidInv, PidReturn
        <3>2. latest' = (IF next_pid > latest THEN next_pid ELSE latest) /\ next_pid' = next_pid
            BY <2>5, Zenon DEF PidReturn
        <3>3. latest' <= next_pid'
            BY <1>1, <1>2, <3>2 DEF PidInv
        <3>4. /\ UNCHANGED <<before, register, next_pid>>
              /\ \A u \in Thread : /\ pc'[u] = IF u = t THEN "idle" ELSE pc[u]
                                   /\ pid'[u] = IF u = t THEN next_pid ELSE pid[u]
            BY <1>1, <2>5, Zenon DEF CreationTypeOK, PidReturn, Goto
        <3> QED
            BY <1>1, <3>1, <3>3, <3>4, Zenon DEF PidInv
    <2> QED
        BY <1>0, <2>1, <2>2, <2>3, <2>4, <2>5, Zenon
<1> QED
    BY <1>3, <1>4, <1>5, Zenon DEF CreationInv

LEMMA CreationNextInv == CreationInv /\ [CreationNext]_creationVars => CreationInv'
<1> SUFFICES ASSUME CreationInv, [CreationNext]_creationVars PROVE CreationInv'
    OBVIOUS
<1>1. CASE RaceNext /\ UNCHANGED pidVars
    BY <1>1, RaceNextInv, Zenon
<1>2. CASE \E t \in Thread : \/ AllocatePid(t) \/ PidLoad(t) \/ PidStore(t)
                             \/ PidUnlock(t) \/ PidReturn(t)
    BY <1>2, PidNextInv, Zenon
<1>3. CASE UNCHANGED creationVars
    BY <1>3, Zenon DEF CreationInv, CreationTypeOK, LocksHeld, PidInv, creationVars, raceVars, pidVars
<1> QED
    BY <1>1, <1>2, <1>3, Zenon DEF CreationNext

(***************************************************************************)
(* For any number of threads that allocate pids and frames at once, under  *)
(* one pool lock or under two: a call of AllocatePid returns a pid above   *)
(* all that had been returned when it took pid_lock, although it reads     *)
(* next_pid outside the lock (thread.c:44).                                *)
(***************************************************************************)
THEOREM PidsAreNew == CreationSpec => []PidsIncrease
<1>1. CreationInv => PidsIncrease
    BY Zenon DEF CreationInv, CreationTypeOK, PidInv, PidsIncrease, InPid
<1> QED
    BY <1>1, CreationInitInv, CreationNextInv, PTL DEF CreationSpec

-----------------------------------------------------------------------------
\* Where nothing crosses, what a thread has seen of the bitmap stays true until
\* it has written it back.
LEMMA FrameNextInv ==
    ASSUME CreationInv, ~ crossed => FrameInv, [CreationNext]_creationVars
    PROVE  ~ crossed' => FrameInv'
<1> SUFFICES ASSUME ~ crossed' PROVE FrameInv'
    OBVIOUS
<1>a. ~ crossed
    BY Zenon
    DEF CreationNext, RaceNext, sys_lock_lock, BitmapScan, BitmapLoad, BitmapStore,
        sys_lock_unlock, GetOnePhysicPage, sys_free, AllocatePid, PidLoad, PidStore, PidUnlock,
        PidReturn, creationVars, raceVars
<1>1. CreationTypeOK /\ FrameInv
    BY <1>a, Zenon DEF CreationInv
<1>b. \A t, u \in Thread : (u \in Process) = (t \in Process) => LockOf(t) = LockOf(u)
    BY PoolRaceAssumption, Zenon DEF LockOf
<1>2. \A t, u \in Thread :
         (u \in Process) = (t \in Process) /\ pc[t] \in InPool /\ pc[u] \in InPool => t = u
    BY <1>b, Zenon DEF CreationInv, LocksHeld
<1>3. \A t, u \in Thread :
         (u \in Process) = (t \in Process) /\ owner[LockOf(t)] = NULL => pc[u] \notin InPool
    BY <1>b, PoolRaceAssumption, Zenon DEF CreationInv, LocksHeld
<1>4. used # Frame => Min(Frame \ used) \in Frame \ used
    BY <1>1, ScanFinds, Zenon DEF CreationTypeOK
<1>5. ASSUME UNCHANGED <<used, bit_idx, byte, own>>,
             \A u \in Thread : pc'[u] \in InPool => pc'[u] = pc[u]
      PROVE  FrameInv'
    BY <1>1, <1>5 DEF FrameInv, InPool
<1>6. ASSUME NEW t \in Thread, sys_lock_lock(t) PROVE FrameInv'
    BY <1>1, <1>6 DEF sys_lock_lock, Goto, CreationTypeOK, FrameInv
<1>7. ASSUME NEW t \in Thread, BitmapScan(t) PROVE FrameInv'
    <2> DEFINE f == Min(Frame \ used)
    <2>1. /\ f \in Frame \ used /\ pc[t] = "scan" /\ UNCHANGED <<used, own, byte>>
          /\ \A u \in Thread : /\ pc'[u] = IF u = t THEN "set" ELSE pc[u]
                               /\ bit_idx'[u] = IF u = t THEN f ELSE bit_idx[u]
        BY <1>1, <1>4, <1>7, Zenon DEF BitmapScan, Goto, CreationTypeOK
    <2> HIDE DEF f
    <2> QED
        BY <1>1, <2>1 DEF FrameInv
<1>8. ASSUME NEW t \in Thread, BitmapLoad(t) PROVE FrameInv'
    BY <1>1, <1>8 DEF BitmapLoad, Goto, CreationTypeOK, FrameInv
<1>9. ASSUME NEW t \in Thread, BitmapStore(t) PROVE FrameInv'
    <2>1. /\ pc[t] \in {"store", "erase"} /\ byte[t] = used
          /\ bit_idx[t] \in Frame
          /\ pc[t] = "store" => bit_idx[t] \notin used
          /\ pc[t] = "erase" => bit_idx[t] \in own[t]
        BY <1>1, <1>9, Zenon DEF BitmapStore, CreationTypeOK, FrameInv
    <2>a. \A u \in Thread : u # t => pc[u] \notin {"set", "store", "erase"}
        <3>1. ~ Crosses(t)
            BY <1>9, Zenon DEF BitmapStore
        <3> QED
            BY <1>2, <2>1, <3>1, Zenon DEF Crosses, InPool
    <2>2. \A u \in Thread : /\ pc'[u] = IF u = t THEN "unlock" ELSE pc[u]
                            /\ pc'[u] \notin {"set", "store", "erase"}
                            /\ bit_idx'[u] = bit_idx[u]
        BY <1>1, <1>9, <2>a, Zenon DEF BitmapStore, Goto, CreationTypeOK
    <2>3. \A u \in Thread : own'[u] = IF u # t THEN own[u]
                                      ELSE IF pc[t] = "store" THEN own[t] \cup {bit_idx[t]}
                                      ELSE own[t] \ {bit_idx[t]}
        BY <1>1, <1>9, Zenon DEF BitmapStore, CreationTypeOK
    <2>4. used' = IF pc[t] = "store" THEN used \cup {bit_idx[t]} ELSE used \ {bit_idx[t]}
        BY <1>9, <2>1, Zenon DEF BitmapStore
    <2>5. used' = UNION {own'[u] : u \in Thread}
        BY <1>1, <2>1, <2>3, <2>4 DEF FrameInv
    <2>6. \A u, v \in Thread : u # v => own'[u] \cap own'[v] = {}
        BY <1>1, <2>1, <2>3 DEF FrameInv
    <2>7. \A u \in Thread : pc'[u] = "clear" => bit_idx'[u] \in own'[u]
        BY <1>1, <2>2, <2>3, Zenon DEF FrameInv
    <2> QED
        BY <2>2, <2>5, <2>6, <2>7, Zenon DEF FrameInv
<1>10. ASSUME NEW t \in Thread, sys_lock_unlock(t) PROVE FrameInv'
    BY <1>1, <1>10 DEF sys_lock_unlock, Goto, CreationTypeOK, FrameInv
<1>11. ASSUME NEW t \in Thread, NEW f \in Frame, sys_free(t, f) PROVE FrameInv'
    BY <1>1, <1>11 DEF sys_free, Goto, CreationTypeOK, FrameInv
<1>12. ASSUME NEW t \in Thread, GetOnePhysicPage(t) PROVE FrameInv'
    <2> DEFINE f == Min(Frame \ used)
    <2>1. f \in Frame \ used
        BY <1>4, <1>12, Zenon DEF GetOnePhysicPage
    <2>a. \A u \in Thread : pc[u] \notin {"set", "store", "erase"}
        <3>1. ~ Crosses(t) /\ owner[LockOf(t)] = NULL
            BY <1>12, Zenon DEF GetOnePhysicPage
        <3> QED
            BY <1>3, <3>1, Zenon DEF Crosses, InPool
    <2>2. /\ used' = used \cup {f} /\ UNCHANGED <<pc, bit_idx, byte>>
          /\ \A u \in Thread : own'[u] = IF u = t THEN own[t] \cup {f} ELSE own[u]
        BY <1>1, <1>12, Zenon DEF GetOnePhysicPage, CreationTypeOK
    <2> HIDE DEF f
    <2>3. used' = UNION {own'[u] : u \in Thread}
        BY <1>1, <2>2 DEF FrameInv
    <2>4. \A u, v \in Thread : u # v => own'[u] \cap own'[v] = {}
        BY <1>1, <2>1, <2>2 DEF FrameInv
    <2>5. \A u \in Thread : pc[u] = "clear" => bit_idx[u] \in own'[u]
        <3>1. \A u \in Thread : own[u] \subseteq own'[u]
            BY <2>2
        <3> QED
            BY <1>1, <3>1, Zenon DEF FrameInv
    <2> QED
        BY <2>a, <2>2, <2>3, <2>4, <2>5, Zenon DEF FrameInv
<1>13. ASSUME NEW t \in Thread,
              \/ AllocatePid(t) \/ PidLoad(t) \/ PidStore(t)
              \/ PidUnlock(t) \/ PidReturn(t)
       PROVE  FrameInv'
    <2>1. UNCHANGED <<used, bit_idx, byte, own>>
        BY <1>13, Zenon DEF AllocatePid, PidLoad, PidStore, PidUnlock, PidReturn
    <2>2. \A u \in Thread : pc'[u] \in InPool => pc'[u] = pc[u]
        BY <1>1, <1>13, Zenon DEF AllocatePid, PidLoad, PidStore, PidUnlock, PidReturn,
                           Goto, CreationTypeOK, InPool
    <2> QED
        BY <1>5, <2>1, <2>2, Zenon
<1>14. CASE UNCHANGED creationVars
    BY <1>5, <1>14, Zenon DEF creationVars, raceVars
<1> QED
    BY <1>6, <1>7, <1>8, <1>9, <1>10, <1>11, <1>12, <1>13, <1>14, Zenon
    DEF CreationNext, RaceNext

(***************************************************************************)
(* For any number of kernel threads, processes and frames: no frame is     *)
(* given twice and none is lost, though BitmapScan and BitmapSetBit are    *)
(* interrupted at will, and a process in a system call takes its frame in  *)
(* one go, unless a kernel thread and a process have written the bitmap    *)
(* across each other.  Their two locks do not rule that out (pool_mixed).  *)
(***************************************************************************)
THEOREM FramesGivenOnce == CreationSpec => []GivenOnceUnlessCrossed
<1>1. (~ crossed => FrameInv) => GivenOnceUnlessCrossed
    BY Zenon DEF FrameInv, GivenOnceUnlessCrossed, FrameGivenOnce
<1> QED
    BY <1>1, CreationInitInv, CreationNextInv, FrameNextInv, PTL DEF CreationSpec
=============================================================================
