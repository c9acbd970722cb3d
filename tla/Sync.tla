-------------------------------- MODULE Sync --------------------------------
(***************************************************************************)
(* Semaphores and reentrant locks (source/thread/sync.c) on the scheduler  *)
(* of Thread.  The threads are the callers: each repeatedly takes one lock,*)
(* perhaps several times, and releases it as often, as console.c, memory.c *)
(* and AllocatePid do.  No caller holds two locks at once.                 *)
(***************************************************************************)
EXTENDS Thread

CONSTANTS
    Lock,       \* pid_lock, console_lock, the two pool locks, ...
    NULL,       \* no thread, no lock
    MaxRepeat   \* bound: how often a holder takes the lock it holds

ASSUME SyncAssumption ==
    /\ NULL \notin Thread
    /\ NULL \notin Lock
    /\ MaxRepeat \in Nat \ {0}

VARIABLES
    value,      \* semaphore.value
    waiting,    \* semaphore.waiting_thread_list, front first
    holder,     \* lock.holder
    repeat,     \* lock.holder_repeat_request_sum
    pc,         \* where each thread is in sys_lock_lock or sys_lock_unlock
    lk,         \* the lock that call is about
    frame       \* old_int_statu of a SemaphoreDown that sleeps

syncVars == <<value, waiting, holder, repeat, pc, lk, frame>>
vars == <<threadVars, syncVars>>

(***************************************************************************)
(* idle      outside                                                       *)
(* down      about to call SemaphoreDown       retry    asleep inside it   *)
(* acquired  about to set holder               counting about to set repeat*)
(* held      in the critical section                                       *)
(* clearing  about to clear holder             up       about to call      *)
(*                                                      SemaphoreUp        *)
(***************************************************************************)
Owning == {"acquired", "counting", "held", "clearing", "up"}
PC == {"idle", "down", "retry"} \cup Owning

\* t is past SemaphoreDown and not yet through SemaphoreUp.
Owns(t, l) == lk[t] = l /\ pc[t] \in Owning

\* The types of the lock fields and of each thread's place in sync.c; value of
\* a lock's semaphore is 0 or 1 (LockInit), never more.
SyncTypeOK ==
    /\ ThreadTypeOK
    /\ value \in [Lock -> 0..1]
    /\ waiting \in [Lock -> Seq(Thread)]
    /\ holder \in [Lock -> Thread \cup {NULL}]
    /\ repeat \in [Lock -> 0..MaxRepeat]
    /\ pc \in [Thread -> PC]
    /\ lk \in [Thread -> Lock \cup {NULL}]
    /\ frame \in [Thread -> IntStatus]

\* LockInit for every lock, with all threads started.
SyncInit ==
    /\ InitThreads(Len(Created))
    /\ value = [l \in Lock |-> 1]
    /\ waiting = [l \in Lock |-> <<>>]
    /\ holder = [l \in Lock |-> NULL]
    /\ repeat = [l \in Lock |-> 0]
    /\ pc = [t \in Thread |-> "idle"]
    /\ lk = [t \in Thread |-> NULL]
    /\ frame = [t \in Thread |-> "INT_ON"]

-----------------------------------------------------------------------------
\* The current thread goes on from a step of its program.
Goto(label) == pc' = [pc EXCEPT ![current] = label]

\* sys_lock_lock up to the test of holder.  It is an unlocked read, but only
\* the thread itself ever makes itself the holder.
sys_lock_lock(l) ==
    /\ kernel = "up"
    /\ \/ pc[current] = "idle"
       \/ pc[current] = "held" /\ l = lk[current] /\ repeat[l] < MaxRepeat
    /\ IF holder[l] # current
       THEN /\ Goto("down")
            /\ lk' = [lk EXCEPT ![current] = l]
            /\ UNCHANGED repeat
       ELSE /\ repeat' = [repeat EXCEPT ![l] = @ + 1]
            /\ UNCHANGED <<pc, lk>>
    /\ UNCHANGED <<threadVars, value, waiting, holder, frame>>

\* Mutant: the status is read again after each sleep.
OldInt_Reread == intr

\* The status SemaphoreDown found when it disabled interrupts.
OldInt == IF pc[current] = "retry" THEN frame[current] ELSE intr

\* Mutant: a thread that was woken takes the semaphore without testing it.
Sleeps_Once(l) == value[l] = 0 /\ pc[current] = "down"

\* while (psema->value == 0)
Sleeps(l) == value[l] = 0

\* One turn of the loop of SemaphoreDown, and what follows it.
SemaphoreDown(l) ==
    /\ kernel = "up"
    /\ pc[current] \in {"down", "retry"} /\ l = lk[current]
    /\ IF Sleeps(l)
       THEN IF current \in Range(waiting[l])
            THEN PanicSpin /\ UNCHANGED syncVars
            ELSE /\ waiting' = [waiting EXCEPT ![l] = Append(@, current)]
                 /\ frame' = [frame EXCEPT ![current] = OldInt]
                 /\ Goto("retry")
                 /\ BlockThread("TASK_BLOCKD", "INT_OFF")
                 /\ UNCHANGED <<value, holder, repeat, lk>>
       ELSE /\ value' = [value EXCEPT ![l] = (@ + 255) % 256]
            /\ intr' = OldInt
            /\ frame' = [frame EXCEPT ![current] = "INT_ON"]
            /\ Goto("acquired")
            /\ UNCHANGED <<kernel, current, resume, cr3, esp0, queueVars, startVars,
                           waiting, holder, repeat, lk>>

\* The rest of sys_lock_lock.
SetHolder(l) ==
    /\ kernel = "up"
    /\ pc[current] = "acquired" /\ l = lk[current]
    /\ holder' = [holder EXCEPT ![l] = current]
    /\ Goto("counting")
    /\ UNCHANGED <<threadVars, value, waiting, repeat, lk, frame>>

SetRepeat(l) ==
    /\ kernel = "up"
    /\ pc[current] = "counting" /\ l = lk[current]
    /\ IF repeat[l] # 0
       THEN PanicSpin /\ UNCHANGED syncVars
       ELSE /\ repeat' = [repeat EXCEPT ![l] = 1]
            /\ Goto("held")
            /\ UNCHANGED <<threadVars, value, waiting, holder, lk, frame>>

\* sys_lock_unlock up to the assignment of the counter.
sys_lock_unlock(l) ==
    /\ kernel = "up"
    /\ pc[current] = "held" /\ l = lk[current]
    /\ IF holder[l] # current \/ repeat[l] < 1
       THEN PanicSpin /\ UNCHANGED syncVars
       ELSE /\ repeat' = [repeat EXCEPT ![l] = @ - 1]
            /\ IF repeat[l] > 1 THEN UNCHANGED pc ELSE Goto("clearing")
            /\ UNCHANGED <<threadVars, value, waiting, holder, lk, frame>>

\* Mutant: the semaphore is raised while the holder is still recorded.
ClearHolder_Skipped(l) ==
    /\ kernel = "up"
    /\ pc[current] = "clearing" /\ l = lk[current]
    /\ Goto("up")
    /\ UNCHANGED <<threadVars, value, waiting, holder, repeat, lk, frame>>

ClearHolder(l) ==
    /\ kernel = "up"
    /\ pc[current] = "clearing" /\ l = lk[current]
    /\ holder' = [holder EXCEPT ![l] = NULL]
    /\ Goto("up")
    /\ UNCHANGED <<threadVars, value, waiting, repeat, lk, frame>>

\* Mutant: the first waiter is popped off its list and not unblocked.
WakeFirst_Lost(l) ==
    /\ waiting' = [waiting EXCEPT ![l] = IF @ = <<>> THEN @ ELSE Tail(@)]
    /\ UNCHANGED threadVars

\* Mutant: the first waiter is unblocked and left on the waiting list.
WakeFirst_NoPop(l) ==
    /\ IF waiting[l] = <<>> THEN UNCHANGED threadVars ELSE UnblockThread(Head(waiting[l]))
    /\ UNCHANGED waiting

\* if (!list_empty(...)) UnblockThread(list_pop(...))
WakeFirst(l) ==
    IF waiting[l] = <<>>
    THEN UNCHANGED <<threadVars, waiting>>
    ELSE /\ waiting' = [waiting EXCEPT ![l] = Tail(@)]
         /\ UnblockThread(Head(waiting[l]))

\* SemaphoreUp, which is atomic: it runs with interrupts off throughout.
SemaphoreUp(l) ==
    /\ kernel = "up"
    /\ pc[current] = "up" /\ l = lk[current]
    /\ WakeFirst(l)
    /\ value' = [value EXCEPT ![l] = (@ + 1) % 256]
    /\ Goto("idle")
    /\ lk' = [lk EXCEPT ![current] = NULL]
    /\ UNCHANGED <<holder, repeat, frame>>

\* Callers run with interrupts on, or off (KeyboardOutput, system calls).
CallerInt(stat) ==
    /\ pc[current] \in {"idle", "held"}
    /\ SetIntStatus(stat)
    /\ UNCHANGED syncVars

Tick == IntTimerHandler /\ UNCHANGED syncVars

LockStep(l) ==
    \/ SemaphoreDown(l)
    \/ SetHolder(l)
    \/ SetRepeat(l)
    \/ ClearHolder(l)
    \/ SemaphoreUp(l)

SyncNext ==
    \/ Tick
    \/ \E stat \in IntStatus : CallerInt(stat)
    \/ \E l \in Lock : \/ sys_lock_lock(l)
                       \/ sys_lock_unlock(l)
                       \/ LockStep(l)

SyncSpec == SyncInit /\ [][SyncNext]_vars

(***************************************************************************)
(* Fairness, besides that of Thread.  A thread that is scheduled again and *)
(* again gets on with the call it is in, and leaves its critical section,  *)
(* calling sys_lock_unlock as often as it takes (for MaxRepeat up to 2).   *)
(***************************************************************************)
SyncFairness ==
    /\ SF_vars(Tick)
    /\ SF_vars(CallerInt("INT_ON"))
    /\ \A t \in Thread :
        /\ SF_vars(current = t /\ \E l \in Lock :
                LockStep(l) \/ (repeat[l] = 1 /\ sys_lock_unlock(l)))
        /\ SF_vars(current = t /\ \E l \in Lock : repeat[l] > 1 /\ sys_lock_unlock(l))

SyncFairSpec == SyncSpec /\ SyncFairness

-----------------------------------------------------------------------------
\* The lock excludes: at most one thread is between SemaphoreDown and
\* SemaphoreUp of a lock.
Mutex ==
    \A l \in Lock, t, u \in Thread : Owns(t, l) /\ Owns(u, l) => t = u

(***************************************************************************)
(* The holder field tells the truth about the critical section: whoever is *)
(* in it finds itself there (so that a nested call counts instead of       *)
(* sleeping on itself), and nobody else does.                              *)
(***************************************************************************)
HolderOK ==
    \A l \in Lock, t \in Thread :
        /\ pc[t] = "held" /\ lk[t] = l => holder[l] = t /\ repeat[l] >= 1
        /\ holder[l] = t => Owns(t, l)

(***************************************************************************)
(* A thread is BLOCKD exactly while it is on the waiting list of the lock  *)
(* it asked for, and no thread is on two of the lists that share its       *)
(* general_tag.                                                            *)
(***************************************************************************)
WaitingListOK ==
    /\ \A l \in Lock : IsInjective(waiting[l])
    /\ \A l \in Lock, t \in Thread :
        t \in Range(waiting[l]) <=> status[t] = "TASK_BLOCKD" /\ lk[t] = l

(***************************************************************************)
(* No wakeup is lost: when the lock is free and threads sleep on it, some  *)
(* thread that was woken has yet to try for it (SemaphoreUp wakes only one,*)
(* and whoever gets there first may take the lock).                        *)
(***************************************************************************)
NoLostWakeup ==
    \A l \in Lock :
        value[l] > 0 /\ waiting[l] # <<>> =>
            \E t \in Thread : /\ lk[t] = l /\ pc[t] = "retry"
                              /\ status[t] # "TASK_BLOCKD"

(***************************************************************************)
(* A thread that sleeps on a lock is eventually woken, if holders leave    *)
(* their critical sections: the waiting list is served from the front.     *)
(* (It need not get the lock: a running thread may take it first.)         *)
(***************************************************************************)
WaiterWoken ==
    \A t \in Thread : (status[t] = "TASK_BLOCKD") ~> (status[t] = "TASK_READY")

\* The interrupt status of a thread's own code: the flag while it runs, else
\* what it will find restored once it is back from the calls it is in.
IntOf(x) ==
    IF pc[x] = "retry" THEN frame[x]
    ELSE IF x = current THEN intr
    ELSE resume[x]

(***************************************************************************)
(* sys_lock_lock and sys_lock_unlock give a thread its interrupt status    *)
(* back, however long it slept and whatever other threads did to the flag: *)
(* a thread's status changes only when it calls EnableInt or DisableInt.   *)
(***************************************************************************)
IntStatusKept ==
    [][\A x \in Thread :
        IntOf(x)' # IntOf(x) => current = x /\ pc[x] \in {"idle", "held"}]_vars

\* The refinement mapping: the owner is the thread past SemaphoreDown, and a
\* lock that is owned counts once while the counter is being set or reset.
OwnerOf(l) ==
    IF \E x \in Thread : Owns(x, l) THEN CHOOSE x \in Thread : Owns(x, l) ELSE NULL

DepthOf(l) ==
    IF OwnerOf(l) = NULL THEN 0 ELSE IF repeat[l] = 0 THEN 1 ELSE repeat[l]

Abstract == INSTANCE AbstractLock WITH
    owner <- [l \in Lock |-> OwnerOf(l)],
    depth <- [l \in Lock |-> DepthOf(l)]

\* The locks of sync.c implement reentrant mutual exclusion locks.
ImplementsLock == Abstract!AbstractSpec
=============================================================================
