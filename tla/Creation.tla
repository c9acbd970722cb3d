------------------------------ MODULE Creation ------------------------------
(***************************************************************************)
(* Threads that create threads (source/thread/thread.c): kpalloc for the   *)
(* PCB, as in PoolRace, then AllocatePid.  A kernel thread runs with       *)
(* interrupts on, and may be preempted in both.                            *)
(***************************************************************************)
EXTENDS PoolRace

CONSTANTS
    PidLock,    \* pid_lock
    MaxPid      \* bound: pids that are allocated; next_pid has 16 bits

ASSUME CreationAssumption ==
    PidLock \in Lock \ {KernelLock, UserLock} /\ MaxPid \in Nat

VARIABLES
    next_pid,
    register,   \* what next_pid++ has read
    latest,     \* the largest pid that a call has returned
    before,     \* its value when the current call of each thread took pid_lock
    pid         \* what each thread's last call has returned; 0 if none

pidVars == <<next_pid, register, latest, before, pid>>
creationVars == <<raceVars, pidVars>>

CreationInit ==
    /\ RaceInit
    /\ next_pid = 0 /\ latest = 0
    /\ register = [t \in Thread |-> 0]
    /\ before = [t \in Thread |-> 0]
    /\ pid = [t \in Thread |-> 0]

-----------------------------------------------------------------------------
\* Mutant: one thread takes another lock.
PidLockOf_Mixed(t) == IF t = CHOOSE u \in KernelThread : TRUE THEN UserLock ELSE PidLock

\* The lock that AllocatePid takes.
PidLockOf(t) == PidLock

\* InitThread has its PCB and calls AllocatePid.
AllocatePid(t) ==
    /\ pc[t] = "idle" /\ t \in KernelThread /\ own[t] # {}
    /\ next_pid < MaxPid
    /\ Acquire(t, PidLockOf(t))
    /\ before' = [before EXCEPT ![t] = latest]
    /\ Goto(t, "pid_load")
    /\ UNCHANGED <<used, bit_idx, byte, own, crossed, next_pid, register,
                   latest, pid>>

PidLoad(t) ==
    /\ pc[t] = "pid_load"
    /\ register' = [register EXCEPT ![t] = next_pid]
    /\ Goto(t, "pid_store")
    /\ UNCHANGED <<owner, depth, used, bit_idx, byte, own, crossed, next_pid, latest, before, pid>>

PidStore(t) ==
    /\ pc[t] = "pid_store"
    /\ next_pid' = register[t] + 1
    /\ register' = [register EXCEPT ![t] = 0]
    /\ Goto(t, "pid_unlock")
    /\ UNCHANGED <<owner, depth, used, bit_idx, byte, own, crossed, latest, before, pid>>

PidUnlock(t) ==
    /\ pc[t] = "pid_unlock"
    /\ Release(t, PidLockOf(t))
    /\ Goto(t, "pid_return")
    /\ UNCHANGED <<used, bit_idx, byte, own, crossed, pidVars>>

\* next_pid is read again, without the lock.
PidReturn(t) ==
    /\ pc[t] = "pid_return"
    /\ pid' = [pid EXCEPT ![t] = next_pid]
    /\ latest' = IF next_pid > latest THEN next_pid ELSE latest
    /\ Goto(t, "idle")
    /\ UNCHANGED <<owner, depth, used, bit_idx, byte, own, crossed, next_pid, register, before>>

CreationNext ==
    \/ RaceNext /\ UNCHANGED pidVars
    \/ \E t \in Thread :
        \/ AllocatePid(t) \/ PidLoad(t) \/ PidStore(t) \/ PidUnlock(t) \/ PidReturn(t)

CreationSpec == CreationInit /\ [][CreationNext]_creationVars

-----------------------------------------------------------------------------
(***************************************************************************)
(* A call of AllocatePid returns a pid larger than those that all calls    *)
(* had returned when it took pid_lock.  Two threads get the same pid only  *)
(* if they were created by calls that overlap: the return statement reads  *)
(* next_pid after the lock is given back (thread.c:44).                    *)
(***************************************************************************)
PidsIncrease ==
    \A t \in Thread : pc[t] = "idle" /\ pid[t] # 0 => pid[t] > before[t]
=============================================================================
