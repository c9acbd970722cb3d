---------------------------- MODULE AbstractLock ----------------------------
(***************************************************************************)
(* What a lock of source/thread/sync.h promises its callers: a reentrant   *)
(* mutual exclusion lock, with neither semaphore, nor queue, nor scheduler.*)
(***************************************************************************)
EXTENDS Naturals

CONSTANTS Thread, Lock, NULL

VARIABLES
    owner,      \* the thread that has the lock, or NULL
    depth       \* how many more times it has locked than unlocked it

AbstractInit ==
    /\ owner = [l \in Lock |-> NULL]
    /\ depth = [l \in Lock |-> 0]

Acquire(t, l) ==
    /\ owner[l] = NULL
    /\ owner' = [owner EXCEPT ![l] = t]
    /\ depth' = [depth EXCEPT ![l] = 1]

Reenter(t, l) ==
    /\ owner[l] = t
    /\ depth' = [depth EXCEPT ![l] = @ + 1]
    /\ UNCHANGED owner

Leave(t, l) ==
    /\ owner[l] = t
    /\ depth[l] > 1
    /\ depth' = [depth EXCEPT ![l] = @ - 1]
    /\ UNCHANGED owner

Release(t, l) ==
    /\ owner[l] = t
    /\ depth[l] = 1
    /\ owner' = [owner EXCEPT ![l] = NULL]
    /\ depth' = [depth EXCEPT ![l] = 0]

AbstractNext ==
    \E t \in Thread, l \in Lock :
        Acquire(t, l) \/ Reenter(t, l) \/ Leave(t, l) \/ Release(t, l)

AbstractSpec == AbstractInit /\ [][AbstractNext]_<<owner, depth>>
=============================================================================
