------------------------------ MODULE IoQueue ------------------------------
(***************************************************************************)
(* The character queue of source/device/ioqueue.c between threads that put *)
(* and threads that get, on the locks of Sync and the scheduler of Thread. *)
(* Its functions run with interrupts off (they ASSERT it) except while the *)
(* caller sleeps, so each stretch between two sleeps is atomic.            *)
(***************************************************************************)
EXTENDS Sync

CONSTANTS
    BufSize,    \* bufsize
    Byte,       \* the characters
    QueueLock,  \* queue->lock
    Producer,   \* the threads that call ioqueue_putchar
    Consumer,   \* the threads that call ioqueue_getchar
    Polling     \* the callers that test ioqueueFull or ioqueueEmpty first

ASSUME IoQueueAssumption ==
    /\ BufSize \in Nat \ {0, 1}
    /\ QueueLock \in Lock
    /\ NULL \notin Byte
    /\ Producer \cup Consumer \subseteq Thread \ {Main}
    /\ Producer \cap Consumer = {}
    /\ Polling \subseteq Producer \cup Consumer

VARIABLES
    buf, head, tail,        \* the fields of struct ioqueue
    sleeping_producer,
    sleeping_consumer,
    io,                     \* where each thread is: idle, put and get at the
                            \* while loop, putSlept and getSlept in or after
                            \* ioqueueBlock
    byte                    \* its argument, or the byte it got last

bufVars == <<buf, head, tail>>
sleepVars == <<sleeping_producer, sleeping_consumer>>
callVars == <<io, byte>>
queueStateVars == <<bufVars, sleepVars, callVars>>
ioVars == <<vars, queueStateVars>>

ioqueueInit ==
    /\ buf = [i \in 0..BufSize - 1 |-> NULL]
    /\ head = 0
    /\ tail = 0
    /\ sleeping_producer = NULL
    /\ sleeping_consumer = NULL
    /\ io = [t \in Thread |-> "idle"]
    /\ byte = [t \in Thread |-> NULL]

-----------------------------------------------------------------------------
ptr_next_pos(idx) == (idx + 1) % BufSize

ioqueueFull == ptr_next_pos(head) = tail

ioqueueEmpty == head = tail

\* ioqueueWakeup(&waiter), where waiter is one of the two sleeping threads.
ioqueueWakeup(waiter) ==
    IF waiter = NULL THEN PanicSpin ELSE UnblockThread(waiter)

\* Mutant: head is moved before the byte is stored.
PutByte_Swapped(b) ==
    /\ head' = ptr_next_pos(head)
    /\ buf' = [buf EXCEPT ![head'] = b]
    /\ UNCHANGED <<threadVars, tail, sleepVars>>

\* The end of ioqueue_putchar, from the queue not being full on.
PutByte(b) ==
    /\ buf' = [buf EXCEPT ![head] = b]
    /\ head' = ptr_next_pos(head)
    /\ IF sleeping_consumer # NULL
       THEN ioqueueWakeup(sleeping_producer) /\ sleeping_producer' = NULL
       ELSE UNCHANGED <<threadVars, sleeping_producer>>
    /\ UNCHANGED <<tail, sleeping_consumer>>

\* Mutant: the producer that sleeps is not woken.
GetByte_NoWakeup ==
    /\ tail' = ptr_next_pos(tail)
    /\ UNCHANGED <<threadVars, buf, head, sleepVars>>

\* Mutant: the producer that was woken stays recorded as sleeping.
GetByte_NoClear ==
    /\ tail' = ptr_next_pos(tail)
    /\ IF sleeping_producer # NULL THEN ioqueueWakeup(sleeping_producer)
       ELSE UNCHANGED threadVars
    /\ UNCHANGED <<buf, head, sleepVars>>

\* The end of ioqueue_getchar, from the queue not being empty on.
GetByte ==
    /\ tail' = ptr_next_pos(tail)
    /\ IF sleeping_producer # NULL
       THEN ioqueueWakeup(sleeping_producer) /\ sleeping_producer' = NULL
       ELSE UNCHANGED <<threadVars, sleeping_producer>>
    /\ UNCHANGED <<buf, head, sleeping_consumer>>

-----------------------------------------------------------------------------
IoGoto(label) == io' = [io EXCEPT ![current] = label]

\* A thread, its interrupts off, calls ioqueue_putchar.
CallPut(b) ==
    /\ kernel = "up"
    /\ current \in Producer /\ io[current] = "idle" /\ intr = "INT_OFF"
    /\ current \in Polling => ~ ioqueueFull
    /\ IoGoto("put")
    /\ byte' = [byte EXCEPT ![current] = b]
    /\ UNCHANGED <<vars, bufVars, sleepVars>>

\* A thread, its interrupts off, calls ioqueue_getchar.
CallGet ==
    /\ kernel = "up"
    /\ current \in Consumer /\ io[current] = "idle" /\ intr = "INT_OFF"
    /\ current \in Polling => ~ ioqueueEmpty
    /\ IoGoto("get")
    /\ UNCHANGED <<vars, bufVars, sleepVars, byte>>

\* while (ioqueueFull(queue)) sys_lock_lock(&queue->lock)
TryPut ==
    /\ kernel = "up"
    /\ io[current] = "put" /\ pc[current] = "idle"
    /\ IF ioqueueFull
       THEN sys_lock_lock(QueueLock) /\ UNCHANGED queueStateVars
       ELSE PutByte(byte[current]) /\ IoGoto("idle") /\ UNCHANGED <<syncVars, byte>>

\* while (ioqueueEmpty(queue)) sys_lock_lock(&queue->lock)
TryGet ==
    /\ kernel = "up"
    /\ io[current] = "get" /\ pc[current] = "idle"
    /\ IF ioqueueEmpty
       THEN sys_lock_lock(QueueLock) /\ UNCHANGED queueStateVars
       ELSE /\ GetByte
            /\ IoGoto("idle")
            /\ byte' = [byte EXCEPT ![current] = buf[tail]]
            /\ UNCHANGED syncVars

\* ioqueueBlock(&waiter): the caller records itself and sleeps, with the lock.
ioqueueBlock ==
    /\ kernel = "up"
    /\ io[current] \in {"put", "get"} /\ pc[current] = "held"
    /\ LET putting == io[current] = "put"
           waiter == IF putting THEN sleeping_producer ELSE sleeping_consumer
       IN  IF waiter # NULL
           THEN PanicSpin /\ UNCHANGED queueStateVars
           ELSE /\ sleeping_producer' = IF putting THEN current ELSE sleeping_producer
                /\ sleeping_consumer' = IF putting THEN sleeping_consumer ELSE current
                /\ BlockThread("TASK_BLOCKD", "INT_OFF")
                /\ IoGoto(IF putting THEN "putSlept" ELSE "getSlept")
                /\ UNCHANGED <<bufVars, byte>>
    /\ UNCHANGED syncVars

\* sys_lock_unlock(&queue->lock) after the sleep, and back to the loop.
Woken ==
    /\ io[current] \in {"putSlept", "getSlept"}
    /\ sys_lock_unlock(QueueLock)
    /\ IoGoto(IF io[current] = "putSlept" THEN "put" ELSE "get")
    /\ UNCHANGED <<bufVars, sleepVars, byte>>

IoLockStep == LockStep(QueueLock) /\ UNCHANGED queueStateVars

\* The callers turn interrupts off and on around their calls.
IoCallerInt(stat) ==
    /\ io[current] = "idle"
    /\ CallerInt(stat)
    /\ UNCHANGED queueStateVars

IoTick == Tick /\ UNCHANGED queueStateVars

IoInit == SyncInit /\ ioqueueInit

IoCall == TryPut \/ TryGet \/ ioqueueBlock \/ Woken \/ IoLockStep

IoNext ==
    \/ IoTick
    \/ \E stat \in IntStatus : IoCallerInt(stat)
    \/ \E b \in Byte : CallPut(b)
    \/ CallGet
    \/ IoCall

(***************************************************************************)
(* Fairness: as in Sync, and a consumer keeps polling, turning interrupts  *)
(* off and looking into the queue again and again as KeyboardOutput does.  *)
(***************************************************************************)
IoSpec == IoInit /\ [][IoNext]_ioVars

IoFairSpec ==
    /\ IoSpec
    /\ SF_ioVars(IoTick)
    /\ SF_ioVars(IoCallerInt("INT_ON"))
    /\ \A t \in Thread : SF_ioVars(current = t /\ IoCall)
    /\ \A t \in Consumer : /\ SF_ioVars(current = t /\ IoCallerInt("INT_OFF"))
                           /\ SF_ioVars(current = t /\ CallGet)

-----------------------------------------------------------------------------
\* The bytes in the queue, oldest first.
Content ==
    [i \in 1..(head + BufSize - tail) % BufSize |-> buf[(tail + i - 1) % BufSize]]

(***************************************************************************)
(* A producer is recorded as sleeping exactly while it sleeps in           *)
(* ioqueueBlock, with the lock of the queue in its hands: ioqueue_getchar  *)
(* misses no sleeper, and wakes no thread that is not asleep.              *)
(***************************************************************************)
SleeperOK ==
    \A t \in Producer :
        /\ sleeping_producer = t <=> io[t] = "putSlept" /\ status[t] = "TASK_BLOCKD"
        /\ sleeping_producer = t => holder[QueueLock] = t

(***************************************************************************)
(* No producer sleeps on an empty queue, where no getchar would wake it.   *)
(* It tests the queue before it takes the lock and not again, so it may    *)
(* sleep on a queue that is no longer full; but whoever let it have the    *)
(* lock has put a byte since.                                              *)
(***************************************************************************)
SleepsOnBytes == sleeping_producer # NULL => ~ ioqueueEmpty

Queue == INSTANCE AbstractQueue WITH
    content <- Content,
    out <- [c \in Consumer |-> byte[c]],
    Capacity <- BufSize - 1,
    Receiver <- Consumer,
    None <- NULL

\* The ring buffer of ioqueue.c is a FIFO queue of BufSize - 1 characters,
\* whatever its callers do between two of its sleeps.
ImplementsQueue == Queue!QueueSpec

(***************************************************************************)
(* A producer that sleeps gets its byte in, as consumers need no lock to   *)
(* take bytes out, unless the kernel stops, or every consumer sleeps on    *)
(* the lock that the producer sleeps with (standoff).  Only consumers that *)
(* do not look before they take get there: one that found the queue empty  *)
(* waits for the lock while the queue fills up.                            *)
(***************************************************************************)
Standoff == \A c \in Consumer : c \in Range(waiting[QueueLock])

ProducerServed ==
    \A t \in Producer :
        (sleeping_producer = t)
            ~> (io[t] = "idle" \/ kernel = "panic" \/ Standoff)

(***************************************************************************)
(* The wake-up of ioqueue_putchar names the wrong thread (ioqueue.c:87).   *)
(* What comes of it, and the only way in which the queue can stop the      *)
(* kernel: a byte is put while a consumer sleeps, which nothing ever wakes.*)
(* With consumers that look before they take nobody sleeps, and no ASSERT  *)
(* fails.                                                                  *)
(***************************************************************************)
PanicsOnlyOnSleeper ==
    /\ kernel = "panic" => sleeping_consumer # NULL /\ ~ ioqueueEmpty
    /\ sleeping_consumer # NULL =>
          /\ sleeping_consumer \in Consumer \ Polling
          /\ status[sleeping_consumer] = "TASK_BLOCKD"
=============================================================================
