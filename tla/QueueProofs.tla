---------------------------- MODULE QueueProofs ----------------------------
(***************************************************************************)
(* The character queue of ioqueue.c: its record of the sleeping threads,   *)
(* the one way in which it stops the kernel, and that it is a FIFO queue,  *)
(* for any number of producers and consumers and any buffer size.          *)
(***************************************************************************)
EXTENDS IoQueue, SyncProofs

-----------------------------------------------------------------------------
(***************************************************************************)
(* The inductive invariant.  A call runs with interrupts off, so a thread  *)
(* in a call is the current one, sleeps, or was woken and has yet to run.  *)
(* UnblockThread puts it at the front of the ready list, so there is at    *)
(* most one such thread and it runs before anyone else does: whoever woke  *)
(* it is still the current thread.                                         *)
(***************************************************************************)
Slept == {"putSlept", "getSlept"}

\* On the way from the test of the queue to ioqueueBlock.
Asked == {"down", "retry", "acquired", "counting", "held"}

QueueTypeOK ==
    /\ buf \in [0..BufSize - 1 -> Byte \cup {NULL}]
    /\ head \in 0..BufSize - 1
    /\ tail \in 0..BufSize - 1
    /\ sleeping_producer \in Producer \cup {NULL}
    /\ sleeping_consumer \in Consumer \cup {NULL}
    /\ io \in [Thread -> {"idle", "put", "get"} \cup Slept]
    /\ byte \in [Thread -> Byte \cup {NULL}]
    /\ \A t \in Thread :
        /\ io[t] \in {"put", "putSlept"} => t \in Producer /\ byte[t] \in Byte
        /\ io[t] \in {"get", "getSlept"} => t \in Consumer

\* Where each thread is in ioqueue.c, in sync.c and in the scheduler, and the
\* two fields that record the sleepers.
PlaceInv ==
    /\ repeat[QueueLock] <= 1
    /\ \A t \in Thread :
        /\ pc[t] # "idle" => lk[t] = QueueLock /\ io[t] # "idle"
        /\ io[t] \in Slept => pc[t] = "held"
        /\ t \in Consumer => pc[t] \notin {"clearing", "up"}
        /\ sleeping_consumer = t <=> io[t] = "getSlept"
        /\ io[t] = "getSlept" => status[t] = "TASK_BLOCKD"
        /\ sleeping_producer = t <=> io[t] = "putSlept" /\ status[t] = "TASK_BLOCKD"
        /\ status[t] = "TASK_BLOCKD" => pc[t] = "retry" \/ io[t] \in Slept
        /\ pc[t] = "retry" => frame[t] = "INT_OFF"

\* A thread that was woken in a call and has yet to run.
Pending(t) == t # current /\ io[t] # "idle" /\ status[t] # "TASK_BLOCKD"

\* Where a producer that has woken a thread may get before it gives way.
Waking == {"idle", "down", "acquired", "counting", "held"}

TurnInv ==
    /\ io[current] # "idle" => intr = "INT_OFF"
    /\ \A t \in Thread : t # current /\ io[t] # "idle" => resume[t] = "INT_OFF"
    /\ \A t \in Thread : Pending(t) =>
        /\ ready # <<>> /\ Head(ready) = t
        /\ \/ /\ pc[t] = "retry" /\ current \in Producer
              /\ pc[current] \in Waking /\ io[current] # "putSlept"
           \/ io[t] = "putSlept" /\ current \in Consumer

\* A producer that goes to sleep does so on a queue with bytes in it, and a
\* consumer that looked before its call finds what it saw.
ByteInv ==
    /\ SleepsOnBytes
    /\ io[current] = "put" /\ pc[current] \in Asked => ~ ioqueueEmpty
    /\ \A t \in Thread : Pending(t) /\ io[t] = "put" =>
        ~ ioqueueEmpty \/ (io[current] = "put" /\ pc[current] = "idle")
    /\ \A t \in Consumer \cap Polling : io[t] # "idle" =>
        t = current /\ io[t] = "get" /\ pc[t] = "idle" /\ ~ ioqueueEmpty

UpInv == QueueTypeOK /\ SyncInv /\ PlaceInv /\ TurnInv /\ ByteInv

\* Once an ASSERT has failed nothing happens any more.
StoppedInv ==
    /\ kernel = "panic"
    /\ QueueTypeOK /\ SleeperOK /\ SleepsOnBytes /\ PanicsOnlyOnSleeper

IoInv == UpInv \/ StoppedInv

-----------------------------------------------------------------------------
\* The next position is a position, and another one.
LEMMA RingFacts ==
    ASSUME NEW i \in 0..BufSize - 1
    PROVE  ptr_next_pos(i) \in 0..BufSize - 1 /\ ptr_next_pos(i) # i
<1>1. BufSize \in Nat /\ BufSize >= 2
    BY IoQueueAssumption
<1>2. CASE i + 1 = BufSize
    <2>1. BufSize % BufSize = 0
        BY <1>1
    <2> QED
        BY <1>1, <1>2, <2>1 DEF ptr_next_pos
<1>3. CASE i + 1 # BufSize
    <2>1. i + 1 \in 0..BufSize - 1
        BY <1>1, <1>3
    <2>2. (i + 1) % BufSize = i + 1
        BY <1>1, <2>1
    <2> QED
        BY <1>1, <2>1, <2>2 DEF ptr_next_pos
<1> QED
    BY <1>2, <1>3, Zenon

\* What the invariant says while the kernel is up.  Main makes no calls, so
\* that whoever else blocks leaves a thread to switch to.
LEMMA UpFacts ==
    ASSUME UpInv
    PROVE  /\ current \in Thread /\ kernel = "up" /\ status[current] = "TASK_RUNNING"
           /\ status \in [Thread -> TaskStatus] /\ ready \in Seq(Thread)
           /\ resume \in [Thread -> IntStatus] /\ intr \in IntStatus
           /\ pc \in [Thread -> PC] /\ lk \in [Thread -> Lock \cup {NULL}]
           /\ frame \in [Thread -> IntStatus]
           /\ QueueLock \in Lock /\ NULL \notin Thread
           /\ current # Main => ready # <<>>
<1>1. /\ current \in Thread /\ kernel = "up" /\ status[current] = "TASK_RUNNING"
      /\ status \in [Thread -> TaskStatus] /\ ready \in Seq(Thread)
      /\ resume \in [Thread -> IntStatus] /\ intr \in IntStatus
      /\ pc \in [Thread -> PC] /\ lk \in [Thread -> Lock \cup {NULL}]
      /\ frame \in [Thread -> IntStatus]
    BY CurrentFacts, Zenon DEF UpInv, SyncInv, SyncTypeOK, ThreadTypeOK
<1>2. ASSUME current # Main PROVE ready # <<>>
    <2>1. Main \in Thread /\ Main \notin Producer /\ Main \notin Consumer
        BY ThreadAssumption, IoQueueAssumption, Zenon
    <2>2. io[Main] = "idle"
        BY <2>1, Zenon DEF UpInv, QueueTypeOK, Slept
    <2>3. status[Main] # "TASK_BLOCKD"
        BY <2>1, <2>2, Zenon DEF UpInv, PlaceInv, Slept
    <2>4. Main \in Range(ready)
        BY <1>2, <2>1, <2>3, Zenon
        DEF UpInv, SyncInv, ControlInv, SchedInv, ReadyListOK, Queued
    <2> QED
        BY <2>4 DEF Range
<1> QED
    BY <1>1, <1>2, IoQueueAssumption, SyncAssumption, Zenon

\* The head of the ready list is next: a thread that is preempted goes behind.
LEMMA NextIsHead ==
    ASSUME UpInv, ready # <<>>, NEW stat PROVE Head(Requeue(stat)) = Head(ready)
<1>1. ready \in Seq(Thread) /\ current \in Thread
    BY UpFacts, Zenon
<1>2. Head(Append(ready, current)) = Head(ready)
    BY <1>1
<1> QED
    BY <1>2, Zenon DEF Requeue

(***************************************************************************)
(* A switch to another thread: if some thread was woken in its call then   *)
(* it is the one that runs now, and with interrupts off; nobody else has   *)
(* been woken.                                                             *)
(***************************************************************************)
LEMMA SwitchInv ==
    ASSUME UpInv, SyncInv', NEW stat \in {"TASK_RUNNING", "TASK_BLOCKD"}, NEW saved,
           ScheduleThread(stat, saved),
           \A t \in Thread : t # current => io'[t] = io[t] /\ pc'[t] = pc[t],
           io[current] = "idle" \/ pc[current] # "idle",
           io'[current] = "idle" \/ (stat = "TASK_BLOCKD" /\ saved = "INT_OFF"),
           io[current] = "idle" => io'[current] = "idle",
           UNCHANGED <<head, tail>>, SleepsOnBytes'
    PROVE  TurnInv' /\ ByteInv'
<1>1. /\ kernel' = "up" /\ current' \in Thread
      /\ \A x \in Thread : status'[x] = "TASK_RUNNING" <=> x = current'
    BY Zenon DEF SyncInv, SchedInv, ThreadTypeOK, ReadyListOK
<1>2. /\ current' = Head(Requeue(stat))
      /\ status' = [status EXCEPT
            ![current] = IF stat = "TASK_RUNNING" THEN "TASK_READY" ELSE stat,
            ![current'] = "TASK_RUNNING"]
      /\ resume' = [resume EXCEPT ![current] = saved]
      /\ intr' = IF current' = current THEN saved ELSE resume[current']
      /\ ready' = Tail(Requeue(stat)) /\ Requeue(stat) # <<>>
    BY <1>1, Zenon DEF ScheduleThread, PanicSpin
<1>3. ready # <<>> => current' = Head(ready)
    BY <1>2, NextIsHead, Zenon
<1>4. current' # current => status[current'] # "TASK_BLOCKD"
    <2>1. CASE ready = <<>>
        <3>1. Requeue(stat) = <<current>>
            BY <1>2, <2>1 DEF Requeue
        <3> QED
            BY <1>2, <3>1
    <2>2. CASE ready # <<>>
        <3>1. Head(ready) \in Range(ready)
            BY <2>2, UpFacts, PopFacts, Zenon
        <3>2. status[Head(ready)] = "TASK_READY"
            BY <3>1, Zenon DEF UpInv, SyncInv, SchedInv, ReadyListOK, Queued
        <3> QED
            BY <1>3, <2>2, <3>2, Zenon
    <2> QED
        BY <2>1, <2>2, Zenon
<1>5. io'[current'] # "idle" => current' # current /\ Pending(current')
    <2>1. CASE current' # current
        BY <1>1, <1>4, <2>1, Zenon DEF Pending
    <2>2. CASE current' = current
        <3>1. ready = <<>>
            <4>1. ASSUME ready # <<>> PROVE FALSE
                <5>1. Head(ready) = current /\ Head(ready) \in Range(ready)
                    BY <1>3, <2>2, <4>1, UpFacts, PopFacts, Zenon
                <5>2. status[current] = "TASK_READY"
                    BY <5>1, Zenon DEF UpInv, SyncInv, SchedInv, ReadyListOK, Queued
                <5> QED
                    BY <5>2, UpFacts, Zenon
            <4> QED
                BY <4>1, Zenon
        <3>2. stat # "TASK_BLOCKD"
            BY <1>2, <3>1, Zenon DEF Requeue
        <3> QED
            BY <2>2, <3>2, Zenon
    <2> QED
        BY <2>1, <2>2, Zenon
<1>6. \A t \in Thread : ~ Pending(t)'
    <2> SUFFICES ASSUME NEW t \in Thread, Pending(t)' PROVE FALSE
        OBVIOUS
    <2>1. t # current' /\ io'[t] # "idle" /\ status'[t] # "TASK_BLOCKD"
        BY Zenon DEF Pending
    <2>2. t # current
        BY <1>2, <2>1, UpFacts, Zenon
    <2>3. Pending(t)
        BY <1>1, <1>2, <2>1, <2>2, UpFacts, Zenon DEF Pending
    <2> QED
        BY <1>3, <2>1, <2>3, Zenon DEF UpInv, TurnInv
<1>7. TurnInv'
    <2>1. io'[current'] # "idle" => intr' = "INT_OFF"
        BY <1>1, <1>2, <1>5, Zenon DEF UpInv, TurnInv, Pending
    <2>2. \A t \in Thread : t # current' /\ io'[t] # "idle" => resume'[t] = "INT_OFF"
        BY <1>2, UpFacts, Zenon DEF UpInv, TurnInv
    <2> QED
        BY <1>6, <2>1, <2>2, Zenon DEF TurnInv
<1>8. ioqueueEmpty' = ioqueueEmpty
    BY Zenon DEF ioqueueEmpty
<1>9. ASSUME io'[current'] = "put" PROVE ~ ioqueueEmpty
    <2>1. Pending(current') /\ io[current'] = "put"
        BY <1>1, <1>5, <1>9, Zenon
    <2> QED
        BY <1>1, <2>1, Zenon DEF UpInv, ByteInv
<1>10. ASSUME NEW t \in Consumer \cap Polling PROVE io'[t] = "idle"
    <2>1. t \in Thread
        BY IoQueueAssumption, Zenon
    <2> QED
        BY <2>1, Zenon DEF UpInv, ByteInv
<1> QED
    BY <1>6, <1>7, <1>8, <1>9, <1>10, Zenon DEF ByteInv

\* A step of the current thread that neither switches nor wakes.
LEMMA StayTurn ==
    ASSUME UpInv, UNCHANGED <<current, status, ready, resume>>,
           \A t \in Thread : t # current => io'[t] = io[t] /\ pc'[t] = pc[t],
           io'[current] # "idle" => intr' = "INT_OFF",
           pc[current] \in Waking => pc'[current] \in Waking,
           io[current] # "putSlept" => io'[current] # "putSlept"
    PROVE  TurnInv' /\ \A t \in Thread : Pending(t)' => Pending(t)
<1>1. \A t \in Thread : Pending(t)' => Pending(t) /\ io'[t] = io[t] /\ pc'[t] = pc[t]
    BY Zenon DEF Pending
<1> QED
    BY <1>1, UpFacts, Zenon DEF UpInv, TurnInv, Waking

\* A step that wakes a thread, when no other thread has been woken: it goes to
\* the front of the ready list.
LEMMA WakeTurn ==
    ASSUME UpInv, NEW h \in Thread, h # current, io[h] # "idle",
           \A t \in Thread : ~ Pending(t),
           ready' = <<h>> \o ready, UNCHANGED <<current, intr, resume>>,
           \A t \in Thread : t # h => status'[t] = status[t],
           \A t \in Thread : t # current => io'[t] = io[t] /\ pc'[t] = pc[t],
           io'[current] # "idle" => io[current] # "idle",
           \/ /\ pc[h] = "retry" /\ current \in Producer
              /\ pc'[current] \in Waking /\ io'[current] # "putSlept"
           \/ io[h] = "putSlept" /\ current \in Consumer
    PROVE  TurnInv' /\ \A t \in Thread : Pending(t)' => t = h
<1>1. ready' # <<>> /\ Head(ready') = h
    <2>1. ready \in Seq(Thread)
        BY UpFacts, Zenon
    <2>2. <<h>> \o ready # <<>> /\ Head(<<h>> \o ready) = h
        BY <2>1
    <2> QED
        BY <2>2, Zenon
<1>2. \A t \in Thread : Pending(t)' => t = h
    BY Zenon DEF Pending
<1>3. io'[current] # "idle" => intr' = "INT_OFF"
    BY Zenon DEF UpInv, TurnInv
<1>4. \A t \in Thread : t # current' /\ io'[t] # "idle" => resume'[t] = "INT_OFF"
    BY Zenon DEF UpInv, TurnInv
<1> QED
    BY <1>1, <1>2, <1>3, <1>4, UpFacts, Zenon DEF TurnInv, Waking

\* The invariant of the locks does not depend on who sleeps in its critical
\* section, and on nothing of the queue.
LEMMA HeldFrame ==
    ASSUME SyncInv, SchedInv', UNCHANGED <<startVars, syncVars>>,
           \A x \in Thread : pc[x] = "retry" =>
                (status'[x] = "TASK_BLOCKD" <=> status[x] = "TASK_BLOCKD"),
           \A x \in Thread : status'[x] = "TASK_BLOCKD" => pc[x] \in {"retry", "held"},
           \A x \in Thread : status'[x] \in {"TASK_RUNNING", "TASK_READY", "TASK_BLOCKD"}
    PROVE  SyncInv'
<1>1. UNCHANGED <<started, starting, value, waiting, holder, repeat, pc, lk, frame>>
    BY Zenon DEF startVars, syncVars
<1>2. SyncTypeOK' /\ ControlInv'
    BY <1>1, Zenon DEF SyncInv, SchedInv, SyncTypeOK, ControlInv
<1>3. SleepersListed' /\ NoLostWakeup'
    BY <1>1 DEF SyncInv, SleepersListed, NoLostWakeup
<1>4. SemaphoreInv' /\ Mutex'
    BY <1>1, Zenon DEF SyncInv, SemaphoreInv, Mutex, Owns
<1>5. LockInv'
    <2>1. LockInv
        BY Zenon DEF SyncInv
    <2>2. holder' = holder /\ repeat' = repeat /\ pc' = pc /\ lk' = lk
        BY <1>1, Zenon
    <2> QED
        BY <2>1, <2>2, SMT DEF LockInv
<1> QED
    BY <1>2, <1>3, <1>4, <1>5, Zenon DEF SyncInv

\* A step that leaves scheduler and locks alone leaves their invariant alone.
LEMMA SyncStutters ==
    ASSUME SyncInv, UNCHANGED <<threadVars, syncVars>> PROVE SyncInv'
<1>1. SchedInv' /\ UNCHANGED <<status, startVars>>
    BY SchedFrame, Zenon DEF SyncInv, threadVars, queueVars
<1> QED
    BY <1>1, SyncFrame, Zenon DEF SyncInv, ControlInv

\* The timer interrupt finds its thread outside of the queue.
LEMMA IoTickInv == ASSUME UpInv, IoTick PROVE UpInv'
<1>1. Tick /\ IntTimerHandler /\ intr = "INT_ON" /\ UNCHANGED queueStateVars /\ UNCHANGED syncVars
    BY Zenon DEF IoTick, Tick, IntTimerHandler
<1>2. SyncInv' /\ kernel' = "up"
    <2>1. SyncInv'
        BY <1>1, TickInv, Zenon DEF UpInv
    <2> QED
        BY <2>1, Zenon DEF SyncInv, SchedInv
<1>3. /\ UNCHANGED <<buf, head, tail, sleeping_producer, sleeping_consumer, io, byte>>
      /\ UNCHANGED <<value, waiting, holder, repeat, pc, lk, frame>>
    BY <1>1, Zenon DEF queueStateVars, bufVars, sleepVars, callVars, syncVars
<1>4. io[current] = "idle"
    BY <1>1, Zenon DEF UpInv, TurnInv
<1>5. QueueTypeOK'
    BY <1>3, Zenon DEF UpInv, QueueTypeOK
<1>6. \A t \in Thread : status'[t] = "TASK_BLOCKD" <=> status[t] = "TASK_BLOCKD"
    <2>1. \A t \in Thread :
                \/ status'[t] = status[t]
                \/ status[t] = "TASK_READY" /\ status'[t] = "TASK_RUNNING"
                \/ status[t] = "TASK_RUNNING" /\ status'[t] = "TASK_READY"
        BY <1>1, TimerStep, CurrentFacts, Zenon DEF UpInv, SyncInv
    <2> QED
        BY <2>1, Zenon
<1>7. PlaceInv'
    BY <1>3, <1>6, Zenon DEF UpInv, PlaceInv
<1>8. TurnInv' /\ ByteInv'
    <2>1. CASE ticksLeft[current] = 0
        <3>1. ScheduleThread("TASK_RUNNING", "INT_ON")
            BY <1>1, <2>1, Zenon DEF IntTimerHandler
        <3>2. SleepsOnBytes'
            BY <1>3, Zenon DEF UpInv, ByteInv, SleepsOnBytes, ioqueueEmpty
        <3> QED
            BY <1>2, <1>3, <1>4, <3>1, <3>2, SwitchInv, Zenon
    <2>2. CASE ticksLeft[current] # 0
        <3>1. UNCHANGED <<intr, current, resume, status, ready>>
            BY <1>1, <2>2, Zenon DEF IntTimerHandler, cpuVars
        <3> QED
            BY <1>3, <3>1, Zenon
            DEF UpInv, TurnInv, ByteInv, Pending, SleepsOnBytes, ioqueueEmpty
    <2> QED
        BY <2>1, <2>2, Zenon
<1> QED
    BY <1>2, <1>5, <1>7, <1>8, Zenon DEF UpInv

\* A step of the current thread that puts nobody to sleep and wakes nobody.
LEMMA StayPlace ==
    ASSUME UpInv, UNCHANGED <<status, sleeping_producer, sleeping_consumer>>,
           \A t \in Thread : t # current =>
                io'[t] = io[t] /\ pc'[t] = pc[t] /\ lk'[t] = lk[t] /\ frame'[t] = frame[t],
           repeat'[QueueLock] <= 1,
           pc'[current] # "idle" => lk'[current] = QueueLock /\ io'[current] # "idle",
           io'[current] \in Slept => io'[current] = io[current] /\ pc'[current] = "held",
           current \in Consumer => pc'[current] \notin {"clearing", "up"},
           pc'[current] = "retry" => frame'[current] = "INT_OFF"
    PROVE  PlaceInv'
<1>1. \A t \in Thread : t # current =>
        /\ pc'[t] # "idle" => lk'[t] = QueueLock /\ io'[t] # "idle"
        /\ io'[t] \in Slept => pc'[t] = "held"
        /\ t \in Consumer => pc'[t] \notin {"clearing", "up"}
        /\ sleeping_consumer' = t <=> io'[t] = "getSlept"
        /\ io'[t] = "getSlept" => status'[t] = "TASK_BLOCKD"
        /\ sleeping_producer' = t <=> io'[t] = "putSlept" /\ status'[t] = "TASK_BLOCKD"
        /\ status'[t] = "TASK_BLOCKD" => pc'[t] = "retry" \/ io'[t] \in Slept
        /\ pc'[t] = "retry" => frame'[t] = "INT_OFF"
    BY DEF UpInv, PlaceInv
<1>2. /\ io'[current] # "getSlept" /\ sleeping_consumer' # current
      /\ status'[current] # "TASK_BLOCKD" /\ sleeping_producer' # current
    BY UpFacts, Zenon DEF UpInv, PlaceInv, Slept
<1> QED
    BY <1>1, <1>2, UpFacts, Zenon DEF PlaceInv

\* A caller turns interrupts on or off, outside of the queue.
LEMMA IoCallerIntInv ==
    ASSUME UpInv, NEW stat \in IntStatus, IoCallerInt(stat) PROVE UpInv'
<1>1. /\ io[current] = "idle" /\ CallerInt(stat)
      /\ UNCHANGED <<current, resume, status, ready>>
      /\ UNCHANGED <<buf, head, tail, sleeping_producer, sleeping_consumer, io, byte>>
      /\ UNCHANGED <<value, waiting, holder, repeat, pc, lk, frame>>
    BY Zenon
       DEF IoCallerInt, CallerInt, SetIntStatus, queueStateVars, bufVars, sleepVars,
           callVars, syncVars, queueVars
<1>2. SyncInv'
    BY <1>1, CallerIntInv, Zenon DEF UpInv
<1>3. QueueTypeOK' /\ PlaceInv'
    BY <1>1, Zenon DEF UpInv, QueueTypeOK, PlaceInv
<1>4. TurnInv' /\ \A t \in Thread : Pending(t)' => Pending(t)
    BY <1>1, StayTurn, Zenon
<1>5. ByteInv'
    BY <1>1, <1>4, Zenon DEF UpInv, ByteInv, SleepsOnBytes, ioqueueEmpty
<1> QED
    BY <1>2, <1>3, <1>4, <1>5, Zenon DEF UpInv

\* ioqueue_putchar and ioqueue_getchar are called with interrupts off.
LEMMA CallInv ==
    ASSUME UpInv, (\E b \in Byte : CallPut(b)) \/ CallGet PROVE UpInv'
<1>1. PICK label \in {"put", "get"} :
        /\ io[current] = "idle" /\ intr = "INT_OFF"
        /\ io' = [io EXCEPT ![current] = label]
        /\ label = "put" => /\ current \in Producer
                            /\ \E b \in Byte : byte' = [byte EXCEPT ![current] = b]
        /\ label = "get" => /\ current \in Consumer /\ UNCHANGED byte
                            /\ current \in Polling => ~ ioqueueEmpty
        /\ UNCHANGED <<vars, bufVars, sleepVars>>
    BY Zenon DEF CallPut, CallGet, IoGoto
<1>2. /\ UNCHANGED <<buf, head, tail, sleeping_producer, sleeping_consumer>>
      /\ UNCHANGED <<threadVars, syncVars>>
      /\ UNCHANGED <<current, intr, resume, status, ready>>
      /\ UNCHANGED <<value, waiting, holder, repeat, pc, lk, frame>>
    BY <1>1, Zenon
       DEF bufVars, sleepVars, vars, threadVars, cpuVars, queueVars, syncVars
<1>3. SyncInv'
    BY <1>2, SyncStutters, Zenon DEF UpInv
<1>4. /\ \A t \in Thread : io'[t] = IF t = current THEN label ELSE io[t]
      /\ pc[current] = "idle"
    BY <1>1, UpFacts, Zenon DEF UpInv, QueueTypeOK, PlaceInv
<1>5. QueueTypeOK'
    <2>1. byte' \in [Thread -> Byte \cup {NULL}] /\ \A t \in Thread : t # current => byte'[t] = byte[t]
        BY <1>1, Zenon DEF UpInv, QueueTypeOK
    <2>2. label = "put" => byte'[current] \in Byte
        BY <1>1, UpFacts, Zenon DEF UpInv, QueueTypeOK
    <2>3. io' \in [Thread -> {"idle", "put", "get"} \cup Slept]
        BY <1>1, Zenon DEF UpInv, QueueTypeOK
    <2> QED
        BY <1>1, <1>2, <1>4, <2>1, <2>2, <2>3, Zenon DEF UpInv, QueueTypeOK
<1>6. PlaceInv'
    <2>1. repeat[QueueLock] <= 1
        BY Zenon DEF UpInv, PlaceInv
    <2> QED
        BY <1>2, <1>4, <2>1, UpFacts, StayPlace, Zenon DEF Slept
<1>7. TurnInv' /\ \A t \in Thread : Pending(t)' => Pending(t)
    BY <1>1, <1>2, <1>4, StayTurn
<1>8. ByteInv'
    <2>1. SleepsOnBytes' /\ ioqueueEmpty' = ioqueueEmpty
        BY <1>2, Zenon DEF UpInv, ByteInv, SleepsOnBytes, ioqueueEmpty
    <2>2. ~ (io'[current] = "put" /\ pc'[current] \in Asked)
        BY <1>2, <1>4, Zenon DEF Asked
    <2>3. \A t \in Thread : Pending(t)' /\ io'[t] = "put" =>
            ~ ioqueueEmpty' \/ (io'[current'] = "put" /\ pc'[current'] = "idle")
        BY <1>1, <1>2, <1>4, <1>7, <2>1, Zenon DEF UpInv, ByteInv, Pending
    <2>4. \A t \in Consumer \cap Polling : io'[t] # "idle" =>
            t = current' /\ io'[t] = "get" /\ pc'[t] = "idle" /\ ~ ioqueueEmpty'
        BY <1>1, <1>2, <1>4, <2>1, IoQueueAssumption, Zenon DEF UpInv, ByteInv
    <2> QED
        BY <1>2, <2>1, <2>2, <2>3, <2>4, Zenon DEF ByteInv
<1> QED
    BY <1>3, <1>5, <1>6, <1>7, <1>8, Zenon DEF UpInv

(***************************************************************************)
(* The queue is full, or empty: sys_lock_lock of a thread that does not    *)
(* hold the lock.                                                          *)
(***************************************************************************)
LEMMA AskInv ==
    ASSUME UpInv, pc[current] = "idle", sys_lock_lock(QueueLock), UNCHANGED queueStateVars,
           \/ io[current] = "put" /\ ioqueueFull
           \/ io[current] = "get" /\ ioqueueEmpty
    PROVE  UpInv'
<1>1. SyncInv'
    BY UpFacts, LockInv1, Zenon DEF UpInv
<1>2. holder[QueueLock] # current
    BY UpFacts, Zenon DEF UpInv, SyncInv, LockInv
<1>3. /\ pc' = [pc EXCEPT ![current] = "down"]
      /\ lk' = [lk EXCEPT ![current] = QueueLock]
      /\ UNCHANGED <<repeat, threadVars, value, waiting, holder, frame>>
    BY <1>2, Zenon DEF sys_lock_lock, Goto
<1>4. /\ UNCHANGED <<current, intr, resume, status, ready>>
      /\ UNCHANGED <<buf, head, tail, sleeping_producer, sleeping_consumer, io, byte>>
    BY <1>3, Zenon
       DEF threadVars, cpuVars, queueVars, queueStateVars, bufVars, sleepVars, callVars
<1>5. \A t \in Thread : /\ pc'[t] = IF t = current THEN "down" ELSE pc[t]
                        /\ lk'[t] = IF t = current THEN QueueLock ELSE lk[t]
    BY <1>3, UpFacts, Zenon
<1>6. QueueTypeOK'
    BY <1>4, Zenon DEF UpInv, QueueTypeOK
<1>7. PlaceInv'
    <2>1. repeat'[QueueLock] <= 1
        BY <1>3, Zenon DEF UpInv, PlaceInv
    <2> QED
        BY <1>3, <1>4, <1>5, <2>1, UpFacts, StayPlace, Zenon DEF Slept
<1>8. TurnInv' /\ \A t \in Thread : Pending(t)' => Pending(t)
    <2>1. intr = "INT_OFF"
        BY Zenon DEF UpInv, TurnInv
    <2> QED
        BY <1>4, <1>5, <2>1, StayTurn, UpFacts, Zenon DEF Waking
<1>9. io[current] = "put" => ~ ioqueueEmpty
    BY RingFacts, Zenon DEF ioqueueFull, ioqueueEmpty, UpInv, QueueTypeOK
<1>10. ByteInv'
    <2>1. SleepsOnBytes' /\ ioqueueEmpty' = ioqueueEmpty
        BY <1>4, Zenon DEF UpInv, ByteInv, SleepsOnBytes, ioqueueEmpty
    <2>2. \A t \in Thread : Pending(t)' /\ io'[t] = "put" => ~ ioqueueEmpty
        <3>1. \A t \in Thread : Pending(t)' => Pending(t) /\ io'[t] = io[t]
            BY <1>4, <1>8, Zenon
        <3> QED
            BY <1>9, <3>1, Zenon DEF UpInv, ByteInv
    <2>3. \A t \in Consumer \cap Polling : io'[t] = "idle"
        BY <1>4, IoQueueAssumption, Zenon DEF UpInv, ByteInv, QueueTypeOK
    <2> QED
        BY <1>4, <1>9, <2>1, <2>2, <2>3, Zenon DEF ByteInv
<1> QED
    BY <1>1, <1>6, <1>7, <1>8, <1>10, Zenon DEF UpInv

\* Both sleepers would own the lock of the queue, so there is at most one.
LEMMA OneSleeper ==
    ASSUME UpInv, sleeping_consumer # NULL
    PROVE  /\ sleeping_producer = NULL
           /\ sleeping_consumer \in Consumer \ Polling
           /\ status[sleeping_consumer] = "TASK_BLOCKD"
<1>1. sleeping_consumer \in Consumer /\ sleeping_consumer \in Thread
    BY IoQueueAssumption, Zenon DEF UpInv, QueueTypeOK
<1>2. PICK s \in Thread : s = sleeping_consumer
    BY <1>1, Zenon
<1>3. io[s] = "getSlept" /\ status[s] = "TASK_BLOCKD" /\ Owns(s, QueueLock)
    BY <1>2, Zenon DEF UpInv, PlaceInv, Slept, Owns, Owning
<1>4. s \notin Polling
    BY <1>1, <1>2, <1>3, Zenon DEF UpInv, ByteInv
<1>5. ASSUME sleeping_producer # NULL PROVE FALSE
    <2>1. sleeping_producer \in Producer /\ sleeping_producer \in Thread
        BY <1>5, IoQueueAssumption, Zenon DEF UpInv, QueueTypeOK
    <2>2. PICK p \in Thread : p = sleeping_producer
        BY <2>1, Zenon
    <2>3. Owns(p, QueueLock) /\ p # s
        BY <1>3, <2>2, Zenon DEF UpInv, PlaceInv, Slept, Owns, Owning
    <2> QED
        BY <1>3, <2>3, UpFacts, Zenon DEF UpInv, SyncInv, Mutex
<1> QED
    BY <1>1, <1>2, <1>3, <1>4, <1>5, Zenon

(***************************************************************************)
(* The end of ioqueue_putchar.  It stops the kernel if a consumer sleeps,  *)
(* as it then tries to wake a producer and there is none to wake.          *)
(***************************************************************************)
LEMMA PutInv ==
    ASSUME UpInv, TryPut, ~ ioqueueFull PROVE UpInv' \/ StoppedInv'
<1>1. /\ io[current] = "put" /\ pc[current] = "idle"
      /\ PutByte(byte[current])
      /\ io' = [io EXCEPT ![current] = "idle"]
      /\ UNCHANGED <<syncVars, byte>>
    BY Zenon DEF TryPut, IoGoto
<1>2. /\ buf' = [buf EXCEPT ![head] = byte[current]]
      /\ head' = ptr_next_pos(head)
      /\ UNCHANGED <<tail, sleeping_consumer>>
    BY <1>1, Zenon DEF PutByte
<1>3. \A t \in Thread : io'[t] = IF t = current THEN "idle" ELSE io[t]
    BY <1>1, Zenon DEF UpInv, QueueTypeOK
<1>4. ~ ioqueueEmpty'
    BY <1>2, Zenon DEF ioqueueEmpty, ioqueueFull
<1>5. UNCHANGED sleeping_producer => QueueTypeOK'
    <2>1. head' \in 0..BufSize - 1
        BY <1>2, RingFacts, Zenon DEF UpInv, QueueTypeOK
    <2>2. buf' \in [0..BufSize - 1 -> Byte \cup {NULL}]
        BY <1>1, <1>2, UpFacts, Zenon DEF UpInv, QueueTypeOK
    <2>3. io' \in [Thread -> {"idle", "put", "get"} \cup Slept]
        BY <1>1, Zenon DEF UpInv, QueueTypeOK
    <2> QED
        BY <1>1, <1>2, <1>3, <2>1, <2>2, <2>3, Zenon DEF UpInv, QueueTypeOK
<1>6. CASE sleeping_consumer = NULL
    <2>1. UNCHANGED <<threadVars, sleeping_producer>>
        BY <1>1, <1>6, Zenon DEF PutByte
    <2>2. /\ UNCHANGED <<current, intr, resume, status, ready>>
          /\ UNCHANGED <<value, waiting, holder, repeat, pc, lk, frame>>
        BY <1>1, <2>1, Zenon DEF threadVars, cpuVars, queueVars, syncVars
    <2>3. SyncInv'
        BY <1>1, <2>1, SyncStutters, Zenon DEF UpInv
    <2>4. PlaceInv'
        <3>1. repeat[QueueLock] <= 1
            BY Zenon DEF UpInv, PlaceInv
        <3> QED
            BY <1>1, <1>2, <1>3, <2>1, <2>2, <3>1, UpFacts, StayPlace, Zenon DEF Slept
    <2>5. TurnInv'
        BY <1>3, <2>2, StayTurn, UpFacts, Zenon
    <2>6. ByteInv'
        <3>1. \A t \in Consumer \cap Polling : io'[t] = "idle"
            BY <1>3, IoQueueAssumption, Zenon DEF UpInv, ByteInv
        <3> QED
            BY <1>3, <1>4, <2>2, <3>1, UpFacts, Zenon DEF ByteInv, SleepsOnBytes
    <2> QED
        BY <1>5, <2>1, <2>3, <2>4, <2>5, <2>6, Zenon DEF UpInv
<1>7. CASE sleeping_consumer # NULL
    <2>1. /\ sleeping_producer = NULL /\ sleeping_consumer \in Consumer \ Polling
          /\ status[sleeping_consumer] = "TASK_BLOCKD"
        BY <1>7, OneSleeper, Zenon
    <2>2. PanicSpin /\ sleeping_producer' = NULL
        BY <1>1, <1>7, <2>1, Zenon DEF PutByte, ioqueueWakeup
    <2>3. kernel' = "panic" /\ UNCHANGED status
        BY <2>2, Zenon DEF PanicSpin, queueVars
    <2>4. PanicsOnlyOnSleeper' /\ SleepsOnBytes'
        BY <1>2, <1>4, <1>7, <2>1, <2>2, <2>3, Zenon
           DEF PanicsOnlyOnSleeper, SleepsOnBytes
    <2>5. SleeperOK'
        <3>1. \A t \in Producer : t \in Thread /\ t # NULL
            BY IoQueueAssumption, SyncAssumption, Zenon
        <3>2. \A t \in Thread : ~ (io[t] = "putSlept" /\ status[t] = "TASK_BLOCKD")
            BY <2>1, UpFacts, Zenon DEF UpInv, PlaceInv
        <3> QED
            BY <1>3, <2>2, <2>3, <3>1, <3>2, Zenon DEF SleeperOK
    <2> QED
        BY <1>5, <2>1, <2>2, <2>3, <2>4, <2>5, Zenon DEF StoppedInv
<1> QED
    BY <1>6, <1>7, Zenon

\* The end of ioqueue_getchar: the producer that sleeps, if any, is woken.
LEMMA GetInv ==
    ASSUME UpInv, TryGet, ~ ioqueueEmpty PROVE UpInv'
<1>1. /\ io[current] = "get" /\ pc[current] = "idle" /\ GetByte
      /\ io' = [io EXCEPT ![current] = "idle"]
      /\ byte' = [byte EXCEPT ![current] = buf[tail]]
      /\ UNCHANGED syncVars
    BY Zenon DEF TryGet, IoGoto
<1>2. /\ tail' = ptr_next_pos(tail)
      /\ UNCHANGED <<buf, head, sleeping_consumer>>
      /\ UNCHANGED <<value, waiting, holder, repeat, pc, lk, frame>>
    BY <1>1, Zenon DEF GetByte, syncVars
<1>3. \A t \in Thread : /\ io'[t] = IF t = current THEN "idle" ELSE io[t]
                        /\ t # current => byte'[t] = byte[t]
    BY <1>1, Zenon DEF UpInv, QueueTypeOK
<1>4. current \in Consumer /\ current \notin Producer
    BY <1>1, UpFacts, IoQueueAssumption, Zenon DEF UpInv, QueueTypeOK
<1>5. ASSUME sleeping_producer' \in {sleeping_producer, NULL} PROVE QueueTypeOK'
    <2>1. tail' \in 0..BufSize - 1
        BY <1>2, RingFacts, Zenon DEF UpInv, QueueTypeOK
    <2>2. byte' \in [Thread -> Byte \cup {NULL}]
        BY <1>1, UpFacts, Zenon DEF UpInv, QueueTypeOK
    <2>3. io' \in [Thread -> {"idle", "put", "get"} \cup Slept]
        BY <1>1, Zenon DEF UpInv, QueueTypeOK
    <2> QED
        BY <1>2, <1>3, <1>5, <2>1, <2>2, <2>3, Zenon DEF UpInv, QueueTypeOK
<1>6. \A t \in Consumer \cap Polling : io'[t] = "idle"
    BY <1>3, IoQueueAssumption, Zenon DEF UpInv, ByteInv
<1>7. CASE sleeping_producer = NULL
    <2>1. UNCHANGED <<threadVars, sleeping_producer>>
        BY <1>1, <1>7, Zenon DEF GetByte
    <2>2. UNCHANGED <<current, intr, resume, status, ready>>
        BY <2>1, Zenon DEF threadVars, cpuVars, queueVars
    <2>3. SyncInv'
        BY <1>1, <2>1, SyncStutters, Zenon DEF UpInv
    <2>4. PlaceInv'
        <3>1. repeat[QueueLock] <= 1
            BY Zenon DEF UpInv, PlaceInv
        <3> QED
            BY <1>1, <1>2, <1>3, <2>1, <2>2, <3>1, UpFacts, StayPlace, Zenon DEF Slept
    <2>5. TurnInv' /\ \A t \in Thread : Pending(t)' => Pending(t)
        BY <1>2, <1>3, <2>2, StayTurn, UpFacts, Zenon
    <2>6. \A t \in Thread : Pending(t)' => io'[t] # "put"
        BY <1>3, <1>4, <2>2, <2>5, Zenon DEF UpInv, TurnInv, PlaceInv, QueueTypeOK
    <2>7. ByteInv'
        BY <1>3, <1>6, <1>7, <2>1, <2>2, <2>6, UpFacts, Zenon DEF ByteInv, SleepsOnBytes
    <2> QED
        BY <1>5, <2>1, <2>3, <2>4, <2>5, <2>7, Zenon DEF UpInv
<1>8. CASE sleeping_producer # NULL
    <2>1. sleeping_producer \in Thread
        BY <1>8, IoQueueAssumption, Zenon DEF UpInv, QueueTypeOK
    <2>2. PICK h \in Thread : h = sleeping_producer
        BY <2>1, Zenon
    <2>3. /\ UnblockThread(h) /\ sleeping_producer' = NULL
          /\ io[h] = "putSlept" /\ status[h] = "TASK_BLOCKD" /\ pc[h] = "held"
          /\ h # current
        BY <1>1, <1>8, <2>2, UpFacts, Zenon
           DEF GetByte, ioqueueWakeup, UpInv, PlaceInv, Slept
    <2>4. /\ SchedInv' /\ ready' = <<h>> \o ready
          /\ status' = [status EXCEPT ![h] = "TASK_READY"]
          /\ UNCHANGED <<cpuVars, ticksLeft, startVars>>
        <3>1. SchedInv /\ PendingReady /\ status[h] \in Blocked
            BY <2>3, CurrentFacts, Zenon DEF UpInv, SyncInv, Blocked
        <3> QED
            BY <2>3, <3>1, UnblockStep, Zenon
    <2>5. /\ UNCHANGED <<current, intr, resume>>
          /\ \A t \in Thread : status'[t] = IF t = h THEN "TASK_READY" ELSE status[t]
        BY <2>4, UpFacts, Zenon DEF cpuVars
    <2>6. SyncInv'
        <3>1. SyncInv /\ ControlInv
            BY Zenon DEF UpInv, SyncInv
        <3>2. \A x \in Thread : pc[x] = "retry" =>
                (status'[x] = "TASK_BLOCKD" <=> status[x] = "TASK_BLOCKD")
            BY <2>3, <2>5, Zenon
        <3>3. \A x \in Thread : status'[x] = "TASK_BLOCKD" => pc[x] \in {"retry", "held"}
            BY <2>5, <3>1, Zenon DEF ControlInv
        <3>4. \A x \in Thread : status'[x] \in {"TASK_RUNNING", "TASK_READY", "TASK_BLOCKD"}
            BY <2>5, <3>1, Zenon DEF ControlInv
        <3> QED
            BY <1>1, <2>4, <3>1, <3>2, <3>3, <3>4, HeldFrame, Zenon
    <2>7. \A t \in Thread : ~ Pending(t)
        <3> SUFFICES ASSUME NEW t \in Thread, Pending(t) PROVE FALSE
            OBVIOUS
        <3>1. io[t] = "putSlept" /\ t # h
            BY <1>4, <2>3, Zenon DEF UpInv, TurnInv, Pending
        <3>2. Owns(t, QueueLock) /\ Owns(h, QueueLock)
            BY <2>3, <3>1, Zenon DEF UpInv, PlaceInv, Slept, Owns, Owning
        <3> QED
            BY <3>1, <3>2, UpFacts, Zenon DEF UpInv, SyncInv, Mutex
    <2>8. TurnInv' /\ \A t \in Thread : Pending(t)' => t = h
        BY <1>1, <1>2, <1>3, <1>4, <2>3, <2>4, <2>5, <2>7, WakeTurn
    <2>9. PlaceInv'
        <3>1. repeat'[QueueLock] <= 1
            BY <1>2, Zenon DEF UpInv, PlaceInv
        <3> SUFFICES ASSUME NEW t \in Thread
                     PROVE  /\ pc'[t] # "idle" => lk'[t] = QueueLock /\ io'[t] # "idle"
                            /\ io'[t] \in Slept => pc'[t] = "held"
                            /\ t \in Consumer => pc'[t] \notin {"clearing", "up"}
                            /\ sleeping_consumer' = t <=> io'[t] = "getSlept"
                            /\ io'[t] = "getSlept" => status'[t] = "TASK_BLOCKD"
                            /\ sleeping_producer' = t <=>
                                    io'[t] = "putSlept" /\ status'[t] = "TASK_BLOCKD"
                            /\ status'[t] = "TASK_BLOCKD" =>
                                    pc'[t] = "retry" \/ io'[t] \in Slept
                            /\ pc'[t] = "retry" => frame'[t] = "INT_OFF"
            BY <3>1, Zenon DEF PlaceInv
        <3>2. CASE t = current
            BY <1>1, <1>2, <1>3, <2>3, <2>5, <3>2, UpFacts DEF UpInv, PlaceInv, Slept
        <3>3. CASE t # current
            BY <1>2, <1>3, <2>2, <2>3, <2>5, <3>3, UpFacts, ZenonT(60)
               DEF UpInv, PlaceInv, Slept
        <3> QED
            BY <3>2, <3>3, Zenon
    <2>10. ByteInv'
        BY <1>3, <1>6, <2>3, <2>5, <2>8, UpFacts, Zenon DEF ByteInv, SleepsOnBytes
    <2> QED
        BY <1>5, <2>3, <2>6, <2>8, <2>9, <2>10, Zenon DEF UpInv
<1> QED
    BY <1>7, <1>8, Zenon

\* No thread sleeps with the lock that the current thread owns.
LEMMA NoOtherSleeper ==
    ASSUME UpInv, pc[current] \in Owning
    PROVE  sleeping_producer = NULL /\ sleeping_consumer = NULL
<1>1. Owns(current, QueueLock)
    BY UpFacts, Zenon DEF UpInv, PlaceInv, Owns, Owning
<1>2. ASSUME NEW s \in Thread, s \in {sleeping_producer, sleeping_consumer} PROVE FALSE
    <2>1. Owns(s, QueueLock) /\ s # current
        BY <1>2, UpFacts, Zenon DEF UpInv, PlaceInv, Slept, Owns, Owning
    <2> QED
        BY <1>1, <2>1, UpFacts, Zenon DEF UpInv, SyncInv, Mutex
<1> QED
    BY <1>2, IoQueueAssumption, Zenon DEF UpInv, QueueTypeOK

\* ioqueueBlock: its ASSERT holds, and the caller is recorded and sleeps.
LEMMA BlockInv == ASSUME UpInv, ioqueueBlock PROVE UpInv'
<1>1. /\ io[current] \in {"put", "get"} /\ pc[current] = "held"
      /\ sleeping_producer = NULL /\ sleeping_consumer = NULL
    BY NoOtherSleeper, Zenon DEF ioqueueBlock, Owning
<1>2. /\ sleeping_producer' = IF io[current] = "put" THEN current ELSE NULL
      /\ sleeping_consumer' = IF io[current] = "put" THEN NULL ELSE current
      /\ ScheduleThread("TASK_BLOCKD", "INT_OFF")
      /\ io' = [io EXCEPT ![current] =
                    IF io[current] = "put" THEN "putSlept" ELSE "getSlept"]
      /\ UNCHANGED <<bufVars, byte, syncVars>>
    BY <1>1, Zenon DEF ioqueueBlock, BlockThread, IoGoto
<1>3. /\ UNCHANGED <<buf, head, tail, value, waiting, holder, repeat, pc, lk, frame>>
      /\ \A t \in Thread : io'[t] =
            IF t # current THEN io[t]
            ELSE IF io[current] = "put" THEN "putSlept" ELSE "getSlept"
    BY <1>2, Zenon DEF bufVars, syncVars, UpInv, QueueTypeOK
<1>4. current # Main /\ ready # <<>>
    BY <1>1, UpFacts, IoQueueAssumption, Zenon DEF UpInv, QueueTypeOK
<1>5. /\ SchedInv' /\ UNCHANGED startVars
      /\ status[current'] = "TASK_READY" /\ current' # current
      /\ status' = [x \in Thread |->
            IF x = current' THEN "TASK_RUNNING"
            ELSE IF x # current THEN status[x] ELSE "TASK_BLOCKD"]
    <2>1. "TASK_BLOCKD" \in {"TASK_RUNNING"} \cup Blocked /\ "INT_OFF" \in IntStatus
          /\ "TASK_BLOCKD" # "TASK_RUNNING" /\ SchedInv /\ PendingReady
        BY CurrentFacts, Zenon DEF Blocked, IntStatus, UpInv, SyncInv
    <2> QED
        BY <1>2, <1>4, <2>1, ScheduleStep, Zenon
<1>6. /\ \A x \in Thread :
            status'[x] = "TASK_BLOCKD" <=> status[x] = "TASK_BLOCKD" \/ x = current
      /\ \A x \in Thread : status'[x] \in {"TASK_RUNNING", "TASK_READY", "TASK_BLOCKD"}
    BY <1>5, UpFacts, Zenon DEF UpInv, SyncInv, ControlInv
<1>7. SyncInv'
    <2>1. SyncInv /\ ControlInv
        BY Zenon DEF UpInv, SyncInv
    <2>2. \A x \in Thread : pc[x] = "retry" =>
                (status'[x] = "TASK_BLOCKD" <=> status[x] = "TASK_BLOCKD")
        BY <1>1, <1>6, Zenon
    <2>3. \A x \in Thread : status'[x] = "TASK_BLOCKD" => pc[x] \in {"retry", "held"}
        BY <1>1, <1>6, <2>1, Zenon DEF ControlInv
    <2> QED
        BY <1>2, <1>5, <1>6, <2>1, <2>2, <2>3, HeldFrame, Zenon
<1>8. QueueTypeOK'
    <2>1. io' \in [Thread -> {"idle", "put", "get"} \cup Slept]
        BY <1>2, Zenon DEF UpInv, QueueTypeOK, Slept
    <2>2. io[current] = "put" => current \in Producer /\ byte[current] \in Byte
        BY UpFacts, Zenon DEF UpInv, QueueTypeOK
    <2>3. io[current] = "get" => current \in Consumer
        BY UpFacts, Zenon DEF UpInv, QueueTypeOK
    <2>4. sleeping_producer' \in Producer \cup {NULL} /\ sleeping_consumer' \in Consumer \cup {NULL}
        BY <1>1, <1>2, <2>2, <2>3, Zenon
    <2>5. \A t \in Thread :
            /\ io'[t] \in {"put", "putSlept"} => t \in Producer /\ byte[t] \in Byte
            /\ io'[t] \in {"get", "getSlept"} => t \in Consumer
        BY <1>1, <1>3, <2>2, <2>3, Zenon DEF UpInv, QueueTypeOK
    <2> QED
        BY <1>2, <1>3, <2>1, <2>4, <2>5, Zenon DEF UpInv, QueueTypeOK
<1>9. PlaceInv'
    <2>1. repeat'[QueueLock] <= 1
        BY <1>3, Zenon DEF UpInv, PlaceInv
    <2> SUFFICES ASSUME NEW t \in Thread
                 PROVE  /\ pc'[t] # "idle" => lk'[t] = QueueLock /\ io'[t] # "idle"
                        /\ io'[t] \in Slept => pc'[t] = "held"
                        /\ t \in Consumer => pc'[t] \notin {"clearing", "up"}
                        /\ sleeping_consumer' = t <=> io'[t] = "getSlept"
                        /\ io'[t] = "getSlept" => status'[t] = "TASK_BLOCKD"
                        /\ sleeping_producer' = t <=>
                                io'[t] = "putSlept" /\ status'[t] = "TASK_BLOCKD"
                        /\ status'[t] = "TASK_BLOCKD" => pc'[t] = "retry" \/ io'[t] \in Slept
                        /\ pc'[t] = "retry" => frame'[t] = "INT_OFF"
        BY <2>1, Zenon DEF PlaceInv
    <2>2. CASE t = current
        BY <1>1, <1>2, <1>3, <1>6, <2>2, UpFacts DEF UpInv, PlaceInv, Slept
    <2>3. CASE t # current
        BY <1>1, <1>2, <1>3, <1>6, <2>3, UpFacts DEF UpInv, PlaceInv, Slept
    <2> QED
        BY <2>2, <2>3, Zenon
<1>10. TurnInv' /\ ByteInv'
    <2>1. SleepsOnBytes'
        BY <1>1, <1>2, <1>3, Zenon
           DEF SleepsOnBytes, ioqueueEmpty, UpInv, ByteInv, Asked
    <2> QED
        BY <1>1, <1>2, <1>3, <1>7, <2>1, SwitchInv, Zenon
<1> QED
    BY <1>7, <1>8, <1>9, <1>10, Zenon DEF UpInv

\* A producer that was woken gives the lock back and returns to its loop.
LEMMA WokenInv == ASSUME UpInv, Woken PROVE UpInv'
<1>1. /\ io[current] \in Slept /\ sys_lock_unlock(QueueLock) /\ pc[current] = "held"
      /\ io' = [io EXCEPT ![current] = IF io[current] = "putSlept" THEN "put" ELSE "get"]
      /\ UNCHANGED <<bufVars, sleepVars, byte>>
    BY Zenon DEF Woken, IoGoto, Slept, sys_lock_unlock
<1>2. io[current] = "putSlept" /\ current \in Producer /\ current \notin Consumer
    BY <1>1, UpFacts, IoQueueAssumption, Zenon DEF Slept, UpInv, PlaceInv, QueueTypeOK
<1>3. SyncInv' /\ kernel' = "up"
    <2>1. SyncInv'
        BY <1>1, UpFacts, OwnerStepInv, Zenon DEF UpInv
    <2> QED
        BY <2>1, Zenon DEF SyncInv, SchedInv
<1>4. repeat[QueueLock] \in Nat /\ repeat[QueueLock] <= 1
    BY UpFacts, SyncAssumption DEF UpInv, PlaceInv, SyncInv, SyncTypeOK
<1>5. /\ repeat' = [repeat EXCEPT ![QueueLock] = @ - 1]
      /\ pc' = [pc EXCEPT ![current] = "clearing"]
      /\ UNCHANGED <<threadVars, value, waiting, holder, lk, frame>>
    BY <1>1, <1>3, <1>4 DEF sys_lock_unlock, PanicSpin, Goto
<1>6. /\ UNCHANGED <<current, intr, resume, status, ready>>
      /\ UNCHANGED <<buf, head, tail, sleeping_producer, sleeping_consumer>>
      /\ \A t \in Thread : /\ io'[t] = IF t = current THEN "put" ELSE io[t]
                           /\ pc'[t] = IF t = current THEN "clearing" ELSE pc[t]
    BY <1>1, <1>2, <1>5, UpFacts, Zenon
    DEF threadVars, cpuVars, queueVars, bufVars, sleepVars, UpInv, QueueTypeOK
<1>7. QueueTypeOK'
    <2>1. io' \in [Thread -> {"idle", "put", "get"} \cup Slept]
        BY <1>1, <1>2, Zenon DEF UpInv, QueueTypeOK
    <2> QED
        BY <1>1, <1>2, <1>6, <2>1, Zenon DEF UpInv, QueueTypeOK
<1>8. PlaceInv'
    <2>1. repeat'[QueueLock] <= 1
        BY <1>4, <1>5, UpFacts DEF UpInv, SyncInv, SyncTypeOK
    <2>2. lk[current] = QueueLock
        BY <1>1, Zenon DEF sys_lock_unlock
    <2> QED
        BY <1>2, <1>5, <1>6, <2>1, <2>2, StayPlace, UpFacts, Zenon DEF Slept
<1>9. \A t \in Thread : ~ Pending(t)
    <2> SUFFICES ASSUME NEW t \in Thread, Pending(t) PROVE FALSE
        OBVIOUS
    <2> QED
        BY <1>2, <1>1, Zenon DEF UpInv, TurnInv
<1>10. TurnInv' /\ ByteInv'
    <2>1. intr = "INT_OFF"
        BY <1>2, Zenon DEF UpInv, TurnInv
    <2>2. \A t \in Thread : ~ Pending(t)'
        BY <1>6, <1>9, Zenon DEF Pending
    <2>3. TurnInv'
        BY <1>6, <2>1, <2>2, Zenon DEF UpInv, TurnInv
    <2>4. \A t \in Consumer \cap Polling : io'[t] = "idle"
        BY <1>2, <1>6, IoQueueAssumption, Zenon DEF UpInv, ByteInv
    <2>5. SleepsOnBytes'
        BY <1>6, Zenon DEF UpInv, ByteInv, SleepsOnBytes, ioqueueEmpty
    <2> QED
        BY <1>6, <2>2, <2>3, <2>4, <2>5, UpFacts, Zenon DEF ByteInv, Asked
<1> QED
    BY <1>3, <1>7, <1>8, <1>10, Zenon DEF UpInv

-----------------------------------------------------------------------------
(***************************************************************************)
(* The steps of the lock that a caller takes before it sleeps keep the     *)
(* invariant as well.                                                      *)
(***************************************************************************)
\* Inside sys_lock_lock and sys_lock_unlock a thread is in a call, with
\* interrupts off, and not one that looked first.
LEMMA InCall ==
    ASSUME UpInv, pc[current] # "idle"
    PROVE  /\ io[current] # "idle" /\ lk[current] = QueueLock /\ intr = "INT_OFF"
           /\ current # Main /\ ready # <<>>
           /\ \A t \in Consumer \cap Polling : io[t] = "idle"
<1>1. io[current] # "idle" /\ lk[current] = QueueLock /\ intr = "INT_OFF"
    BY UpFacts, Zenon DEF UpInv, PlaceInv, TurnInv
<1>2. current \in Producer \cup Consumer
    BY <1>1, UpFacts, Zenon DEF UpInv, QueueTypeOK, Slept
<1>3. current # Main /\ ready # <<>>
    BY <1>2, UpFacts, IoQueueAssumption, Zenon
<1> QED
    BY <1>1, <1>3, Zenon DEF UpInv, ByteInv

\* SemaphoreDown while the lock is taken: the thread sleeps.
LEMMA LockSleepInv ==
    ASSUME UpInv, SemaphoreDown(QueueLock), UNCHANGED queueStateVars, value[QueueLock] = 0
    PROVE  UpInv'
<1>1. /\ pc[current] \in {"down", "retry"}
      /\ frame' = [frame EXCEPT ![current] = OldInt]
      /\ pc' = [pc EXCEPT ![current] = "retry"]
      /\ ScheduleThread("TASK_BLOCKD", "INT_OFF")
      /\ UNCHANGED <<value, holder, repeat, lk>>
    BY CurrentFacts, UpFacts, Zenon DEF SemaphoreDown, Sleeps, BlockThread, Goto, UpInv
<1>2. /\ io[current] # "idle" /\ lk[current] = QueueLock /\ intr = "INT_OFF"
      /\ ready # <<>>
    BY <1>1, InCall, Zenon
<1>3. SyncInv'
    BY <1>2, UpFacts, SleepInv, Zenon DEF UpInv
<1>4. /\ UNCHANGED <<buf, head, tail, sleeping_producer, sleeping_consumer, io, byte>>
      /\ \A t \in Thread : pc'[t] = IF t = current THEN "retry" ELSE pc[t]
    BY <1>1, UpFacts, Zenon DEF queueStateVars, bufVars, sleepVars, callVars
<1>5. \A t \in Thread : frame'[t] = IF t = current THEN "INT_OFF" ELSE frame[t]
    BY <1>1, <1>2, UpFacts, Zenon DEF OldInt, UpInv, PlaceInv
<1>6. \A x \in Thread :
        status'[x] = "TASK_BLOCKD" <=> status[x] = "TASK_BLOCKD" \/ x = current
    <2>1. "TASK_BLOCKD" \in {"TASK_RUNNING"} \cup Blocked /\ "INT_OFF" \in IntStatus
          /\ "TASK_BLOCKD" # "TASK_RUNNING" /\ SchedInv /\ PendingReady
        BY CurrentFacts, Zenon DEF Blocked, IntStatus, UpInv, SyncInv
    <2>2. /\ status[current'] = "TASK_READY" /\ current' # current
          /\ status' = [x \in Thread |->
                IF x = current' THEN "TASK_RUNNING"
                ELSE IF x # current THEN status[x] ELSE "TASK_BLOCKD"]
        BY <1>1, <1>2, <2>1, ScheduleStep, Zenon
    <2> QED
        BY <2>2, Zenon
<1>7. QueueTypeOK'
    BY <1>4, Zenon DEF UpInv, QueueTypeOK
<1>8. io[current] \in {"put", "get"}
    <2>1. io[current] \notin Slept
        BY <1>1, UpFacts, Zenon DEF UpInv, PlaceInv
    <2> QED
        BY <1>2, <2>1, UpFacts, Zenon DEF UpInv, QueueTypeOK
<1>9. PlaceInv'
    <2>1. repeat'[QueueLock] <= 1
        BY <1>1, Zenon DEF UpInv, PlaceInv
    <2> SUFFICES ASSUME NEW t \in Thread
                 PROVE  /\ pc'[t] # "idle" => lk'[t] = QueueLock /\ io'[t] # "idle"
                        /\ io'[t] \in Slept => pc'[t] = "held"
                        /\ t \in Consumer => pc'[t] \notin {"clearing", "up"}
                        /\ sleeping_consumer' = t <=> io'[t] = "getSlept"
                        /\ io'[t] = "getSlept" => status'[t] = "TASK_BLOCKD"
                        /\ sleeping_producer' = t <=>
                                io'[t] = "putSlept" /\ status'[t] = "TASK_BLOCKD"
                        /\ status'[t] = "TASK_BLOCKD" => pc'[t] = "retry" \/ io'[t] \in Slept
                        /\ pc'[t] = "retry" => frame'[t] = "INT_OFF"
        BY <2>1, Zenon DEF PlaceInv
    <2>2. CASE t = current
        BY <1>1, <1>2, <1>4, <1>5, <1>8, <2>2, UpFacts, Zenon DEF UpInv, PlaceInv, Slept
    <2>3. CASE t # current
        BY <1>1, <1>4, <1>5, <1>6, <2>3 DEF UpInv, PlaceInv
    <2> QED
        BY <2>2, <2>3, Zenon
<1>10. TurnInv' /\ ByteInv'
    <2>1. SleepsOnBytes'
        BY <1>4, Zenon DEF SleepsOnBytes, ioqueueEmpty, UpInv, ByteInv
    <2> QED
        BY <1>1, <1>2, <1>3, <1>4, <2>1, SwitchInv, Zenon
<1> QED
    BY <1>3, <1>7, <1>9, <1>10, Zenon DEF UpInv

\* The steps of a lock call that neither sleep nor wake.
LEMMA LockStayInv ==
    ASSUME UpInv, SyncInv', UNCHANGED queueStateVars, UNCHANGED <<current, status, ready, resume, lk>>,
           pc[current] # "idle", io[current] \in Slept => pc'[current] = "held",
           NEW to \in {"acquired", "counting", "held", "up"},
           pc' = [pc EXCEPT ![current] = to],
           pc[current] \in Asked <=> to \in Asked,
           \A t \in Thread : t # current => frame'[t] = frame[t],
           intr' = "INT_OFF", repeat'[QueueLock] <= 1
    PROVE  UpInv'
<1>1. /\ io[current] # "idle" /\ lk[current] = QueueLock
      /\ \A t \in Consumer \cap Polling : io[t] = "idle"
    BY InCall, Zenon
<1>2. /\ UNCHANGED <<buf, head, tail, sleeping_producer, sleeping_consumer, io, byte>>
      /\ \A t \in Thread : pc'[t] = IF t = current THEN to ELSE pc[t]
    BY UpFacts, Zenon DEF queueStateVars, bufVars, sleepVars, callVars
<1>3. QueueTypeOK'
    BY <1>2, Zenon DEF UpInv, QueueTypeOK
<1>4. PlaceInv'
    <2>1. current \in Consumer => to \notin {"clearing", "up"}
        BY UpFacts, Zenon DEF UpInv, PlaceInv, Asked, PC, Owning
    <2> QED
        BY <1>1, <1>2, <2>1, StayPlace, UpFacts, Zenon
<1>5. TurnInv' /\ \A t \in Thread : Pending(t)' => Pending(t)
    BY <1>2, StayTurn, UpFacts, Zenon DEF Waking, Asked
<1>6. ByteInv'
    <2>1. SleepsOnBytes' /\ ioqueueEmpty' = ioqueueEmpty
        BY <1>2, Zenon DEF UpInv, ByteInv, SleepsOnBytes, ioqueueEmpty
    <2>2. io'[current'] = "put" /\ pc'[current'] \in Asked => ~ ioqueueEmpty
        BY <1>2, UpFacts, Zenon DEF UpInv, ByteInv
    <2>3. \A t \in Thread : Pending(t)' /\ io'[t] = "put" => ~ ioqueueEmpty
        BY <1>2, <1>5, Zenon DEF UpInv, ByteInv
    <2> QED
        BY <1>1, <1>2, <2>1, <2>2, <2>3, Zenon DEF ByteInv
<1> QED
    BY <1>3, <1>4, <1>5, <1>6, Zenon DEF UpInv

\* SemaphoreDown that finds the lock free, and the rest of sys_lock_lock and
\* sys_lock_unlock up to SemaphoreUp.
LEMMA LockCallInv ==
    ASSUME UpInv, UNCHANGED queueStateVars,
           \/ SemaphoreDown(QueueLock) /\ value[QueueLock] # 0
           \/ SetHolder(QueueLock) \/ SetRepeat(QueueLock) \/ ClearHolder(QueueLock)
    PROVE  UpInv'
<1>1. QueueLock \in Lock /\ SyncInv /\ repeat[QueueLock] <= 1
    BY UpFacts, Zenon DEF UpInv, PlaceInv
<1>2. pc[current] # "idle" /\ pc[current] # "held"
    BY Zenon DEF SemaphoreDown, SetHolder, SetRepeat, ClearHolder
<1>3. intr = "INT_OFF" /\ io[current] \notin Slept
    BY <1>2, InCall, UpFacts, Zenon DEF UpInv, PlaceInv
<1>4. CASE SemaphoreDown(QueueLock) /\ value[QueueLock] # 0
    <2>1. SyncInv'
        BY <1>1, <1>4, TakeInv, Zenon
    <2>2. /\ pc[current] \in {"down", "retry"}
          /\ frame' = [frame EXCEPT ![current] = "INT_ON"]
          /\ intr' = OldInt
          /\ pc' = [pc EXCEPT ![current] = "acquired"]
          /\ UNCHANGED <<current, resume, queueVars, repeat, lk>>
        BY <1>4, Zenon DEF SemaphoreDown, Sleeps, Goto
    <2>3. OldInt = "INT_OFF"
        BY <1>3, UpFacts, Zenon DEF OldInt, UpInv, PlaceInv
    <2>4. UNCHANGED <<status, ready>> /\ \A t \in Thread : t # current => frame'[t] = frame[t]
        BY <2>2, UpFacts, Zenon DEF queueVars
    <2>5. pc[current] \in Asked /\ "acquired" \in Asked
        BY <2>2, Zenon DEF Asked
    <2> QED
        BY <1>1, <1>2, <1>3, <2>1, <2>2, <2>3, <2>4, <2>5, LockStayInv, Zenon
<1>5. CASE SetHolder(QueueLock)
    <2>1. SyncInv'
        BY <1>1, <1>5, OwnerStepInv, Zenon
    <2>2. /\ pc[current] = "acquired" /\ pc' = [pc EXCEPT ![current] = "counting"]
          /\ UNCHANGED <<threadVars, repeat, lk, frame>>
        BY <1>5, Zenon DEF SetHolder, Goto
    <2>3. UNCHANGED <<current, resume, status, ready, intr>>
        BY <2>2, Zenon DEF threadVars, cpuVars, queueVars
    <2>4. pc[current] \in Asked /\ "counting" \in Asked
        BY <2>2, Zenon DEF Asked
    <2> QED
        BY <1>1, <1>2, <1>3, <2>1, <2>2, <2>3, <2>4, LockStayInv, Zenon
<1>6. CASE SetRepeat(QueueLock)
    <2>1. SyncInv' /\ kernel' = "up"
        <3>1. SyncInv'
            BY <1>1, <1>6, OwnerStepInv, Zenon
        <3> QED
            BY <3>1, Zenon DEF SyncInv, SchedInv
    <2>2. /\ pc[current] = "counting" /\ pc' = [pc EXCEPT ![current] = "held"]
          /\ repeat' = [repeat EXCEPT ![QueueLock] = 1]
          /\ UNCHANGED <<threadVars, lk, frame>>
        BY <1>6, <2>1, Zenon DEF SetRepeat, Goto, PanicSpin
    <2>3. UNCHANGED <<current, resume, status, ready, intr>> /\ repeat'[QueueLock] <= 1
        BY <1>1, <2>2 DEF threadVars, cpuVars, queueVars, SyncInv, SyncTypeOK
    <2>4. pc[current] \in Asked /\ "held" \in Asked
        BY <2>2, Zenon DEF Asked
    <2> QED
        BY <1>1, <1>2, <1>3, <2>1, <2>2, <2>3, <2>4, LockStayInv, Zenon
<1>7. CASE ClearHolder(QueueLock)
    <2>1. SyncInv'
        BY <1>1, <1>7, OwnerStepInv, Zenon
    <2>2. /\ pc[current] = "clearing" /\ pc' = [pc EXCEPT ![current] = "up"]
          /\ UNCHANGED <<threadVars, repeat, lk, frame>>
        BY <1>7, Zenon DEF ClearHolder, Goto
    <2>3. UNCHANGED <<current, resume, status, ready, intr>>
        BY <2>2, Zenon DEF threadVars, cpuVars, queueVars
    <2>4. pc[current] \notin Asked /\ "up" \notin Asked
        BY <2>2, Zenon DEF Asked
    <2> QED
        BY <1>1, <1>2, <1>3, <2>1, <2>2, <2>3, <2>4, LockStayInv, Zenon
<1> QED
    BY <1>4, <1>5, <1>6, <1>7, Zenon

\* SemaphoreUp of a producer: the first thread that waits for the lock is woken.
LEMMA LockUpInv ==
    ASSUME UpInv, SemaphoreUp(QueueLock), UNCHANGED queueStateVars PROVE UpInv'
<1>1. /\ pc[current] = "up" /\ lk[current] = QueueLock /\ WakeFirst(QueueLock)
      /\ pc' = [pc EXCEPT ![current] = "idle"] /\ lk' = [lk EXCEPT ![current] = NULL]
      /\ UNCHANGED <<repeat, frame>>
    BY Zenon DEF SemaphoreUp, Goto
<1>2. /\ io[current] = "put" /\ current \in Producer /\ intr = "INT_OFF"
      /\ \A t \in Consumer \cap Polling : io[t] = "idle"
    <2>1. io[current] \notin Slept /\ current \notin Consumer
        BY <1>1, UpFacts, Zenon DEF UpInv, PlaceInv
    <2> QED
        BY <1>1, <2>1, InCall, UpFacts, Zenon DEF UpInv, QueueTypeOK
<1>3. SyncInv'
    BY UpFacts, SemaphoreUpInv, Zenon DEF UpInv
<1>4. /\ UNCHANGED <<buf, head, tail, sleeping_producer, sleeping_consumer, io, byte>>
      /\ \A t \in Thread : /\ pc'[t] = IF t = current THEN "idle" ELSE pc[t]
                           /\ lk'[t] = IF t = current THEN NULL ELSE lk[t]
    BY <1>1, UpFacts, Zenon DEF queueStateVars, bufVars, sleepVars, callVars
<1>5. \A t \in Thread : ~ Pending(t)
    BY <1>1, <1>2, IoQueueAssumption, Zenon DEF UpInv, TurnInv, Waking
<1>6. QueueTypeOK'
    BY <1>4, Zenon DEF UpInv, QueueTypeOK
<1>7. SleepsOnBytes' /\ repeat'[QueueLock] <= 1
    BY <1>1, <1>4, Zenon DEF UpInv, ByteInv, PlaceInv, SleepsOnBytes, ioqueueEmpty
<1>8. CASE waiting[QueueLock] = <<>>
    <2>1. UNCHANGED <<current, intr, resume, status, ready>>
        BY <1>1, <1>8, Zenon DEF WakeFirst, threadVars, cpuVars, queueVars
    <2>2. TurnInv' /\ \A t \in Thread : ~ Pending(t)'
        BY <1>2, <1>4, <1>5, <2>1, Zenon DEF UpInv, TurnInv, Pending
    <2>3. PlaceInv'
        BY <1>1, <1>2, <1>4, <1>7, <2>1, StayPlace, UpFacts, Zenon DEF Slept
    <2>4. ByteInv'
        BY <1>2, <1>4, <1>7, <2>1, <2>2, UpFacts, Zenon DEF ByteInv, Asked
    <2> QED
        BY <1>3, <1>6, <2>2, <2>3, <2>4, Zenon DEF UpInv
<1>9. CASE waiting[QueueLock] # <<>>
    <2>1. waiting[QueueLock] \in Seq(Thread)
        BY UpFacts, Zenon DEF UpInv, SyncInv, SyncTypeOK
    <2>2. Head(waiting[QueueLock]) \in Thread
          /\ Head(waiting[QueueLock]) \in Range(waiting[QueueLock])
        BY <1>9, <2>1, PopFacts, Zenon
    <2>3. PICK h \in Thread : h = Head(waiting[QueueLock])
        BY <2>2, Zenon
    <2>4. /\ UnblockThread(h) /\ status[h] = "TASK_BLOCKD" /\ pc[h] = "retry"
          /\ h # current /\ io[h] # "idle" /\ io[h] \notin Slept
        BY <1>1, <1>9, <2>2, <2>3, UpFacts, ZenonT(30)
        DEF WakeFirst, UpInv, PlaceInv, SyncInv, SleepersListed
    <2>5. /\ ready' = <<h>> \o ready
          /\ status' = [status EXCEPT ![h] = "TASK_READY"]
          /\ UNCHANGED cpuVars
        <3>1. SchedInv /\ PendingReady /\ status[h] \in Blocked
            BY <2>4, CurrentFacts, Zenon DEF UpInv, SyncInv, Blocked
        <3> QED
            BY <2>4, <3>1, UnblockStep, Zenon
    <2>6. /\ UNCHANGED <<current, intr, resume>>
          /\ \A t \in Thread : status'[t] = IF t = h THEN "TASK_READY" ELSE status[t]
        BY <2>5, UpFacts, Zenon DEF cpuVars
    <2>7. TurnInv' /\ \A t \in Thread : Pending(t)' => t = h
        BY <1>2, <1>4, <1>5, <2>4, <2>5, <2>6, WakeTurn, UpFacts, Zenon DEF Waking
    <2>8. PlaceInv'
        <3> SUFFICES ASSUME NEW t \in Thread
                     PROVE  /\ pc'[t] # "idle" => lk'[t] = QueueLock /\ io'[t] # "idle"
                            /\ io'[t] \in Slept => pc'[t] = "held"
                            /\ t \in Consumer => pc'[t] \notin {"clearing", "up"}
                            /\ sleeping_consumer' = t <=> io'[t] = "getSlept"
                            /\ io'[t] = "getSlept" => status'[t] = "TASK_BLOCKD"
                            /\ sleeping_producer' = t <=>
                                    io'[t] = "putSlept" /\ status'[t] = "TASK_BLOCKD"
                            /\ status'[t] = "TASK_BLOCKD" =>
                                    pc'[t] = "retry" \/ io'[t] \in Slept
                            /\ pc'[t] = "retry" => frame'[t] = "INT_OFF"
            BY <1>7, Zenon DEF PlaceInv
        <3>1. CASE t = current
            BY <1>1, <1>2, <1>4, <2>4, <2>6, <3>1, UpFacts, Zenon
               DEF UpInv, PlaceInv, Slept
        <3>2. CASE t # current
            BY <1>1, <1>4, <2>4, <2>6, <3>2, UpFacts DEF UpInv, PlaceInv, Slept
        <3> QED
            BY <3>1, <3>2, Zenon
    <2>9. ByteInv'
        BY <1>2, <1>4, <1>7, <2>6, <2>7, UpFacts, Zenon DEF ByteInv, Asked
    <2> QED
        BY <1>3, <1>6, <2>7, <2>8, <2>9, Zenon DEF UpInv
<1> QED
    BY <1>8, <1>9, Zenon

-----------------------------------------------------------------------------
\* The empty queue, nobody in a call.
LEMMA IoInitInv == IoInit => UpInv
<1> SUFFICES ASSUME IoInit PROVE UpInv
    OBVIOUS
<1>1. SyncInv /\ SyncInit
    BY SyncInitInv, Zenon DEF IoInit
<1>2. /\ buf = [i \in 0..BufSize - 1 |-> NULL] /\ head = 0 /\ tail = 0
      /\ sleeping_producer = NULL /\ sleeping_consumer = NULL
      /\ io = [t \in Thread |-> "idle"] /\ byte = [t \in Thread |-> NULL]
    BY Zenon DEF IoInit, ioqueueInit
<1>3. /\ repeat = [l \in Lock |-> 0] /\ pc = [t \in Thread |-> "idle"]
      /\ \A t \in Thread : status[t] # "TASK_BLOCKD"
    BY <1>1, Zenon DEF SyncInit, InitThreads
<1>4. QueueTypeOK
    BY <1>2, IoQueueAssumption DEF QueueTypeOK
<1>5. PlaceInv
    BY <1>2, <1>3, IoQueueAssumption, SyncAssumption DEF PlaceInv, Slept
<1>6. TurnInv /\ ByteInv
    BY <1>1, <1>2, CurrentFacts, IoQueueAssumption, Zenon
       DEF TurnInv, ByteInv, Pending, SleepsOnBytes
<1> QED
    BY <1>1, <1>4, <1>5, <1>6, Zenon DEF UpInv

\* One step per action of the queue, while the kernel is up.
LEMMA UpNextInv == UpInv /\ [IoNext]_ioVars => UpInv' \/ StoppedInv'
<1>0. SUFFICES ASSUME UpInv, [IoNext]_ioVars PROVE UpInv' \/ StoppedInv'
    OBVIOUS
<1>1. CASE IoTick
    BY <1>0, <1>1, IoTickInv, Zenon
<1>2. ASSUME NEW stat \in IntStatus, IoCallerInt(stat) PROVE UpInv'
    BY <1>0, <1>2, IoCallerIntInv, Zenon
<1>3. CASE (\E b \in Byte : CallPut(b)) \/ CallGet
    BY <1>0, <1>3, CallInv, Zenon
<1>4. CASE TryPut
    <2>1. CASE ioqueueFull
        BY <1>0, <1>4, <2>1, AskInv, Zenon DEF TryPut
    <2>2. CASE ~ ioqueueFull
        BY <1>0, <1>4, <2>2, PutInv, Zenon
    <2> QED
        BY <2>1, <2>2, Zenon
<1>5. CASE TryGet
    <2>1. CASE ioqueueEmpty
        BY <1>0, <1>5, <2>1, AskInv, Zenon DEF TryGet
    <2>2. CASE ~ ioqueueEmpty
        BY <1>0, <1>5, <2>2, GetInv, Zenon
    <2> QED
        BY <2>1, <2>2, Zenon
<1>6. CASE ioqueueBlock
    BY <1>0, <1>6, BlockInv, Zenon
<1>7. CASE Woken
    BY <1>0, <1>7, WokenInv, Zenon
<1>8. CASE IoLockStep
    BY <1>0, <1>8, LockSleepInv, LockCallInv, LockUpInv, Zenon DEF IoLockStep, LockStep
<1>9. CASE UNCHANGED ioVars
    <2>1. /\ UNCHANGED <<buf, head, tail, sleeping_producer, sleeping_consumer, io, byte>>
          /\ UNCHANGED <<threadVars, syncVars>>
          /\ UNCHANGED <<current, intr, resume, status, ready, repeat, pc, lk, frame>>
        BY <1>9, Zenon DEF ioVars, vars, queueStateVars, bufVars, sleepVars, callVars,
                    threadVars, cpuVars, queueVars, syncVars
    <2>2. SyncInv'
        BY <1>0, <2>1, SyncStutters, Zenon DEF UpInv
    <2> QED
        BY <1>0, <2>1, <2>2, ZenonT(60)
        DEF UpInv, QueueTypeOK, PlaceInv, TurnInv, ByteInv, Pending, SleepsOnBytes, ioqueueEmpty
<1> QED
    BY <1>0, <1>1, <1>2, <1>3, <1>4, <1>5, <1>6, <1>7, <1>8, <1>9, Zenon
       DEF IoNext, IoCall

\* PanicSpin is the end.
LEMMA StoppedNextInv == StoppedInv /\ [IoNext]_ioVars => StoppedInv'
<1>0. SUFFICES ASSUME StoppedInv, [IoNext]_ioVars PROVE StoppedInv'
    OBVIOUS
<1>1. ~ IoNext
    BY <1>0, Zenon
    DEF StoppedInv, IoNext, IoTick, Tick, IntTimerHandler, IoCallerInt, CallerInt, SetIntStatus,
        CallPut, CallGet, IoCall, TryPut, TryGet, ioqueueBlock, Woken, sys_lock_unlock,
        IoLockStep, LockStep, SemaphoreDown, SetHolder, SetRepeat, ClearHolder, SemaphoreUp
<1>2. /\ UNCHANGED <<buf, head, tail, sleeping_producer, sleeping_consumer, io, byte>>
      /\ UNCHANGED <<kernel, status, holder>>
    BY <1>0, <1>1, Zenon DEF ioVars, vars, queueStateVars, bufVars, sleepVars, callVars,
                      threadVars, cpuVars, queueVars, syncVars
<1> QED
    BY <1>0, <1>2, Zenon
    DEF StoppedInv, QueueTypeOK, SleeperOK, SleepsOnBytes, PanicsOnlyOnSleeper, ioqueueEmpty

\* The inductive invariant holds in every state of the queue's callers.
LEMMA IoInvariant == IoSpec => []IoInv
<1>1. IoInit => IoInv
    BY IoInitInv, Zenon DEF IoInv
<1>2. IoInv /\ [IoNext]_ioVars => IoInv'
    BY UpNextInv, StoppedNextInv, Zenon DEF IoInv
<1> QED
    BY <1>1, <1>2, PTL DEF IoSpec

\* The record of the sleeping producer follows from the invariant.
LEMMA UpSleepers == UpInv => SleeperOK /\ SleepsOnBytes /\ PanicsOnlyOnSleeper
<1> SUFFICES ASSUME UpInv PROVE SleeperOK /\ SleepsOnBytes /\ PanicsOnlyOnSleeper
    OBVIOUS
<1>1. SleepsOnBytes
    BY Zenon DEF UpInv, ByteInv
<1>2. PanicsOnlyOnSleeper
    BY OneSleeper, UpFacts, Zenon DEF PanicsOnlyOnSleeper
<1>3. SleeperOK
    <2> SUFFICES ASSUME NEW t \in Producer
                 PROVE  /\ sleeping_producer = t <=> io[t] = "putSlept" /\ status[t] = "TASK_BLOCKD"
                        /\ sleeping_producer = t => holder[QueueLock] = t
        BY Zenon DEF SleeperOK
    <2>1. t \in Thread
        BY IoQueueAssumption, Zenon
    <2>2. sleeping_producer = t => pc[t] = "held" /\ lk[t] = QueueLock
        BY <2>1, Zenon DEF UpInv, PlaceInv, Slept
    <2> QED
        BY <2>1, <2>2, UpFacts, Zenon DEF UpInv, PlaceInv, SyncInv, LockInv
<1> QED
    BY <1>1, <1>2, <1>3, Zenon

(***************************************************************************)
(* ioqueue_getchar misses no sleeping producer and wakes no thread that is *)
(* not asleep, for any number of producers and consumers: the field says   *)
(* who sleeps, and who sleeps holds the lock.                              *)
(***************************************************************************)
THEOREM SleepersRecorded == IoSpec => []SleeperOK
<1>1. IoInv => SleeperOK
    BY UpSleepers, Zenon DEF IoInv, StoppedInv
<1> QED
    BY <1>1, IoInvariant, PTL

(***************************************************************************)
(* No producer sleeps on an empty queue, although it goes to sleep on a    *)
(* test made before it had the lock: while it waited, the thread that gave *)
(* it the lock has put a byte, and no consumer has run since.              *)
(***************************************************************************)
THEOREM SleepersHaveBytes == IoSpec => []SleepsOnBytes
<1>1. IoInv => SleepsOnBytes
    BY UpSleepers, Zenon DEF IoInv, StoppedInv
<1> QED
    BY <1>1, IoInvariant, PTL

(***************************************************************************)
(* The only way in which the queue stops the kernel is a byte put while a  *)
(* consumer sleeps (ioqueue.c:87 wakes the wrong thread), and only a       *)
(* consumer that does not look before it takes ever sleeps.                *)
(***************************************************************************)
THEOREM PanicsExplained == IoSpec => []PanicsOnlyOnSleeper
<1>1. IoInv => PanicsOnlyOnSleeper
    BY UpSleepers, Zenon DEF IoInv, StoppedInv
<1> QED
    BY <1>1, IoInvariant, PTL

-----------------------------------------------------------------------------
\* Positions wrap around at most once.
LEMMA WrapsOnce ==
    ASSUME NEW a \in 0..2 * BufSize - 1
    PROVE  a % BufSize = IF a < BufSize THEN a ELSE a - BufSize
<1>1. BufSize \in Nat /\ BufSize >= 2
    BY IoQueueAssumption
<1>2. CASE a < BufSize
    <2>1. a \in 0..BufSize - 1
        BY <1>1, <1>2
    <2> QED
        BY <1>1, <1>2, <2>1
<1>3. CASE a >= BufSize
    <2>1. PICK b \in 0..BufSize - 1 : b = a - BufSize
        BY <1>1, <1>3
    <2>2. (b + BufSize) % BufSize = b
        BY <1>1
    <2> QED
        BY <1>1, <1>3, <2>1, <2>2
<1> QED
    BY <1>1, <1>2, <1>3

\* How many bytes are in the queue, and where the i-th of them is.
Used == (head + BufSize - tail) % BufSize

LEMMA ContentFacts ==
    QueueTypeOK =>
        /\ Used = IF head >= tail THEN head - tail ELSE head + BufSize - tail
        /\ Used \in 0..BufSize - 1
        /\ Content \in Seq(Byte \cup {NULL}) /\ Len(Content) = Used
        /\ \A i \in 1..Used :
             Content[i] = buf[IF tail + i - 1 < BufSize THEN tail + i - 1
                              ELSE tail + i - 1 - BufSize]
<1> SUFFICES ASSUME QueueTypeOK
             PROVE  /\ Used = IF head >= tail THEN head - tail ELSE head + BufSize - tail
                    /\ Used \in 0..BufSize - 1
                    /\ Content \in Seq(Byte \cup {NULL}) /\ Len(Content) = Used
                    /\ \A i \in 1..Used :
                         Content[i] = buf[IF tail + i - 1 < BufSize THEN tail + i - 1
                                          ELSE tail + i - 1 - BufSize]
    OBVIOUS
<1>1. BufSize \in Nat /\ BufSize >= 2 /\ head \in 0..BufSize - 1 /\ tail \in 0..BufSize - 1
    BY IoQueueAssumption DEF QueueTypeOK
<1>2. Used = IF head >= tail THEN head - tail ELSE head + BufSize - tail
    <2>1. PICK a \in 0..2 * BufSize - 1 : a = head + BufSize - tail
        BY <1>1
    <2>2. a % BufSize = IF a < BufSize THEN a ELSE a - BufSize
        BY WrapsOnce, Zenon
    <2> QED
        BY <1>1, <2>1, <2>2 DEF Used
<1>3. Used \in 0..BufSize - 1
    BY <1>1, <1>2
<1>4. ASSUME NEW i \in 1..Used
      PROVE  /\ (tail + i - 1) % BufSize \in 0..BufSize - 1
             /\ (tail + i - 1) % BufSize =
                    IF tail + i - 1 < BufSize THEN tail + i - 1 ELSE tail + i - 1 - BufSize
    <2>1. PICK a \in 0..2 * BufSize - 1 : a = tail + i - 1
        BY <1>1, <1>3
    <2>2. a % BufSize = IF a < BufSize THEN a ELSE a - BufSize
        BY WrapsOnce, Zenon
    <2> QED
        BY <1>1, <1>3, <2>1, <2>2
<1>5. Content = [i \in 1..Used |-> buf[(tail + i - 1) % BufSize]]
    BY Zenon DEF Content, Used
<1>6. Content \in [1..Used -> Byte \cup {NULL}]
    BY <1>4, <1>5, Zenon DEF QueueTypeOK
<1>7. Content \in Seq(Byte \cup {NULL}) /\ Len(Content) = Used
    BY <1>3, <1>6
<1> QED
    BY <1>2, <1>3, <1>4, <1>5, <1>7, Zenon

\* The ring buffer after a put holds the old bytes and the new one.
LEMMA PutAppends ==
    ASSUME QueueTypeOK, QueueTypeOK', ~ ioqueueFull, NEW b \in Byte,
           buf' = [buf EXCEPT ![head] = b], head' = ptr_next_pos(head), UNCHANGED tail
    PROVE  Len(Content) < BufSize - 1 /\ Content' = Append(Content, b)
<1>1. BufSize \in Nat /\ BufSize >= 2 /\ head \in 0..BufSize - 1 /\ tail \in 0..BufSize - 1
    BY IoQueueAssumption DEF QueueTypeOK
<1>2. /\ Used = IF head >= tail THEN head - tail ELSE head + BufSize - tail
      /\ Content \in Seq(Byte \cup {NULL}) /\ Len(Content) = Used /\ Used \in 0..BufSize - 1
      /\ \A i \in 1..Used :
           Content[i] = buf[IF tail + i - 1 < BufSize THEN tail + i - 1
                            ELSE tail + i - 1 - BufSize]
    BY ContentFacts, Zenon
<1>3. (QueueTypeOK =>
        /\ Used = IF head >= tail THEN head - tail ELSE head + BufSize - tail
        /\ Used \in 0..BufSize - 1
        /\ Content \in Seq(Byte \cup {NULL}) /\ Len(Content) = Used
        /\ \A i \in 1..Used :
             Content[i] = buf[IF tail + i - 1 < BufSize THEN tail + i - 1
                              ELSE tail + i - 1 - BufSize])'
    BY ContentFacts, PTL
<1>4. head' = IF head + 1 = BufSize THEN 0 ELSE head + 1
    <2>1. PICK a \in 0..2 * BufSize - 1 : a = head + 1
        BY <1>1
    <2>2. a % BufSize = IF a < BufSize THEN a ELSE a - BufSize
        BY WrapsOnce, Zenon
    <2> QED
        BY <1>1, <2>1, <2>2 DEF ptr_next_pos
<1>5. head' # tail
    BY Zenon DEF ioqueueFull
<1>6. Used' = Used + 1 /\ Used < BufSize - 1
    BY <1>1, <1>2, <1>3, <1>4, <1>5
<1>7. ASSUME NEW i \in 1..Used PROVE Content'[i] = Content[i]
    <2> DEFINE j == IF tail + i - 1 < BufSize THEN tail + i - 1 ELSE tail + i - 1 - BufSize
    <2>1. /\ Used \in 0..BufSize - 1
          /\ Used = IF head >= tail THEN head - tail ELSE head + BufSize - tail
        BY <1>2, Zenon
    <2>2. j \in 0..BufSize - 1 /\ j # head
        BY <1>1, <2>1
    <2>3. i \in 1..Used'
        BY <1>6, <2>1
    <2>4. Content[i] = buf[j] /\ Content'[i] = buf'[j]
        BY <1>2, <1>3, <2>3, Zenon
    <2> QED
        BY <2>2, <2>4, Zenon DEF QueueTypeOK
<1>8. Content'[Used + 1] = b
    <2>1. (IF tail + (Used + 1) - 1 < BufSize THEN tail + (Used + 1) - 1
           ELSE tail + (Used + 1) - 1 - BufSize) = head
        BY <1>1, <1>2
    <2>2. Used + 1 \in 1..Used'
        BY <1>2, <1>6
    <2>3. Content'[Used + 1] = buf'[head]
        BY <1>3, <2>1, <2>2, Zenon
    <2> QED
        BY <2>3, Zenon DEF QueueTypeOK
<1>9. /\ Append(Content, b) \in Seq(Byte \cup {NULL}) /\ Len(Append(Content, b)) = Used + 1
      /\ Append(Content, b)[Used + 1] = b
      /\ \A i \in 1..Used : Append(Content, b)[i] = Content[i]
    <2>1. b \in Byte \cup {NULL}
        OBVIOUS
    <2> QED
        BY <1>2, <2>1
<1>10. Content' \in Seq(Byte \cup {NULL}) /\ Len(Content') = Used + 1
    BY <1>3, <1>6, Zenon
<1>11. \A i \in 1..Used + 1 : Content'[i] = Append(Content, b)[i]
    BY <1>2, <1>7, <1>8, <1>9
<1> QED
    BY <1>2, <1>6, <1>9, <1>10, <1>11, SameSeq, Zenon

\* After a get it holds all but the oldest byte, which was at tail.
LEMMA GetPops ==
    ASSUME QueueTypeOK, QueueTypeOK', ~ ioqueueEmpty,
           tail' = ptr_next_pos(tail), UNCHANGED <<buf, head>>
    PROVE  Content # <<>> /\ Head(Content) = buf[tail] /\ Content' = Tail(Content)
<1>1. BufSize \in Nat /\ BufSize >= 2 /\ head \in 0..BufSize - 1 /\ tail \in 0..BufSize - 1
      /\ head # tail
    BY IoQueueAssumption DEF QueueTypeOK, ioqueueEmpty
<1>2. /\ Used = IF head >= tail THEN head - tail ELSE head + BufSize - tail
      /\ Content \in Seq(Byte \cup {NULL}) /\ Len(Content) = Used /\ Used \in 0..BufSize - 1
      /\ \A i \in 1..Used :
           Content[i] = buf[IF tail + i - 1 < BufSize THEN tail + i - 1
                            ELSE tail + i - 1 - BufSize]
    BY ContentFacts, Zenon
<1>3. (QueueTypeOK =>
        /\ Used = IF head >= tail THEN head - tail ELSE head + BufSize - tail
        /\ Used \in 0..BufSize - 1
        /\ Content \in Seq(Byte \cup {NULL}) /\ Len(Content) = Used
        /\ \A i \in 1..Used :
             Content[i] = buf[IF tail + i - 1 < BufSize THEN tail + i - 1
                              ELSE tail + i - 1 - BufSize])'
    BY ContentFacts, PTL
<1>4. tail' = IF tail + 1 = BufSize THEN 0 ELSE tail + 1
    <2>1. PICK a \in 0..2 * BufSize - 1 : a = tail + 1
        BY <1>1
    <2>2. a % BufSize = IF a < BufSize THEN a ELSE a - BufSize
        BY WrapsOnce, Zenon
    <2> QED
        BY <1>1, <2>1, <2>2 DEF ptr_next_pos
<1>5. Used >= 1 /\ Used' = Used - 1
    BY <1>1, <1>2, <1>3, <1>4
<1>6. Content # <<>> /\ Head(Content) = Content[1] /\ Content[1] = buf[tail]
    <2>1. Content # <<>> /\ Head(Content) = Content[1]
        BY <1>2, <1>5
    <2>2. (IF tail + 1 - 1 < BufSize THEN tail + 1 - 1 ELSE tail + 1 - 1 - BufSize) = tail
        BY <1>1
    <2>3. 1 \in 1..Used
        BY <1>2, <1>5
    <2> QED
        BY <1>2, <2>1, <2>2, <2>3, Zenon
<1>7. ASSUME NEW i \in 1..Used - 1 PROVE Content'[i] = Content[i + 1]
    <2>1. Used \in 0..BufSize - 1
        BY <1>2, Zenon
    <2>2. (IF tail' + i - 1 < BufSize THEN tail' + i - 1 ELSE tail' + i - 1 - BufSize) =
          IF tail + (i + 1) - 1 < BufSize THEN tail + (i + 1) - 1
          ELSE tail + (i + 1) - 1 - BufSize
        BY <1>1, <1>4, <2>1
    <2>3. i \in 1..Used' /\ i + 1 \in 1..Used
        BY <1>5, <2>1
    <2>4. Content[i + 1] = buf[IF tail + (i + 1) - 1 < BufSize THEN tail + (i + 1) - 1
                               ELSE tail + (i + 1) - 1 - BufSize]
        BY <1>2, <2>3, Zenon
    <2>5. Content'[i] = buf'[IF tail' + i - 1 < BufSize THEN tail' + i - 1
                             ELSE tail' + i - 1 - BufSize]
        BY <1>3, <2>3, Zenon
    <2> QED
        BY <1>2, <1>3, <2>2, <2>4, <2>5, Zenon
<1>8. /\ Tail(Content) \in Seq(Byte \cup {NULL}) /\ Len(Tail(Content)) = Used - 1
      /\ \A i \in 1..Used - 1 : Tail(Content)[i] = Content[i + 1]
    BY <1>2, <1>6
<1>9. Content' \in Seq(Byte \cup {NULL}) /\ Len(Content') = Used - 1
    BY <1>3, <1>5, Zenon
<1> QED
    BY <1>6, <1>7, <1>8, <1>9, SameSeq, Zenon

\* One step per action: a byte put, a byte taken out, everything else is
\* invisible.
LEMMA QueueRefines ==
    IoInv /\ IoInv' /\ [IoNext]_ioVars
        => [Queue!QueueNext]_<<Content, [c \in Consumer |-> byte[c]]>>
<1> DEFINE outs == [c \in Consumer |-> byte[c]]
<1>0. SUFFICES ASSUME IoInv, IoInv', [IoNext]_ioVars
               PROVE  [Queue!QueueNext]_<<Content, outs>>
    OBVIOUS
<1>1. QueueTypeOK /\ QueueTypeOK' /\ Consumer \subseteq Thread /\ Producer \cap Consumer = {}
    BY <1>0, IoQueueAssumption, Zenon DEF IoInv, UpInv, StoppedInv
<1>2. ASSUME UNCHANGED bufVars, \A c \in Consumer : byte'[c] = byte[c]
      PROVE  UNCHANGED <<Content, outs>>
    BY <1>2, Zenon DEF bufVars, Content
<1>3. ASSUME UNCHANGED queueStateVars PROVE UNCHANGED <<Content, outs>>
    BY <1>2, <1>3, Zenon DEF queueStateVars, bufVars, callVars
<1>4. kernel = "up" => UpInv /\ current \in Thread
    BY <1>0, UpFacts, Zenon DEF IoInv, StoppedInv
<1>5. ASSUME NEW b \in Byte, CallPut(b) PROVE UNCHANGED <<Content, outs>>
    <2>1. \A c \in Consumer : byte'[c] = byte[c]
        BY <1>1, <1>5, Zenon DEF CallPut, QueueTypeOK
    <2> QED
        BY <1>2, <1>5, <2>1, Zenon DEF CallPut
<1>6. CASE CallGet \/ ioqueueBlock \/ Woken
    BY <1>2, <1>3, <1>6, Zenon DEF CallGet, ioqueueBlock, Woken
<1>7. CASE TryPut
    <2>1. CASE ioqueueFull
        BY <1>3, <1>7, <2>1, Zenon DEF TryPut
    <2>2. CASE ~ ioqueueFull
        <3>1. /\ io[current] = "put" /\ kernel = "up"
              /\ buf' = [buf EXCEPT ![head] = byte[current]]
              /\ head' = ptr_next_pos(head) /\ UNCHANGED <<tail, byte>>
            BY <1>7, <2>2, Zenon DEF TryPut, PutByte
        <3>2. PICK b \in Byte : b = byte[current]
            BY <1>1, <1>4, <3>1, Zenon DEF QueueTypeOK
        <3>3. Len(Content) < BufSize - 1 /\ Content' = Append(Content, b)
            BY <1>1, <2>2, <3>1, <3>2, PutAppends, Zenon
        <3>4. outs' = outs
            BY <3>1, Zenon
        <3> QED
            BY <3>3, <3>4, Zenon DEF Queue!QueueNext, Queue!Put
    <2> QED
        BY <2>1, <2>2, Zenon
<1>8. CASE TryGet
    <2>1. CASE ioqueueEmpty
        BY <1>3, <1>8, <2>1, Zenon DEF TryGet
    <2>2. CASE ~ ioqueueEmpty
        <3>1. /\ io[current] = "get" /\ kernel = "up"
              /\ byte' = [byte EXCEPT ![current] = buf[tail]]
              /\ tail' = ptr_next_pos(tail) /\ UNCHANGED <<buf, head>>
            BY <1>8, <2>2, Zenon DEF TryGet, GetByte
        <3>2. PICK c \in Consumer : c = current
            BY <1>1, <1>4, <3>1, Zenon DEF QueueTypeOK
        <3>3. Content # <<>> /\ Head(Content) = buf[tail] /\ Content' = Tail(Content)
            BY <1>1, <2>2, <3>1, GetPops, Zenon
        <3>4. outs' = [outs EXCEPT ![c] = buf[tail]]
            BY <1>1, <3>1, <3>2, Zenon DEF QueueTypeOK
        <3> QED
            BY <3>3, <3>4, Zenon DEF Queue!QueueNext, Queue!Get
    <2> QED
        BY <2>1, <2>2, Zenon
<1>9. CASE \/ IoTick \/ (\E stat \in IntStatus : IoCallerInt(stat)) \/ IoLockStep
           \/ UNCHANGED ioVars
    BY <1>3, <1>9, Zenon DEF IoTick, IoCallerInt, IoLockStep, ioVars
<1> QED
    BY <1>0, <1>5, <1>6, <1>7, <1>8, <1>9, Zenon DEF IoNext, IoCall

(***************************************************************************)
(* The ring buffer of ioqueue.c is a FIFO queue of bufsize - 1 characters: *)
(* for every buffer size, no byte is lost, duplicated, made up or          *)
(* reordered, whoever sleeps and wakes in between.                         *)
(***************************************************************************)
THEOREM RingImplements == IoSpec => ImplementsQueue
<1>1. IoInit => Queue!QueueInit
    <2> SUFFICES ASSUME IoInit PROVE Queue!QueueInit
        OBVIOUS
    <2>1. head = 0 /\ tail = 0 /\ byte = [t \in Thread |-> NULL] /\ QueueTypeOK
        BY IoInitInv, Zenon DEF IoInit, ioqueueInit, UpInv
    <2>2. Content \in Seq(Byte \cup {NULL}) /\ Len(Content) = 0
        BY <2>1, ContentFacts
    <2>3. Content = <<>>
        BY <2>2
    <2>4. \A c \in Consumer : byte[c] = NULL
        BY <2>1, IoQueueAssumption, Zenon
    <2> QED
        BY <2>3, <2>4, Zenon DEF Queue!QueueInit
<1> QED
    BY <1>1, QueueRefines, IoInvariant, PTL DEF IoSpec, ImplementsQueue, Queue!QueueSpec
=============================================================================
