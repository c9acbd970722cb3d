------------------------------- MODULE Thread -------------------------------
(***************************************************************************)
(* The thread scheduler (source/thread/thread.c, switch.S), the timer      *)
(* interrupt that drives it (source/device/timer.c) and the two pieces of  *)
(* processor state it reloads on a switch (source/userprog/process.c).     *)
(*                                                                         *)
(* There is one processor.  Code runs atomically while the interrupt flag  *)
(* is off; while it is on, the timer interrupt may strike between any two  *)
(* steps.  switch_to does not save eflags: what interrupt status a thread  *)
(* has when it is resumed is decided by the code it returns into, and is   *)
(* recorded in resume.                                                     *)
(***************************************************************************)
EXTENDS Naturals, Sequences, Functions

CONSTANTS
    Thread,     \* the threads that ever exist, named by their PCB page
    Main,       \* the thread that boots the kernel (main_thread)
    Created,    \* the other threads, in the order in which Main starts them
    Process,    \* the threads that have a page directory of their own
    Priority    \* PCB.priority of each thread

ASSUME ThreadAssumption ==
    /\ Main \in Thread
    /\ Created \in Seq(Thread \ {Main})
    /\ IsInjective(Created)
    /\ Range(Created) = Thread \ {Main}
    /\ Process \subseteq Thread \ {Main}
    /\ Priority \in [Thread -> 0..255]
    /\ {"none", "tail", "NULL"} \cap Thread = {}

VARIABLES
    kernel,     \* "up", or "panic" once PanicSpin is entered
    intr,       \* the interrupt flag
    current,    \* the thread whose stack esp points into
    status,     \* PCB.status; "NONE" before InitThread
    ready,      \* ready_thread_list, front first
    all,        \* all_thread_list
    ticksLeft,  \* PCB.cpu_ticks_left
    resume,     \* interrupt status of a thread once switch_to returns to it
    cr3,        \* whose page directory is loaded
    esp0,       \* whose kernel stack tss.esp0 points to
    started,    \* how many threads of Created have been started
    starting,   \* how far the ThreadStart in progress is
    walk        \* elem in its elem_find: a thread by its tag, the "tail" of the
                \* ready list, or "NULL"; "none" before the loop

cpuVars == <<kernel, intr, current, resume, cr3, esp0>>
queueVars == <<status, ready, ticksLeft>>
startVars == <<all, started, starting, walk>>
threadVars == <<cpuVars, queueVars, startVars>>

IntStatus == {"INT_ON", "INT_OFF"}
Blocked == {"TASK_BLOCKD", "TASK_WAITING", "TASK_HANGING"}
TaskStatus == {"NONE", "TASK_RUNNING", "TASK_READY"} \cup Blocked

\* The thread whose page directory a thread runs on: its own, or the kernel's
\* at 0x100000, which goes by the name of Main.
PDE(t) == IF t \in Process THEN t ELSE Main

\* The types of the scheduler's state; cpu_ticks_left never passes below zero
\* (it is unsigned, and IntTimerHandler tests it before counting down).
ThreadTypeOK ==
    /\ kernel \in {"up", "panic"}
    /\ intr \in IntStatus
    /\ current \in Thread
    /\ status \in [Thread -> TaskStatus]
    /\ ready \in Seq(Thread)
    /\ all \in Seq(Thread)
    /\ ticksLeft \in [Thread -> 0..255]
    /\ resume \in [Thread -> IntStatus]
    /\ cr3 \in Thread
    /\ esp0 \in Thread
    /\ started \in 0..Len(Created)
    /\ starting \in {"no", "inited", "queued"}
    /\ walk \in Thread \cup {"none", "tail", "NULL"}

(***************************************************************************)
(* The state once Main has started the first n threads of Created.         *)
(***************************************************************************)
InitThreads(n) ==
    LET first == SubSeq(Created, 1, n) IN
    /\ kernel = "up"
    /\ intr = "INT_OFF"
    /\ current = Main
    /\ status = [t \in Thread |-> IF t = Main THEN "TASK_RUNNING"
                                  ELSE IF t \in Range(first) THEN "TASK_READY"
                                  ELSE "NONE"]
    /\ ready = first
    /\ all = <<Main>> \o first
    /\ ticksLeft = [t \in Thread |-> IF status[t] = "NONE" THEN 0 ELSE Priority[t]]
    /\ resume = [t \in Thread |-> "INT_ON"]
    /\ cr3 = Main
    /\ esp0 = Main
    /\ started = n
    /\ starting = "no"
    /\ walk = "none"

-----------------------------------------------------------------------------
\* A failed ASSERT: interrupts go off and the processor spins forever.
PanicSpin ==
    /\ kernel' = "panic"
    /\ intr' = "INT_OFF"
    /\ UNCHANGED <<current, resume, cr3, esp0, queueVars, startVars>>

\* Mutant: the page directory is reloaded only for a process.
ActiveProcess_Lazy(next) ==
    /\ cr3' = IF next \in Process THEN next ELSE cr3
    /\ esp0' = IF next \in Process THEN next ELSE esp0

ActiveProcess(next) ==
    /\ cr3' = PDE(next)
    /\ esp0' = IF next \in Process THEN next ELSE esp0

\* Mutant: a thread that blocks is left on the ready list.
Requeue_Always(stat) == Append(ready, current)

\* The ready list from which the next thread is popped: a thread that is still
\* running goes to its tail first.
Requeue(stat) ==
    IF stat = "TASK_RUNNING" THEN Append(ready, current) ELSE ready

\* Mutant: a thread that blocks gets a new quantum as well.
Refill_Always(stat) == [ticksLeft EXCEPT ![current] = Priority[current]]

\* Only a thread that used up its quantum gets a new one.
Refill(stat) ==
    IF stat = "TASK_RUNNING" THEN [ticksLeft EXCEPT ![current] = Priority[current]]
    ELSE ticksLeft

(***************************************************************************)
(* ScheduleThread, entered by the current thread with status stat; saved   *)
(* is the interrupt status it will have when it is resumed.                *)
(***************************************************************************)
ScheduleThread(stat, saved) ==
    LET preempted == stat = "TASK_RUNNING"
        queue == Requeue(stat)
        next == Head(queue)
    IN  IF (preempted /\ current \in Range(ready)) \/ queue = <<>>
        THEN PanicSpin
        ELSE /\ ready' = Tail(queue)
             /\ status' = [status EXCEPT
                    ![current] = IF preempted THEN "TASK_READY" ELSE stat,
                    ![next] = "TASK_RUNNING"]
             /\ ticksLeft' = Refill(stat)
             /\ ActiveProcess(next)
             /\ current' = next
             /\ resume' = [resume EXCEPT ![current] = saved]
             /\ intr' = IF next = current THEN saved ELSE resume[next]
             /\ UNCHANGED <<kernel, startVars>>

\* The timer interrupt: the current thread pays one tick, or gives way.
IntTimerHandler ==
    /\ kernel = "up"
    /\ intr = "INT_ON"
    /\ IF ticksLeft[current] = 0
       THEN ScheduleThread("TASK_RUNNING", "INT_ON")
       ELSE /\ ticksLeft' = [ticksLeft EXCEPT ![current] = @ - 1]
            /\ UNCHANGED <<cpuVars, status, ready, startVars>>

\* The current thread blocks itself; old is the status SetIntStatus restores.
BlockThread(stat, old) == ScheduleThread(stat, old)

\* Mutant: the status is left as it was.
UnblockThread_NoStatus(t) ==
    IF status[t] \in Blocked /\ t \notin Range(ready)
    THEN /\ ready' = <<t>> \o ready
         /\ UNCHANGED <<cpuVars, status, ticksLeft, startVars>>
    ELSE PanicSpin

\* Mutant: the thread goes to the tail of the ready list.
UnblockThread_Tail(t) ==
    IF status[t] \in Blocked /\ t \notin Range(ready)
    THEN /\ ready' = Append(ready, t)
         /\ status' = [status EXCEPT ![t] = "TASK_READY"]
         /\ UNCHANGED <<cpuVars, ticksLeft, startVars>>
    ELSE PanicSpin

\* A blocked thread goes to the front of the ready list.
UnblockThread(t) ==
    IF status[t] \in Blocked /\ t \notin Range(ready)
    THEN /\ ready' = <<t>> \o ready
         /\ status' = [status EXCEPT ![t] = "TASK_READY"]
         /\ UNCHANGED <<cpuVars, ticksLeft, startVars>>
    ELSE PanicSpin

\* EnableInt, DisableInt and SetIntStatus, called by the current thread.
SetIntStatus(stat) ==
    /\ kernel = "up"
    /\ intr # stat
    /\ intr' = stat
    /\ UNCHANGED <<kernel, current, resume, cr3, esp0, queueVars, startVars>>

-----------------------------------------------------------------------------
(***************************************************************************)
(* ThreadStart and ExecProcess, which Main calls once for each thread of   *)
(* Created.  Interrupts may be on, so InitThread, every round of the loop  *)
(* of elem_find and the two list_append calls are separate steps.          *)
(***************************************************************************)
New == Created[started + 1]

InitThread ==
    /\ kernel = "up"
    /\ current = Main /\ starting = "no" /\ started < Len(Created)
    /\ status' = [status EXCEPT ![New] = "TASK_READY"]
    /\ ticksLeft' = [ticksLeft EXCEPT ![New] = Priority[New]]
    /\ resume' = [resume EXCEPT ![New] = "INT_ON"]
    /\ starting' = "inited"
    /\ UNCHANGED <<kernel, intr, current, cr3, esp0, ready, all, started, walk>>

\* What elem->next may be in elem_find.  On the ready list it is the tag behind
\* elem.  The tag of a thread that has left the list keeps the pointer it had
\* there, or is on the waiting list of a semaphore, behind whose end is NULL
\* (List has the pointers; whose tags they lead to depends on the callers).
NextOf(elem) ==
    IF elem \in Range(ready)
    THEN {IF i = Len(ready) THEN "tail" ELSE ready[i + 1] :
            i \in {j \in DOMAIN ready : ready[j] = elem}}
    ELSE {Main, "tail"} \cup Range(SubSeq(Created, 1, started))
            \cup {null \in {"NULL"} : status[elem] = "TASK_BLOCKD"}

\* One round of elem_find(&ready_thread_list, ..) in ThreadStart.  It fails the
\* ASSERT of the loop on NULL, and that of ThreadStart when the tag is found.
elem_find ==
    /\ kernel = "up"
    /\ current = Main /\ starting = "inited" /\ walk # "tail"
    /\ IF walk \in {New, "NULL"}
       THEN PanicSpin
       ELSE /\ walk' \in IF walk # "none" THEN NextOf(walk)
                         ELSE {IF ready = <<>> THEN "tail" ELSE Head(ready)}
            /\ UNCHANGED <<cpuVars, queueVars, all, started, starting>>

AppendReady ==
    /\ kernel = "up"
    /\ current = Main /\ starting = "inited" /\ walk = "tail"
    /\ ready' = Append(ready, New)
    /\ starting' = "queued"
    /\ walk' = "none"
    /\ UNCHANGED <<cpuVars, status, ticksLeft, all, started>>

\* Nothing but this step changes all_thread_list, and only Main takes it: the
\* elem_find before it sees the same list however often it is preempted.
AppendAll ==
    /\ kernel = "up"
    /\ current = Main /\ starting = "queued"
    /\ IF New \in Range(all)
       THEN PanicSpin
       ELSE /\ all' = Append(all, New)
            /\ started' = started + 1
            /\ starting' = "no"
            /\ UNCHANGED <<cpuVars, queueVars, walk>>

(***************************************************************************)
(* The scheduler under any callers.  Main, which ends in while(1), never   *)
(* blocks; any other thread may block itself with either interrupt status, *)
(* and any running thread may unblock a blocked one.                       *)
(***************************************************************************)
Block(stat) ==
    /\ kernel = "up"
    /\ current # Main
    /\ BlockThread(stat, intr)

Unblock(t) ==
    /\ kernel = "up"
    /\ status[t] \in Blocked
    /\ UnblockThread(t)

ThreadInit == InitThreads(0)

ThreadNext ==
    \/ IntTimerHandler
    \/ InitThread
    \/ elem_find
    \/ AppendReady
    \/ AppendAll
    \/ \E stat \in Blocked : Block(stat)
    \/ \E t \in Thread : Unblock(t)
    \/ \E stat \in IntStatus : SetIntStatus(stat)

(***************************************************************************)
(* Fairness.  The 8259A latches a timer interrupt that arrives while the   *)
(* flag is off, so a timer that keeps ticking gets through if the flag is  *)
(* on again and again; and every critical section ends by restoring the    *)
(* interrupt status it found.                                              *)
(***************************************************************************)
ThreadSpec ==
    /\ ThreadInit /\ [][ThreadNext]_threadVars
    /\ SF_threadVars(IntTimerHandler)
    /\ WF_threadVars(SetIntStatus("INT_ON"))

-----------------------------------------------------------------------------
\* The threads that are on the ready list by the bookkeeping of the PCBs: a
\* thread is READY from InitThread on, but listed only after AppendReady.
Queued ==
    {t \in Thread : /\ status[t] = "TASK_READY"
                    /\ ~ (starting = "inited" /\ t = Created[started + 1])}

(***************************************************************************)
(* The PCBs and the ready list agree: the current thread is the only one   *)
(* that is RUNNING, and the list holds every other runnable thread exactly *)
(* once (thread.c keeps this only through the order of its assignments).   *)
(***************************************************************************)
ReadyListOK ==
    /\ \A t \in Thread : status[t] = "TASK_RUNNING" <=> t = current
    /\ IsInjective(ready)
    /\ Range(ready) = Queued

\* No ASSERT fails, neither of ScheduleThread, UnblockThread and ThreadStart nor
\* of the elem_find they call; there is always a thread to switch to although
\* the kernel has no idle thread.
NoPanic == kernel = "up"

(***************************************************************************)
(* The one ASSERT of the scheduler that can fail is ASSERT(elem != NULL)   *)
(* at list.c:77, in the elem_find of ThreadStart: the thread whose tag the *)
(* walk had reached was scheduled while Main was preempted, and sleeps on  *)
(* a semaphore by the time that Main goes on.  ScheduleThread and          *)
(* UnblockThread never find a thread on the ready list that they put       *)
(* there, nor does ThreadStart, and the list is never empty when a thread  *)
(* blocks.                                                                 *)
(***************************************************************************)
PanicsOnlyInWalk == NoPanic \/ (walk = "NULL" /\ starting = "inited")

(***************************************************************************)
(* ActiveProcess: the current thread runs on its own page directory, and   *)
(* an interrupt that takes a process out of user mode lands on that        *)
(* process's own kernel stack, whatever kernel threads ran in between.     *)
(***************************************************************************)
AddressSpaceOK ==
    /\ cr3 = PDE(current)
    /\ current \in Process => esp0 = current

(***************************************************************************)
(* No thread on the ready list starves, although UnblockThread puts the    *)
(* threads it wakes in front of it: BlockThread does not refill a quantum, *)
(* so threads that keep waking each other run out of ticks.  (After a      *)
(* failed ASSERT nothing runs any more.)                                   *)
(***************************************************************************)
NoStarvation ==
    \A t \in Thread : (t \in Range(ready)) ~> (current = t \/ ~ NoPanic)
=============================================================================
