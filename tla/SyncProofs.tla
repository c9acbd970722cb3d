----------------------------- MODULE SyncProofs -----------------------------
(***************************************************************************)
(* The scheduler keeps its PCBs, its ready list and the processor in step, *)
(* for any number of threads and any quanta; and the locks of sync.c       *)
(* exclude, never fail an ASSERT and lose no wakeup, for any number of     *)
(* threads and locks.                                                      *)
(***************************************************************************)
EXTENDS Sync, TLAPS

-----------------------------------------------------------------------------
\* What list_append, list_push and list_pop do to the elements of a list.

\* list_append adds one element to the set of elements, and keeps the list
\* free of duplicates if the element was not on it.
LEMMA AppendFacts ==
    ASSUME NEW S, NEW s \in Seq(S), NEW e \in S
    PROVE  /\ Append(s, e) \in Seq(S)
           /\ Append(s, e) # <<>>
           /\ Range(Append(s, e)) = Range(s) \cup {e}
           /\ IsInjective(s) /\ e \notin Range(s) => IsInjective(Append(s, e))
<1>1. Append(s, e) \in Seq(S) /\ Len(Append(s, e)) = Len(s) + 1
    OBVIOUS
<1>2. \A i \in 1..Len(s) : Append(s, e)[i] = s[i]
    OBVIOUS
<1>3. Append(s, e)[Len(s) + 1] = e
    OBVIOUS
<1>4. DOMAIN s = 1..Len(s) /\ DOMAIN Append(s, e) = 1..(Len(s) + 1) /\ Len(s) \in Nat
    OBVIOUS
<1>5. Range(Append(s, e)) = Range(s) \cup {e}
    BY <1>2, <1>3, <1>4 DEF Range
<1>6. ASSUME IsInjective(s), e \notin Range(s)
      PROVE  IsInjective(Append(s, e))
    BY <1>2, <1>3, <1>4, <1>6 DEF IsInjective, Range
<1>7. Append(s, e) # <<>>
    <2>1. Len(<<>>) = 0
        OBVIOUS
    <2> QED
        BY <1>1, <1>4, <2>1
<1> QED
    BY <1>1, <1>5, <1>6, <1>7, Zenon

\* list_pop takes the first element off a list, and only that one.
LEMMA PopFacts ==
    ASSUME NEW S, NEW s \in Seq(S), s # <<>>
    PROVE  /\ Head(s) \in S
           /\ Head(s) \in Range(s)
           /\ Tail(s) \in Seq(S)
           /\ IsInjective(s) => /\ IsInjective(Tail(s))
                                /\ Range(Tail(s)) = Range(s) \ {Head(s)}
<1>1. /\ Len(s) \in Nat /\ Len(s) > 0 /\ DOMAIN s = 1..Len(s)
      /\ Tail(s) \in Seq(S) /\ Len(Tail(s)) = Len(s) - 1
      /\ DOMAIN Tail(s) = 1..(Len(s) - 1)
    OBVIOUS
<1>2. Head(s) = s[1] /\ \A i \in 1..(Len(s) - 1) : Tail(s)[i] = s[i + 1]
    OBVIOUS
<1>3. Head(s) \in S /\ Head(s) \in Range(s)
    BY <1>1, <1>2 DEF Range
<1>4. ASSUME IsInjective(s)
      PROVE  IsInjective(Tail(s)) /\ Range(Tail(s)) = Range(s) \ {Head(s)}
    <2>1. IsInjective(Tail(s))
        BY <1>1, <1>2, <1>4 DEF IsInjective
    <2>2. ASSUME NEW x \in Range(Tail(s)) PROVE x \in Range(s) \ {Head(s)}
        <3>1. PICK i \in 1..(Len(s) - 1) : x = s[i + 1]
            BY <1>1, <1>2, <2>2, Zenon DEF Range
        <3> QED
            BY <1>1, <1>2, <1>4, <3>1 DEF Range, IsInjective
    <2>3. ASSUME NEW x \in Range(s) \ {Head(s)} PROVE x \in Range(Tail(s))
        <3>1. PICK i \in 1..Len(s) : x = s[i] /\ i # 1
            BY <1>1, <1>2, <2>3, Zenon DEF Range
        <3>2. i - 1 \in 1..(Len(s) - 1) /\ Tail(s)[i - 1] = x
            BY <1>1, <1>2, <3>1
        <3> QED
            BY <1>1, <3>2, Zenon DEF Range
    <2> QED
        BY <2>1, <2>2, <2>3, Zenon
<1> QED
    BY <1>1, <1>3, <1>4, Zenon

\* list_push is list_append at the other end.
LEMMA PushFacts ==
    ASSUME NEW S, NEW s \in Seq(S), NEW e \in S
    PROVE  /\ <<e>> \o s \in Seq(S)
           /\ <<e>> \o s # <<>>
           /\ Range(<<e>> \o s) = Range(s) \cup {e}
           /\ IsInjective(s) /\ e \notin Range(s) => IsInjective(<<e>> \o s)
<1> DEFINE c == <<e>> \o s
<1>1. /\ c \in Seq(S) /\ Len(c) = Len(s) + 1 /\ Len(s) \in Nat
      /\ DOMAIN s = 1..Len(s) /\ DOMAIN c = 1..(Len(s) + 1)
    OBVIOUS
<1>2. c[1] = e /\ \A i \in 2..(Len(s) + 1) : c[i] = s[i - 1]
    OBVIOUS
<1>3. \A i \in 1..Len(s) : c[i + 1] = s[i]
    BY <1>1, <1>2
<1> HIDE DEF c
<1>5. Range(c) = Range(s) \cup {e}
    <2>1. ASSUME NEW x \in Range(c) PROVE x \in Range(s) \cup {e}
        BY <1>1, <1>2, <2>1 DEF Range
    <2>2. ASSUME NEW x \in Range(s) PROVE x \in Range(c)
        <3>1. PICK i \in 1..Len(s) : x = s[i]
            BY <1>1, <2>2, Zenon DEF Range
        <3>2. i + 1 \in 1..(Len(s) + 1)
            BY <1>1, <3>1
        <3> QED
            BY <1>1, <1>3, <3>1, <3>2, Zenon DEF Range
    <2>3. e \in Range(c)
        BY <1>1, <1>2 DEF Range
    <2> QED
        BY <2>1, <2>2, <2>3, Zenon
<1>6. ASSUME IsInjective(s), e \notin Range(s)
      PROVE  IsInjective(c)
    <2> SUFFICES ASSUME NEW i \in 1..(Len(s) + 1), NEW j \in 1..(Len(s) + 1), c[i] = c[j]
                 PROVE  i = j
        BY <1>1, Zenon DEF IsInjective
    <2>1. \A k \in 2..(Len(s) + 1) : k - 1 \in DOMAIN s /\ c[k] = s[k - 1] /\ c[k] # e
        <3>1. ASSUME NEW k \in 2..(Len(s) + 1)
              PROVE  k - 1 \in DOMAIN s /\ c[k] = s[k - 1]
            BY <1>1, <1>2, <3>1
        <3>2. \A k \in DOMAIN s : s[k] # e
            BY <1>6, Zenon DEF Range
        <3> QED
            BY <3>1, <3>2, Zenon
    <2>2. CASE i \in 2..(Len(s) + 1) /\ j \in 2..(Len(s) + 1)
        <3>1. s[i - 1] = s[j - 1]
            BY <2>1, <2>2, Zenon
        <3>2. i - 1 = j - 1
            BY <1>6, <2>1, <2>2, <3>1, Zenon DEF IsInjective
        <3> QED
            BY <1>1, <2>2, <3>2
    <2>3. CASE i = 1 \/ j = 1
        BY <1>1, <1>2, <2>1, <2>3
    <2> QED
        BY <1>1, <2>2, <2>3
<1>7. c # <<>>
    BY <1>1
<1> QED
    BY <1>1, <1>5, <1>6, <1>7, Zenon DEF c

\* Two sequences with the same elements at the same places are the same.
LEMMA SameSeq ==
    ASSUME NEW S, NEW s \in Seq(S), NEW t \in Seq(S),
           Len(s) = Len(t), \A i \in 1..Len(s) : s[i] = t[i]
    PROVE  s = t
OBVIOUS

\* The thread that ThreadStart has initialised but not yet listed is READY.
PendingReady ==
    starting = "inited" =>
        /\ started < Len(Created)
        /\ status[Created[started + 1]] = "TASK_READY"

\* What every scheduler operation relies on and re-establishes.
SchedInv ==
    /\ ThreadTypeOK
    /\ kernel = "up"
    /\ ReadyListOK
    /\ AddressSpaceOK

\* The elements of Created are threads other than Main.
LEMMA CreatedFacts ==
    ASSUME NEW i \in 1..Len(Created)
    PROVE  Created[i] \in Thread /\ Created[i] # Main
BY ThreadAssumption

(***************************************************************************)
(* ScheduleThread does not panic and keeps SchedInv, provided there is a   *)
(* thread to switch to; the new current thread was runnable, and nobody    *)
(* but it and the old current thread changes status.                       *)
(***************************************************************************)
LEMMA ScheduleStep ==
    ASSUME SchedInv, PendingReady,
           NEW stat \in {"TASK_RUNNING"} \cup Blocked, NEW saved \in IntStatus,
           stat # "TASK_RUNNING" => ready # <<>>,
           ScheduleThread(stat, saved)
    PROVE  /\ SchedInv'
           /\ UNCHANGED startVars
           /\ current' = current \/ status[current'] = "TASK_READY"
           /\ stat # "TASK_RUNNING" => current' # current
           /\ status' = [t \in Thread |->
                IF t = current' THEN "TASK_RUNNING"
                ELSE IF t # current THEN status[t]
                ELSE IF stat = "TASK_RUNNING" THEN "TASK_READY" ELSE stat]
           /\ resume' = [resume EXCEPT ![current] = saved]
           /\ intr' = IF current' = current THEN saved ELSE resume[current']
<1> DEFINE queue == Requeue(stat)
           next == Head(queue)
<1> USE DEF SchedInv
<1>1. current \in Thread /\ ready \in Seq(Thread) /\ status \in [Thread -> TaskStatus]
    BY Zenon DEF ThreadTypeOK
<1>2. current \notin Range(ready)
    BY <1>1, Zenon DEF ReadyListOK, Queued
<1>3. /\ queue \in Seq(Thread) /\ queue # <<>> /\ IsInjective(queue)
      /\ Range(queue) = Range(ready) \cup (IF stat = "TASK_RUNNING" THEN {current} ELSE {})
    BY <1>1, <1>2, AppendFacts DEF Requeue, ReadyListOK
<1>4. /\ next \in Thread /\ next \in Range(queue)
      /\ Tail(queue) \in Seq(Thread) /\ IsInjective(Tail(queue))
      /\ Range(Tail(queue)) = Range(queue) \ {next}
    BY <1>3, PopFacts, Zenon
<1> HIDE DEF queue, next
<1>5. /\ ready' = Tail(queue)
      /\ status' = [status EXCEPT
             ![current] = IF stat = "TASK_RUNNING" THEN "TASK_READY" ELSE stat,
             ![next] = "TASK_RUNNING"]
      /\ ticksLeft' = Refill(stat)
      /\ ActiveProcess(next)
      /\ current' = next
      /\ resume' = [resume EXCEPT ![current] = saved]
      /\ intr' = IF next = current THEN saved ELSE resume[next]
      /\ UNCHANGED <<kernel, startVars>>
    BY <1>2, <1>3, Zenon DEF ScheduleThread, queue, next
<1>6. status' = [t \in Thread |->
          IF t = current' THEN "TASK_RUNNING"
          ELSE IF t # current THEN status[t]
          ELSE IF stat = "TASK_RUNNING" THEN "TASK_READY" ELSE stat]
    BY <1>1, <1>4, <1>5, Zenon
<1>7. /\ next = current \/ status[next] = "TASK_READY"
      /\ stat # "TASK_RUNNING" => next # current
    BY <1>1, <1>2, <1>3, <1>4, Zenon DEF ReadyListOK, Queued
<1>8. ThreadTypeOK'
    <2>1. status' \in [Thread -> TaskStatus]
        BY <1>1, <1>6, Zenon DEF TaskStatus, Blocked
    <2>2. ticksLeft' \in [Thread -> 0..255]
        BY <1>1, <1>5, ThreadAssumption, Zenon DEF Refill, ThreadTypeOK
    <2>3. resume' \in [Thread -> IntStatus] /\ intr' \in IntStatus
        BY <1>1, <1>4, <1>5, Zenon DEF ThreadTypeOK
    <2>4. cr3' \in Thread /\ esp0' \in Thread
        BY <1>4, <1>5, ThreadAssumption, Zenon DEF ActiveProcess, PDE, ThreadTypeOK
    <2> QED
        BY <1>4, <1>5, <2>1, <2>2, <2>3, <2>4, Zenon DEF ThreadTypeOK, startVars
<1>9. ReadyListOK'
    <2>1. \A t \in Thread : status'[t] = "TASK_RUNNING" <=> t = current'
        BY <1>1, <1>4, <1>5, <1>6, Zenon DEF ReadyListOK, Blocked
    <2>2. Range(ready') = Queued'
        <3> DEFINE pending(t) == starting = "inited" /\ t = Created[started + 1]
        <3>1. ~ pending(current)
            BY <1>1, Zenon DEF PendingReady, ReadyListOK
        <3>2. \A t \in Thread : t \in Range(ready) <=> status[t] = "TASK_READY" /\ ~ pending(t)
            BY Zenon DEF ReadyListOK, Queued
        <3>3. \A t \in Thread : t \in Range(ready') <=> status'[t] = "TASK_READY" /\ ~ pending(t)
            <4> TAKE t \in Thread
            <4>1. t \in Range(ready') <=> t \in Range(queue) /\ t # next
                BY <1>4, <1>5, Zenon
            <4>2. CASE t = next
                BY <1>5, <1>6, <4>1, <4>2, Zenon
            <4>3. CASE t = current /\ t # next
                <5>1. t \in Range(queue) <=> stat = "TASK_RUNNING"
                    BY <1>2, <1>3, <4>3, Zenon
                <5>2. status'[t] = IF stat = "TASK_RUNNING" THEN "TASK_READY" ELSE stat
                    BY <1>5, <1>6, <4>3, Zenon
                <5> QED
                    BY <3>1, <4>1, <4>3, <5>1, <5>2, Zenon DEF Blocked
            <4>4. CASE t # current /\ t # next
                BY <1>3, <1>5, <1>6, <3>2, <4>1, <4>4, Zenon
            <4> QED
                BY <4>2, <4>3, <4>4, Zenon
        <3>4. Range(ready') \subseteq Thread
            BY <1>4, <1>5 DEF Range
        <3>5. UNCHANGED <<starting, started>>
            BY <1>5, Zenon DEF startVars
        <3> QED
            BY <3>3, <3>4, <3>5, Zenon DEF Queued
    <2> QED
        BY <1>4, <1>5, <2>1, <2>2, Zenon DEF ReadyListOK
<1>10. AddressSpaceOK'
    BY <1>5, Zenon DEF AddressSpaceOK, ActiveProcess
<1> QED
    BY <1>5, <1>6, <1>7, <1>8, <1>9, <1>10, Zenon

\* The timer interrupt never panics and keeps SchedInv; it blocks and unblocks
\* nobody.
LEMMA TimerStep ==
    ASSUME SchedInv, PendingReady, IntTimerHandler
    PROVE  /\ SchedInv'
           /\ UNCHANGED startVars
           /\ \A t \in Thread :
                \/ status'[t] = status[t]
                \/ status[t] = "TASK_READY" /\ status'[t] = "TASK_RUNNING"
                \/ status[t] = "TASK_RUNNING" /\ status'[t] = "TASK_READY"
           /\ \/ UNCHANGED <<current, intr, resume>>
              \/ /\ resume' = [resume EXCEPT ![current] = "INT_ON"]
                 /\ intr' = IF current' = current THEN "INT_ON" ELSE resume[current']
<1>1. CASE ticksLeft[current] = 0
    <2>1. ScheduleThread("TASK_RUNNING", "INT_ON")
        BY <1>1, Zenon DEF IntTimerHandler
    <2>2. /\ SchedInv' /\ UNCHANGED startVars
          /\ current' = current \/ status[current'] = "TASK_READY"
          /\ status' = [t \in Thread |->
                IF t = current' THEN "TASK_RUNNING"
                ELSE IF t # current THEN status[t] ELSE "TASK_READY"]
          /\ resume' = [resume EXCEPT ![current] = "INT_ON"]
          /\ intr' = IF current' = current THEN "INT_ON" ELSE resume[current']
        BY <2>1, ScheduleStep DEF IntStatus
    <2>3. status[current] = "TASK_RUNNING"
        BY Zenon DEF SchedInv, ReadyListOK, ThreadTypeOK
    <2> QED
        BY <2>2, <2>3, Zenon
<1>2. CASE ticksLeft[current] # 0
    <2>1. /\ ticksLeft' = [ticksLeft EXCEPT ![current] = @ - 1]
          /\ UNCHANGED <<cpuVars, status, ready, startVars>>
        BY <1>2, Zenon DEF IntTimerHandler
    <2>2. ticksLeft' \in [Thread -> 0..255]
        <3>1. ticksLeft \in [Thread -> 0..255] /\ current \in Thread
            BY Zenon DEF SchedInv, ThreadTypeOK
        <3>2. ticksLeft[current] \in 0..255
            BY <3>1, Zenon
        <3>3. ticksLeft[current] - 1 \in 0..255
            BY <1>2, <3>2
        <3> QED
            BY <2>1, <3>1, <3>3, Zenon
    <2>3. UNCHANGED <<kernel, intr, current, resume, cr3, esp0, status, ready, all, started,
                      starting, walk>>
        BY <2>1, Zenon DEF cpuVars, startVars
    <2>4. ThreadTypeOK'
        BY <2>2, <2>3, Zenon DEF SchedInv, ThreadTypeOK
    <2>5. Queued' = Queued
        BY <2>3, Zenon DEF Queued
    <2>6. ReadyListOK' /\ AddressSpaceOK'
        BY <2>3, <2>5, Zenon DEF SchedInv, ReadyListOK, AddressSpaceOK
    <2> QED
        BY <2>1, <2>3, <2>4, <2>6, Zenon DEF SchedInv
<1> QED
    BY <1>1, <1>2, Zenon

\* UnblockThread of a blocked thread does not panic and keeps SchedInv.
LEMMA UnblockStep ==
    ASSUME SchedInv, PendingReady, NEW t \in Thread, status[t] \in Blocked,
           UnblockThread(t)
    PROVE  /\ SchedInv'
           /\ status' = [status EXCEPT ![t] = "TASK_READY"]
           /\ ready' = <<t>> \o ready
           /\ UNCHANGED <<cpuVars, ticksLeft, startVars>>
<1> USE DEF SchedInv
<1>1. t \notin Range(ready) /\ ready \in Seq(Thread) /\ status \in [Thread -> TaskStatus]
    BY Zenon DEF ReadyListOK, Queued, Blocked, ThreadTypeOK
<1>2. /\ ready' = <<t>> \o ready
      /\ status' = [status EXCEPT ![t] = "TASK_READY"]
      /\ UNCHANGED <<cpuVars, ticksLeft, startVars>>
    BY <1>1, Zenon DEF UnblockThread
<1>3. ready' \in Seq(Thread) /\ IsInjective(ready') /\ Range(ready') = Range(ready) \cup {t}
    BY <1>1, <1>2, PushFacts DEF ReadyListOK
<1>4. UNCHANGED <<kernel, intr, current, resume, cr3, esp0, all, started, starting, walk>>
    BY <1>2, Zenon DEF cpuVars, startVars
<1>5. ThreadTypeOK'
    <2>1. status' \in [Thread -> TaskStatus]
        BY <1>1, <1>2, Zenon DEF ThreadTypeOK, TaskStatus
    <2> QED
        BY <1>1, <1>2, <1>3, <1>4, <2>1, Zenon DEF ThreadTypeOK
<1>6. ReadyListOK'
    <2>1. ~ (starting = "inited" /\ t = Created[started + 1])
        BY Zenon DEF PendingReady, Blocked
    <2>2. Range(ready') = Queued'
        BY <1>1, <1>2, <1>3, <1>4, <2>1, Zenon DEF ReadyListOK, Queued
    <2> QED
        BY <1>1, <1>2, <1>3, <1>4, <2>2, Zenon DEF ReadyListOK, Blocked
<1> QED
    BY <1>2, <1>4, <1>5, <1>6, Zenon DEF AddressSpaceOK

-----------------------------------------------------------------------------
(***************************************************************************)
(* How far Main has got with starting threads: the threads it has not come *)
(* to have no status yet, and all_thread_list holds exactly Main and the   *)
(* threads that are done.  Main itself is always runnable.  The walk of    *)
(* elem_find never comes to the tag of the thread that is being started,   *)
(* because no list has it yet.                                             *)
(***************************************************************************)
StartInv ==
    /\ starting # "no" => started < Len(Created)
    /\ PendingReady
    /\ \A i \in 1..Len(Created) :
          i > started + 1 \/ (i = started + 1 /\ starting = "no")
              => status[Created[i]] = "NONE"
    /\ status[Main] \in {"TASK_RUNNING", "TASK_READY"}
    /\ Range(all) = {Main} \cup {Created[i] : i \in 1..started}
    /\ starting # "inited" => walk = "none"
    /\ starting = "inited" => walk # Created[started + 1]

\* The invariant of the scheduler while the kernel runs.
RunInv == SchedInv /\ StartInv

\* What is left of it once the walk has failed its ASSERT.
PanicInv ==
    /\ ThreadTypeOK /\ ReadyListOK /\ AddressSpaceOK
    /\ kernel = "panic" /\ walk = "NULL" /\ starting = "inited"

\* The inductive invariant of the scheduler.
ThreadInv == RunInv \/ PanicInv

\* The state in which Main finds the kernel satisfies the invariant.
LEMMA ThreadInitInv == ThreadInit => RunInv
<1> SUFFICES ASSUME ThreadInit PROVE RunInv
    OBVIOUS
<1>1. SubSeq(Created, 1, 0) = <<>>
    OBVIOUS
<1>2. Range(<<>>) = {} /\ <<>> \in Seq(Thread)
    BY DEF Range
<1>3. /\ kernel = "up" /\ intr = "INT_OFF" /\ current = Main
      /\ status = [t \in Thread |-> IF t = Main THEN "TASK_RUNNING" ELSE "NONE"]
      /\ ready = <<>> /\ all = <<Main>>
      /\ ticksLeft = [t \in Thread |-> IF status[t] = "NONE" THEN 0 ELSE Priority[t]]
      /\ resume = [t \in Thread |-> "INT_ON"]
      /\ cr3 = Main /\ esp0 = Main /\ started = 0 /\ starting = "no" /\ walk = "none"
    <2>1. <<Main>> \in Seq(Thread)
        BY ThreadAssumption
    <2>2. <<Main>> \o <<>> = <<Main>>
        BY <2>1
    <2>3. \A t \in Thread : t \notin Range(SubSeq(Created, 1, 0))
        BY <1>1, <1>2, Zenon
    <2> QED
        BY <1>1, <2>2, <2>3, Zenon DEF ThreadInit, InitThreads
<1>4. ThreadTypeOK
    <2>1. all \in Seq(Thread)
        BY <1>3, ThreadAssumption
    <2>2. Len(Created) \in Nat
        BY ThreadAssumption
    <2>3. ticksLeft \in [Thread -> 0..255]
        <3>1. \A t \in Thread : Priority[t] \in 0..255 /\ 0 \in 0..255
            BY ThreadAssumption
        <3> QED
            BY <1>3, <3>1, Zenon
    <2> QED
        BY <1>2, <1>3, <2>1, <2>2, <2>3, ThreadAssumption
        DEF ThreadTypeOK, TaskStatus, IntStatus
<1>5. ReadyListOK
    BY <1>2, <1>3 DEF ReadyListOK, IsInjective, Queued
<1>6. AddressSpaceOK
    BY <1>3, ThreadAssumption, Zenon DEF AddressSpaceOK, PDE
<1>7. Range(all) = {Main} \cup {Created[i] : i \in 1..started}
    <2>1. Range(<<Main>>) = {Main}
        BY DEF Range
    <2>2. 1..started = {}
        BY <1>3
    <2> QED
        BY <1>3, <2>1, <2>2, Zenon
<1>8. \A i \in 1..Len(Created) : status[Created[i]] = "NONE"
    BY <1>3, CreatedFacts, Zenon
<1> QED
    BY <1>3, <1>4, <1>5, <1>6, <1>7, <1>8, ThreadAssumption, Zenon
    DEF RunInv, SchedInv, StartInv, PendingReady

\* A step that lists no new thread keeps StartInv if it gives no status to a
\* thread without one, and leaves the thread being started and Main runnable.
LEMMA StartFrame ==
    ASSUME RunInv, UNCHANGED startVars,
           \A t \in Thread : status[t] = "NONE" => status'[t] = "NONE",
           PendingReady => PendingReady',
           status'[Main] \in {"TASK_RUNNING", "TASK_READY"}
    PROVE  StartInv'
<1>1. UNCHANGED <<all, started, starting, walk>>
    BY Zenon DEF startVars
<1>2. \A i \in 1..Len(Created) : Created[i] \in Thread
    BY CreatedFacts, Zenon
<1> QED
    BY <1>1, <1>2, Zenon DEF RunInv, StartInv

\* One step per action of the scheduler.
LEMMA ThreadNextInv == RunInv /\ [ThreadNext]_threadVars => ThreadInv'
<1> SUFFICES ASSUME RunInv, [ThreadNext]_threadVars PROVE RunInv' \/ PanicInv'
    BY Zenon DEF ThreadInv
<1>a. SchedInv /\ StartInv /\ PendingReady
    BY Zenon DEF RunInv, StartInv
<1>b. /\ ThreadTypeOK /\ kernel = "up" /\ ReadyListOK /\ AddressSpaceOK
      /\ Main \in Thread /\ status[current] = "TASK_RUNNING"
      /\ Len(Created) \in Nat /\ started \in 0..Len(Created)
    <2>1. Len(Created) \in Nat
        BY ThreadAssumption
    <2>2. ThreadTypeOK /\ kernel = "up" /\ ReadyListOK /\ AddressSpaceOK
        BY <1>a, Zenon DEF SchedInv
    <2>3. status[current] = "TASK_RUNNING" /\ started \in 0..Len(Created)
        BY <2>2, Zenon DEF ReadyListOK, ThreadTypeOK
    <2> QED
        BY <2>1, <2>2, <2>3, ThreadAssumption, Zenon
<1>1. CASE IntTimerHandler
    <2>1. /\ SchedInv' /\ UNCHANGED startVars
          /\ \A t \in Thread :
                \/ status'[t] = status[t]
                \/ status[t] = "TASK_READY" /\ status'[t] = "TASK_RUNNING"
                \/ status[t] = "TASK_RUNNING" /\ status'[t] = "TASK_READY"
        BY <1>1, <1>a, TimerStep, Zenon
    <2>2. PendingReady'
        <3> SUFFICES ASSUME starting = "inited"
                     PROVE  /\ started < Len(Created)
                            /\ status'[Created[started + 1]] = "TASK_READY"
            BY <2>1, Zenon DEF PendingReady, startVars
        <3> DEFINE x == Created[started + 1]
        <3>1. started < Len(Created) /\ x \in Thread /\ status[x] = "TASK_READY"
            BY <1>a, <1>b, CreatedFacts DEF PendingReady
        <3>2. x \notin Range(ready)
            BY <1>b, Zenon DEF ReadyListOK, Queued
        <3>3. status'[x] # "TASK_RUNNING"
            <4>1. CASE ticksLeft[current] # 0
                BY <1>1, <3>1, <4>1, Zenon DEF IntTimerHandler
            <4>2. CASE ticksLeft[current] = 0
                <5>1. current' = Head(Append(ready, current))
                    BY <1>1, <1>b, <2>1, <4>2, Zenon
                    DEF IntTimerHandler, ScheduleThread, PanicSpin, Requeue, SchedInv
                <5>2. Head(Append(ready, current)) \in Range(ready) \cup {current}
                    BY <1>b, AppendFacts, PopFacts DEF ThreadTypeOK
                <5> QED
                    BY <1>b, <2>1, <3>1, <3>2, <5>1, <5>2, Zenon DEF SchedInv, ReadyListOK
            <4> QED
                BY <4>1, <4>2, Zenon
        <3> QED
            BY <2>1, <3>1, <3>3, Zenon
    <2> QED
        BY <1>a, <2>1, <2>2, <1>b, StartFrame, Zenon DEF RunInv, StartInv
<1>2. CASE InitThread
    <2> DEFINE x == Created[started + 1]
    <2>1. /\ current = Main /\ starting = "no" /\ started < Len(Created)
          /\ status' = [status EXCEPT ![x] = "TASK_READY"]
          /\ ticksLeft' = [ticksLeft EXCEPT ![x] = Priority[x]]
          /\ resume' = [resume EXCEPT ![x] = "INT_ON"]
          /\ starting' = "inited"
          /\ UNCHANGED <<kernel, intr, current, cr3, esp0, ready, all, started, walk>>
        BY <1>2, Zenon DEF InitThread, New
    <2>2. started + 1 \in 1..Len(Created) /\ x \in Thread /\ x # Main
        BY <1>b, <2>1, CreatedFacts
    <2>3. status[x] = "NONE" /\ walk = "none" /\ walk # x
        BY <1>a, <2>1, <2>2, ThreadAssumption, Zenon DEF StartInv
    <2> HIDE DEF x
    <2>4. ThreadTypeOK'
        BY <1>b, <2>1, <2>2, ThreadAssumption, Zenon DEF ThreadTypeOK, TaskStatus, IntStatus
    <2>5. ReadyListOK'
        <3>1. Queued' = Queued
            BY <1>b, <2>1, <2>2, <2>3, Zenon DEF Queued, ThreadTypeOK, x
        <3> QED
            BY <1>b, <2>1, <2>2, <2>3, <3>1, Zenon DEF ReadyListOK, ThreadTypeOK
    <2>6. PendingReady'
        BY <1>b, <2>1, <2>2, Zenon DEF PendingReady, ThreadTypeOK, x
    <2>7. ASSUME NEW i \in 1..Len(Created), i > started + 1
          PROVE  status'[Created[i]] = "NONE"
        <3>1. Created[i] # x
            BY <2>2, <2>7, ThreadAssumption DEF IsInjective, x
        <3> QED
            BY <1>a, <1>b, <2>1, <2>7, <3>1, CreatedFacts, Zenon DEF StartInv, ThreadTypeOK
    <2>8. StartInv'
        BY <1>a, <1>b, <2>1, <2>2, <2>3, <2>6, <2>7, Zenon DEF StartInv, ThreadTypeOK, x
    <2> QED
        BY <1>b, <2>1, <2>4, <2>5, <2>8, Zenon DEF RunInv, SchedInv, AddressSpaceOK
<1>3. CASE AppendReady
    <2> DEFINE x == Created[started + 1]
    <2>1. started + 1 \in 1..Len(Created) /\ x \in Thread /\ status[x] = "TASK_READY"
        BY <1>3, <1>a, <1>b, CreatedFacts DEF AppendReady, PendingReady
    <2>2. x \notin Range(ready)
        BY <1>3, <1>b, Zenon DEF ReadyListOK, Queued, AppendReady
    <2>3. /\ starting = "inited" /\ starting' = "queued" /\ walk' = "none"
          /\ ready' = Append(ready, x)
          /\ UNCHANGED <<cpuVars, status, ticksLeft, all, started>>
        BY <1>3, <2>2, Zenon DEF AppendReady, New
    <2> HIDE DEF x
    <2>4. ready' \in Seq(Thread) /\ IsInjective(ready') /\ Range(ready') = Range(ready) \cup {x}
        BY <1>b, <2>1, <2>2, <2>3, AppendFacts DEF ThreadTypeOK, ReadyListOK
    <2>5. UNCHANGED <<kernel, intr, current, resume, cr3, esp0>>
        BY <2>3, Zenon DEF cpuVars
    <2>6. Queued' = Queued \cup {x}
        BY <2>1, <2>3, Zenon DEF Queued, x
    <2>7. ThreadTypeOK'
        BY <1>b, <2>3, <2>4, <2>5, Zenon DEF ThreadTypeOK
    <2>8. ReadyListOK' /\ AddressSpaceOK'
        BY <1>b, <2>3, <2>4, <2>5, <2>6, Zenon DEF ReadyListOK, AddressSpaceOK
    <2>9. StartInv'
        BY <1>a, <1>b, <2>1, <2>3, Zenon DEF StartInv, PendingReady
    <2> QED
        BY <1>b, <2>5, <2>7, <2>8, <2>9, Zenon DEF RunInv, SchedInv
<1>4. CASE AppendAll
    <2> DEFINE x == Created[started + 1]
    <2>1. started + 1 \in 1..Len(Created) /\ x \in Thread /\ x # Main
        BY <1>4, <1>a, <1>b, CreatedFacts DEF AppendAll, StartInv
    <2>2. x \notin Range(all)
        BY <1>a, <1>b, <2>1, ThreadAssumption DEF StartInv, IsInjective
    <2>3. /\ starting = "queued" /\ starting' = "no" /\ started' = started + 1
          /\ all' = Append(all, x)
          /\ UNCHANGED <<cpuVars, queueVars, walk>>
        BY <1>4, <2>2, Zenon DEF AppendAll, New
    <2>4. all' \in Seq(Thread) /\ Range(all') = Range(all) \cup {x}
        BY <1>b, <2>1, <2>3, AppendFacts DEF ThreadTypeOK
    <2>5. UNCHANGED <<kernel, intr, current, resume, cr3, esp0, status, ready, ticksLeft>>
        BY <2>3, Zenon DEF cpuVars, queueVars
    <2>6. Range(all') = {Main} \cup {Created[i] : i \in 1..started'}
        <3>1. 1..started' = (1..started) \cup {started + 1}
            BY <1>b, <2>3
        <3> QED
            BY <1>a, <2>4, <3>1, Zenon DEF StartInv
    <2>a. started' \in 0..Len(Created)
        BY <1>b, <2>1, <2>3
    <2>7. ThreadTypeOK'
        BY <1>b, <2>3, <2>4, <2>5, <2>a, Zenon DEF ThreadTypeOK
    <2>8. ReadyListOK' /\ AddressSpaceOK'
        BY <1>b, <2>3, <2>5, Zenon DEF ReadyListOK, Queued, AddressSpaceOK
    <2>9. StartInv'
        BY <1>a, <1>b, <2>1, <2>3, <2>5, <2>6 DEF StartInv, PendingReady
    <2> QED
        BY <1>b, <2>5, <2>7, <2>8, <2>9, Zenon DEF RunInv, SchedInv
<1>5. ASSUME NEW stat \in Blocked, Block(stat) PROVE RunInv'
    <2>1. current # Main /\ ScheduleThread(stat, intr)
        BY <1>5, Zenon DEF Block, BlockThread
    <2>2. status[Main] = "TASK_READY"
        BY <1>a, <1>b, <2>1, Zenon DEF StartInv, ReadyListOK
    <2>3. starting = "inited" => /\ Created[started + 1] \in Thread
                                 /\ Created[started + 1] # Main
        BY <1>a, <1>b, CreatedFacts DEF PendingReady
    <2>4. Main \in Range(ready)
        BY <1>b, <2>2, <2>3, Zenon DEF ReadyListOK, Queued
    <2>5. ready # <<>>
        BY <2>4 DEF Range
    <2>6. /\ SchedInv' /\ UNCHANGED startVars
          /\ status[current'] = "TASK_READY"
          /\ status' = [t \in Thread |->
                IF t = current' THEN "TASK_RUNNING"
                ELSE IF t # current THEN status[t] ELSE stat]
        <3>1. intr \in IntStatus /\ stat # "TASK_RUNNING"
            BY <1>b, <1>5, Zenon DEF ThreadTypeOK, Blocked
        <3>2. stat \in {"TASK_RUNNING"} \cup Blocked
            BY <1>5, Zenon
        <3>3. /\ SchedInv' /\ UNCHANGED startVars
              /\ current' = current \/ status[current'] = "TASK_READY"
              /\ stat # "TASK_RUNNING" => current' # current
              /\ status' = [t \in Thread |->
                    IF t = current' THEN "TASK_RUNNING"
                    ELSE IF t # current THEN status[t]
                    ELSE IF stat = "TASK_RUNNING" THEN "TASK_READY" ELSE stat]
            BY <1>a, <2>1, <2>5, <3>1, <3>2, ScheduleStep, Zenon
        <3> QED
            BY <3>1, <3>3, Zenon
    <2>7. current' \in Range(ready)
        BY <1>b, <2>1, <2>5, <2>6, PopFacts
        DEF ScheduleThread, PanicSpin, Requeue, SchedInv, ThreadTypeOK, Blocked
    <2>8. PendingReady'
        BY <1>a, <1>b, <2>3, <2>6, <2>7, Zenon DEF PendingReady, startVars, ReadyListOK, Queued
    <2> QED
        BY <1>b, <2>1, <2>2, <2>6, <2>8, StartFrame, Zenon DEF RunInv
<1>6. ASSUME NEW t \in Thread, Unblock(t) PROVE RunInv'
    <2>1. status[t] \in Blocked /\ UnblockThread(t)
        BY <1>6, Zenon DEF Unblock
    <2>2. /\ SchedInv' /\ UNCHANGED startVars
          /\ status' = [status EXCEPT ![t] = "TASK_READY"]
        BY <1>a, <2>1, UnblockStep, Zenon
    <2>3. PendingReady' /\ status'[Main] \in {"TASK_RUNNING", "TASK_READY"}
          /\ \A u \in Thread : status[u] = "NONE" => status'[u] = "NONE"
        BY <1>a, <1>b, <2>1, <2>2, CreatedFacts
        DEF PendingReady, StartInv, startVars, ThreadTypeOK, Blocked
    <2> QED
        BY <2>2, <2>3, StartFrame, Zenon DEF RunInv
<1>7. ASSUME NEW stat \in IntStatus, SetIntStatus(stat) PROVE RunInv'
    BY <1>a, <1>b, <1>7, Zenon
    DEF SetIntStatus, RunInv, SchedInv, StartInv, PendingReady, ThreadTypeOK,
        ReadyListOK, Queued, AddressSpaceOK, queueVars, startVars
<1>8. CASE UNCHANGED threadVars
    BY <1>a, <1>b, <1>8, Zenon
    DEF RunInv, SchedInv, StartInv, PendingReady, ThreadTypeOK, ReadyListOK, Queued,
        AddressSpaceOK, threadVars, cpuVars, queueVars, startVars
<1>9. CASE elem_find
    <2>1. starting = "inited" /\ walk # "tail" /\ walk # New
        BY <1>9, <1>a, Zenon DEF elem_find, StartInv, New
    <2>2. CASE walk = "NULL"
        <3>1. PanicSpin
            BY <1>9, <2>2, Zenon DEF elem_find
        <3>2. /\ kernel' = "panic" /\ intr' = "INT_OFF"
              /\ UNCHANGED <<current, resume, cr3, esp0, status, ready, ticksLeft, all, started,
                             starting, walk>>
            BY <3>1, Zenon DEF PanicSpin, queueVars, startVars
        <3> QED
            BY <1>b, <2>1, <2>2, <3>2, Zenon
            DEF PanicInv, ThreadTypeOK, IntStatus, ReadyListOK, Queued, AddressSpaceOK
    <2>3. CASE walk # "NULL"
        <3>1. /\ UNCHANGED <<cpuVars, queueVars, all, started, starting>>
              /\ walk' \in IF walk # "none" THEN NextOf(walk)
                           ELSE {IF ready = <<>> THEN "tail" ELSE Head(ready)}
            BY <1>9, <2>1, <2>3, Zenon DEF elem_find
        <3>2. UNCHANGED <<kernel, intr, current, resume, cr3, esp0, status, ready, ticksLeft, all,
                          started, starting>>
            BY <3>1, Zenon DEF cpuVars, queueVars
        <3>3. walk' \in Range(ready) \cup {Main, "tail", "NULL"}
                           \cup Range(SubSeq(Created, 1, started))
            <4>1. CASE walk = "none"
                BY <1>b, <3>1, <4>1, PopFacts DEF ThreadTypeOK
            <4>2. CASE walk # "none" /\ walk \notin Range(ready)
                BY <3>1, <4>2, Zenon DEF NextOf
            <4>3. CASE walk # "none" /\ walk \in Range(ready)
                <5>1. PICK i \in DOMAIN ready :
                          walk' = IF i = Len(ready) THEN "tail" ELSE ready[i + 1]
                    BY <3>1, <4>3, Zenon DEF NextOf
                <5>2. i # Len(ready) => i + 1 \in DOMAIN ready
                    BY <1>b DEF ThreadTypeOK
                <5> QED
                    BY <5>1, <5>2, Zenon DEF Range
            <4> QED
                BY <4>1, <4>2, <4>3, Zenon
        <3>4. /\ New \in Thread /\ New # Main
              /\ New \notin Range(ready) /\ New \notin Range(SubSeq(Created, 1, started))
              /\ Range(ready) \cup Range(SubSeq(Created, 1, started)) \subseteq Thread
            <4>1. started + 1 \in 1..Len(Created)
                BY <1>a, <1>b, <2>1 DEF PendingReady
            <4>2. New \in Thread /\ New # Main
                BY <4>1, CreatedFacts DEF New
            <4>3. New \notin Range(ready) /\ Range(ready) \subseteq Thread
                BY <1>b, <2>1, Zenon DEF ReadyListOK, Queued, New
            <4>4. \A y \in Range(SubSeq(Created, 1, started)) :
                     \E i \in 1..started : y = Created[i]
                BY <1>b, ThreadAssumption DEF Range
            <4>5. \A i \in 1..started : Created[i] \in Thread /\ Created[i] # New
                BY <1>b, <4>1, ThreadAssumption DEF IsInjective, New
            <4> QED
                BY <4>2, <4>3, <4>4, <4>5, Zenon
        <3>5. walk' # New /\ walk' \in Thread \cup {"none", "tail", "NULL"}
            BY <3>3, <3>4, ThreadAssumption, Zenon
        <3>6. StartInv'
            BY <1>a, <2>1, <3>2, <3>5, Zenon DEF StartInv, PendingReady, New
        <3> QED
            BY <1>b, <3>2, <3>5, <3>6, Zenon
            DEF RunInv, SchedInv, ThreadTypeOK, ReadyListOK, Queued, AddressSpaceOK
    <2> QED
        BY <2>2, <2>3, Zenon
<1> QED
    BY <1>1, <1>2, <1>3, <1>4, <1>5, <1>6, <1>7, <1>8, <1>9, Zenon DEF ThreadNext

\* Nothing happens after a failed ASSERT.
LEMMA PanicForever == PanicInv /\ [ThreadNext]_threadVars => ThreadInv'
<1> SUFFICES ASSUME PanicInv, [ThreadNext]_threadVars PROVE ThreadInv'
    OBVIOUS
<1>1. kernel # "up"
    BY Zenon DEF PanicInv
<1>2. UNCHANGED threadVars
    BY <1>1, Zenon
    DEF ThreadNext, IntTimerHandler, InitThread, elem_find, AppendReady, AppendAll, Block,
        Unblock, SetIntStatus
<1> QED
    BY <1>2, Zenon
    DEF ThreadInv, PanicInv, ThreadTypeOK, ReadyListOK, Queued, AddressSpaceOK, threadVars,
        cpuVars, queueVars, startVars

LEMMA ThreadInvariant == ThreadSpec => []ThreadInv
<1>1. ThreadInit => ThreadInv
    BY ThreadInitInv, Zenon DEF ThreadInv
<1>2. ThreadInv /\ [ThreadNext]_threadVars => ThreadInv'
    BY ThreadNextInv, PanicForever, Zenon DEF ThreadInv
<1> QED
    BY <1>1, <1>2, PTL DEF ThreadSpec

\* Whatever the threads do and however Main is preempted while it starts them,
\* no ASSERT of ScheduleThread, UnblockThread and ThreadStart fails but the one
\* of elem_find on a NULL element: ready_thread_list is not empty when a thread
\* blocks, and an element is never appended to a list that it is on.
THEOREM OnlyTheWalkPanics == ThreadSpec => []PanicsOnlyInWalk
<1>1. ThreadInv => PanicsOnlyInWalk
    BY Zenon DEF ThreadInv, RunInv, SchedInv, PanicInv, PanicsOnlyInWalk, NoPanic
<1> QED
    BY <1>1, ThreadInvariant, PTL

\* The ready list holds exactly the runnable threads that are not running, each
\* of them once, whatever the order in which threads are started, preempted,
\* blocked and put in front by UnblockThread.
THEOREM ReadyListCorrect == ThreadSpec => [](ThreadTypeOK /\ ReadyListOK)
<1>1. ThreadInv => ThreadTypeOK /\ ReadyListOK
    BY Zenon DEF ThreadInv, RunInv, PanicInv, SchedInv
<1> QED
    BY <1>1, ThreadInvariant, PTL

\* The processor is on the page directory of the current thread and, if that is
\* a process, has its kernel stack in the TSS: ScheduleThread calls
\* ActiveProcess on every switch.
THEOREM AddressSpaceCorrect == ThreadSpec => []AddressSpaceOK
<1>1. ThreadInv => AddressSpaceOK
    BY Zenon DEF ThreadInv, RunInv, PanicInv, SchedInv
<1> QED
    BY <1>1, ThreadInvariant, PTL

-----------------------------------------------------------------------------
(***************************************************************************)
(* The inductive invariant.  SchedInv is the scheduler's part.  The rest   *)
(* ties the program counters to the scheduler (a BLOCKD thread sleeps in   *)
(* SemaphoreDown, or in the critical section), to the semaphores (a        *)
(* semaphore is 0 exactly while a thread is past SemaphoreDown) and to the *)
(* locks (holder and repeat are set and cleared at fixed places).          *)
(*                                                                         *)
(* It leaves room for callers that block themselves while they hold a      *)
(* lock, as ioqueue.c does; the callers of Sync do not (LockSleepers).     *)
(***************************************************************************)
ControlInv ==
    /\ started = Len(Created) /\ starting = "no"
    /\ \A x \in Thread :
        /\ status[x] \in {"TASK_RUNNING", "TASK_READY", "TASK_BLOCKD"}
        /\ status[x] = "TASK_BLOCKD" => pc[x] \in {"retry", "held"}
        /\ lk[x] = NULL <=> pc[x] = "idle"

\* The waiting lists hold the threads that sleep in SemaphoreDown, once each.
SleepersListed ==
    /\ \A l \in Lock : IsInjective(waiting[l])
    /\ \A l \in Lock, x \in Thread :
        x \in Range(waiting[l]) <=> /\ status[x] = "TASK_BLOCKD" /\ pc[x] = "retry"
                                    /\ lk[x] = l

LockSleepers ==
    \A x \in Thread : status[x] = "TASK_BLOCKD" => pc[x] = "retry"

SemaphoreInv ==
    \A l \in Lock : value[l] = 0 <=> \E x \in Thread : Owns(x, l)

LockInv ==
    \A l \in Lock :
        /\ \A x \in Thread :
            holder[l] = x <=> lk[x] = l /\ pc[x] \in {"counting", "held", "clearing"}
        /\ repeat[l] > 0 <=> \E x \in Thread : lk[x] = l /\ pc[x] = "held"

SyncInv ==
    /\ SyncTypeOK
    /\ SchedInv
    /\ ControlInv
    /\ SleepersListed
    /\ SemaphoreInv
    /\ Mutex
    /\ LockInv
    /\ NoLostWakeup

-----------------------------------------------------------------------------
\* LockInit and the started threads satisfy the invariant.
LEMMA SyncInitInv == SyncInit => SyncInv
<1> SUFFICES ASSUME SyncInit PROVE SyncInv
    OBVIOUS
<1>1. /\ Created \in Seq(Thread) /\ Len(Created) \in Nat
      /\ SubSeq(Created, 1, Len(Created)) = Created
    <2>1. Created \in Seq(Thread \ {Main})
        BY ThreadAssumption, Zenon
    <2> QED
        BY <2>1
<1>2. /\ kernel = "up" /\ intr = "INT_OFF" /\ current = Main
      /\ status = [x \in Thread |-> IF x = Main THEN "TASK_RUNNING" ELSE "TASK_READY"]
      /\ ready = Created /\ all = <<Main>> \o Created
      /\ ticksLeft = [x \in Thread |-> IF status[x] = "NONE" THEN 0 ELSE Priority[x]]
      /\ resume = [x \in Thread |-> "INT_ON"]
      /\ cr3 = Main /\ esp0 = Main /\ started = Len(Created) /\ starting = "no"
      /\ walk = "none"
    BY <1>1, ThreadAssumption, Zenon DEF SyncInit, InitThreads
<1>3. ThreadTypeOK
    <2>1. all \in Seq(Thread)
        BY <1>1, <1>2, ThreadAssumption, PushFacts, Zenon
    <2>2. ticksLeft \in [Thread -> 0..255]
        BY <1>2, ThreadAssumption, Zenon
    <2> QED
        <3>1. started \in 0..Len(Created)
            BY <1>2, ThreadAssumption
        <3>2. /\ status \in [Thread -> TaskStatus] /\ resume \in [Thread -> IntStatus]
              /\ Main \in Thread /\ Created \in Seq(Thread)
            BY <1>1, <1>2, ThreadAssumption, Zenon DEF TaskStatus, IntStatus
        <3> QED
            BY <1>2, <2>1, <2>2, <3>1, <3>2, Zenon DEF ThreadTypeOK, IntStatus
<1>4. ReadyListOK /\ AddressSpaceOK
    BY <1>1, <1>2, ThreadAssumption, Zenon DEF ReadyListOK, Queued, AddressSpaceOK, PDE
<1>5. /\ value = [l \in Lock |-> 1] /\ waiting = [l \in Lock |-> <<>>]
      /\ holder = [l \in Lock |-> NULL] /\ repeat = [l \in Lock |-> 0]
      /\ pc = [x \in Thread |-> "idle"] /\ lk = [x \in Thread |-> NULL]
      /\ frame = [x \in Thread |-> "INT_ON"]
    BY Zenon DEF SyncInit
<1>6. Range(<<>>) = {} /\ IsInjective(<<>>) /\ <<>> \in Seq(Thread)
    BY DEF Range, IsInjective
<1>7. SyncTypeOK
    BY <1>3, <1>5, <1>6, SyncAssumption DEF SyncTypeOK, PC, IntStatus
<1>8. ControlInv /\ SleepersListed /\ NoLostWakeup
    BY <1>2, <1>5, <1>6, Zenon DEF ControlInv, SleepersListed, NoLostWakeup
<1>9. SemaphoreInv /\ Mutex /\ LockInv
    BY <1>5, SyncAssumption DEF SemaphoreInv, Mutex, LockInv, Owns, Owning
<1> QED
    BY <1>2, <1>3, <1>4, <1>7, <1>8, <1>9, Zenon DEF SyncInv, SchedInv

\* A step of the scheduler that puts nobody to sleep and wakes nobody who
\* sleeps on a lock keeps the invariant.
LEMMA SyncFrame ==
    ASSUME SyncInv, SchedInv', UNCHANGED <<startVars, syncVars>>,
           \A x \in Thread : status'[x] = "TASK_BLOCKD" <=> status[x] = "TASK_BLOCKD",
           \A x \in Thread : status'[x] \in {"TASK_RUNNING", "TASK_READY", "TASK_BLOCKD"}
    PROVE  SyncInv'
<1>1. UNCHANGED <<started, starting, value, waiting, holder, repeat, pc, lk, frame>>
    BY Zenon DEF startVars, syncVars
<1>2. SyncTypeOK' /\ ControlInv'
    BY <1>1, Zenon DEF SyncInv, SchedInv, SyncTypeOK, ControlInv
<1>3. SleepersListed' /\ NoLostWakeup'
    BY <1>1 DEF SyncInv, SleepersListed, NoLostWakeup
<1>4. SemaphoreInv' /\ Mutex' /\ LockInv'
    BY <1>1 DEF SyncInv, SemaphoreInv, Mutex, LockInv, Owns
<1> QED
    BY <1>2, <1>3, <1>4, Zenon DEF SyncInv

\* What the invariant says of the current thread.
LEMMA CurrentFacts ==
    ASSUME SyncInv
    PROVE  /\ current \in Thread /\ kernel = "up" /\ PendingReady
           /\ status[current] = "TASK_RUNNING"
           /\ \A l \in Lock : current \notin Range(waiting[l])
BY Zenon DEF SyncInv, SchedInv, ThreadTypeOK, ReadyListOK, ControlInv,
   PendingReady, SleepersListed

\* A timer interrupt (IntTimerHandler) preserves the invariant of the locks.
LEMMA TickInv == SyncInv /\ Tick => SyncInv'
<1> SUFFICES ASSUME SyncInv, Tick PROVE SyncInv'
    OBVIOUS
<1>1. SchedInv /\ PendingReady /\ IntTimerHandler /\ UNCHANGED syncVars
    BY CurrentFacts, Zenon DEF Tick, SyncInv
<1>2. /\ SchedInv' /\ UNCHANGED startVars
      /\ \A x \in Thread :
            \/ status'[x] = status[x]
            \/ status[x] = "TASK_READY" /\ status'[x] = "TASK_RUNNING"
            \/ status[x] = "TASK_RUNNING" /\ status'[x] = "TASK_READY"
    BY <1>1, TimerStep, Zenon
<1> QED
    BY <1>1, <1>2, SyncFrame, Zenon DEF SyncInv, ControlInv

\* So does a caller that switches interrupts on or off (SetIntStatus).
LEMMA CallerIntInv ==
    ASSUME SyncInv, NEW stat \in IntStatus, CallerInt(stat) PROVE SyncInv'
<1>1. /\ intr' = stat
      /\ UNCHANGED <<kernel, current, resume, cr3, esp0, queueVars, startVars, syncVars>>
    BY Zenon DEF CallerInt, SetIntStatus
<1>2. UNCHANGED <<status, ready, ticksLeft, all, started, starting, walk>>
    BY <1>1, Zenon DEF queueVars, startVars
<1>3. SchedInv'
    <2>1. ThreadTypeOK'
        BY <1>1, <1>2, Zenon DEF SyncInv, SchedInv, ThreadTypeOK
    <2>2. Queued' = Queued
        BY <1>2, Zenon DEF Queued
    <2>3. ReadyListOK' /\ AddressSpaceOK'
        BY <1>1, <1>2, <2>2, Zenon DEF SyncInv, SchedInv, ReadyListOK, AddressSpaceOK
    <2> QED
        BY <1>1, <2>1, <2>3, Zenon DEF SyncInv, SchedInv
<1> QED
    BY <1>1, <1>2, <1>3, SyncFrame, Zenon DEF SyncInv, ControlInv

\* The steps of a lock call that leave the scheduler alone keep its part.
LEMMA SchedFrame == SchedInv /\ UNCHANGED threadVars => SchedInv'
<1> SUFFICES ASSUME SchedInv, UNCHANGED threadVars PROVE SchedInv'
    OBVIOUS
<1>1. UNCHANGED <<kernel, intr, current, resume, cr3, esp0, status, ready, ticksLeft, all,
                  started, starting, walk>>
    BY Zenon DEF threadVars, cpuVars, queueVars, startVars
<1>2. ThreadTypeOK'
    BY <1>1, Zenon DEF SchedInv, ThreadTypeOK
<1>3. Queued' = Queued
    BY <1>1, Zenon DEF Queued
<1>4. ReadyListOK' /\ AddressSpaceOK'
    BY <1>1, <1>3, Zenon DEF SchedInv, ReadyListOK, AddressSpaceOK
<1> QED
    BY <1>1, <1>2, <1>4, Zenon DEF SchedInv

\* The waiting lists only depend on who is at the retry of which lock.
LEMMA SleepersFrame ==
    ASSUME SyncInv, UNCHANGED <<value, waiting, status>>,
           \A x \in Thread, m \in Lock :
               pc'[x] = "retry" /\ lk'[x] = m <=> pc[x] = "retry" /\ lk[x] = m
    PROVE  SleepersListed' /\ NoLostWakeup'
<1>1. SleepersListed'
    <2>1. ASSUME NEW m \in Lock, NEW x \in Thread
          PROVE  x \in Range(waiting'[m]) <=>
                    status'[x] = "TASK_BLOCKD" /\ pc'[x] = "retry" /\ lk'[x] = m
        <3>1. x \in Range(waiting[m]) <=>
                    status[x] = "TASK_BLOCKD" /\ pc[x] = "retry" /\ lk[x] = m
            BY Zenon DEF SyncInv, SleepersListed
        <3> QED
            BY <3>1, Zenon
    <2>2. \A m \in Lock : IsInjective(waiting'[m])
        BY Zenon DEF SyncInv, SleepersListed
    <2> QED
        BY <2>1, <2>2, Zenon DEF SleepersListed
<1>2. NoLostWakeup'
    BY Zenon DEF SyncInv, NoLostWakeup
<1> QED
    BY <1>1, <1>2, Zenon

\* So does entering sys_lock_lock: a nested call counts, any other goes on to
\* SemaphoreDown.
LEMMA LockInv1 ==
    ASSUME SyncInv, NEW l \in Lock, sys_lock_lock(l) PROVE SyncInv'
<1>1. UNCHANGED <<threadVars, value, waiting, holder, frame>>
    BY Zenon DEF sys_lock_lock
<1>2. SchedInv' /\ UNCHANGED <<status, current, started, starting>>
    BY <1>1, SchedFrame, Zenon DEF SyncInv, threadVars, cpuVars, queueVars, startVars
<1>3. CASE holder[l] # current
    <2>1. /\ pc' = [pc EXCEPT ![current] = "down"]
          /\ lk' = [lk EXCEPT ![current] = l]
          /\ UNCHANGED repeat
        BY <1>3, Zenon DEF sys_lock_lock, Goto
    <2>2. pc[current] = "idle"
        BY <1>3, CurrentFacts DEF sys_lock_lock, SyncInv, LockInv
    <2>3. \A x \in Thread : /\ pc'[x] = IF x = current THEN "down" ELSE pc[x]
                            /\ lk'[x] = IF x = current THEN l ELSE lk[x]
        BY <2>1, Zenon DEF SyncInv, SyncTypeOK
    <2>4. SyncTypeOK'
        BY <1>1, <1>2, <2>1, Zenon DEF SyncInv, SchedInv, SyncTypeOK, PC
    <2>5. ControlInv'
        BY <1>2, <2>2, <2>3, CurrentFacts, SyncAssumption, Zenon DEF SyncInv, ControlInv
    <2>6. SleepersListed' /\ NoLostWakeup'
        BY <1>1, <1>2, <2>2, <2>3, SleepersFrame, Zenon
    <2>7. \A x \in Thread, m \in Lock : Owns(x, m)' <=> Owns(x, m)
        BY <2>2, <2>3, Zenon DEF Owns, Owning
    <2>8. SemaphoreInv' /\ Mutex'
        BY <1>1, <2>7, Zenon DEF SyncInv, SemaphoreInv, Mutex
    <2>9. LockInv'
        BY <1>1, <2>1, <2>2, <2>3 DEF SyncInv, LockInv
    <2> QED
        BY <1>2, <2>4, <2>5, <2>6, <2>8, <2>9, Zenon DEF SyncInv
<1>4. CASE holder[l] = current
    <2>1. repeat' = [repeat EXCEPT ![l] = @ + 1] /\ UNCHANGED <<pc, lk>>
        BY <1>4, Zenon DEF sys_lock_lock
    <2>2. pc[current] = "held" /\ lk[current] = l /\ repeat[l] < MaxRepeat
        BY <1>4, CurrentFacts, Zenon DEF sys_lock_lock, SyncInv, LockInv
    <2>3. SyncTypeOK'
        BY <1>1, <1>2, <2>1, <2>2, SyncAssumption DEF SyncInv, SchedInv, SyncTypeOK
    <2>4. ControlInv' /\ SleepersListed' /\ NoLostWakeup' /\ SemaphoreInv' /\ Mutex'
        <3>1. UNCHANGED <<status, current, started, starting, value, waiting, pc, lk>>
            BY <1>1, <1>2, <2>1, Zenon
        <3>2. ControlInv' /\ SleepersListed'
            BY <3>1, Zenon DEF SyncInv, ControlInv, SleepersListed
        <3>3. NoLostWakeup'
            BY <3>1, Zenon DEF SyncInv, NoLostWakeup
        <3>4. SemaphoreInv' /\ Mutex'
            BY <3>1, Zenon DEF SyncInv, SemaphoreInv, Mutex, Owns
        <3> QED
            BY <3>2, <3>3, <3>4, Zenon
    <2>5. LockInv'
        BY <1>1, <2>1, <2>2, CurrentFacts DEF SyncInv, LockInv, SyncTypeOK
    <2> QED
        BY <1>2, <2>3, <2>4, <2>5, Zenon DEF SyncInv
<1> QED
    BY <1>3, <1>4, Zenon

\* SemaphoreDown when value is 0: the caller is listed and blocks.
LEMMA SleepInv ==
    ASSUME SyncInv, NEW l \in Lock, SemaphoreDown(l), value[l] = 0, ready # <<>>
    PROVE  SyncInv'
<1>1. pc[current] \in {"down", "retry"} /\ lk[current] = l
    BY Zenon DEF SemaphoreDown
<1>2. /\ waiting' = [waiting EXCEPT ![l] = Append(@, current)]
      /\ frame' = [frame EXCEPT ![current] = OldInt]
      /\ pc' = [pc EXCEPT ![current] = "retry"]
      /\ ScheduleThread("TASK_BLOCKD", "INT_OFF")
      /\ UNCHANGED <<value, holder, repeat, lk>>
    BY CurrentFacts, Zenon DEF SemaphoreDown, Sleeps, BlockThread, Goto
<1>4. /\ SchedInv' /\ UNCHANGED startVars
      /\ status[current'] = "TASK_READY" /\ current' # current
      /\ status' = [x \in Thread |->
            IF x = current' THEN "TASK_RUNNING"
            ELSE IF x # current THEN status[x] ELSE "TASK_BLOCKD"]
    <2>1. "TASK_BLOCKD" \in {"TASK_RUNNING"} \cup Blocked /\ "INT_OFF" \in IntStatus
          /\ "TASK_BLOCKD" # "TASK_RUNNING" /\ SchedInv /\ PendingReady
        BY CurrentFacts, Zenon DEF Blocked, IntStatus, SyncInv
    <2> QED
        BY <1>2, <2>1, ScheduleStep, Zenon
<1>5. UNCHANGED <<started, starting>> /\ current' \in Thread
    BY <1>4, Zenon DEF startVars, SchedInv, ThreadTypeOK
<1>6. \A x \in Thread :
        status'[x] = "TASK_BLOCKD" <=> status[x] = "TASK_BLOCKD" \/ x = current
    BY <1>4, <1>5, CurrentFacts, Zenon
<1>7. \A x \in Thread : pc'[x] = IF x = current THEN "retry" ELSE pc[x]
    BY <1>2, Zenon DEF SyncInv, SyncTypeOK
<1>8. /\ waiting' \in [Lock -> Seq(Thread)]
      /\ \A m \in Lock : IsInjective(waiting'[m])
      /\ \A m \in Lock : Range(waiting'[m]) =
                Range(waiting[m]) \cup (IF m = l THEN {current} ELSE {})
    <2>1. /\ Append(waiting[l], current) \in Seq(Thread)
          /\ IsInjective(Append(waiting[l], current))
          /\ Range(Append(waiting[l], current)) = Range(waiting[l]) \cup {current}
        BY CurrentFacts, AppendFacts DEF SyncInv, SyncTypeOK, SleepersListed
    <2> QED
        BY <1>2, <2>1 DEF SyncInv, SyncTypeOK, SleepersListed
<1>9. SyncTypeOK'
    BY <1>2, <1>4, <1>8, Zenon DEF SyncInv, SchedInv, SyncTypeOK, ThreadTypeOK, PC, OldInt
<1>10. ControlInv'
    BY <1>1, <1>2, <1>4, <1>5, <1>6, <1>7 DEF SyncInv, ControlInv
<1>11. SleepersListed'
    BY <1>1, <1>2, <1>6, <1>7, <1>8, CurrentFacts DEF SyncInv, SleepersListed
<1>12. NoLostWakeup'
    <2> SUFFICES ASSUME NEW m \in Lock, value[m] > 0, waiting'[m] # <<>>
                 PROVE  \E x \in Thread : /\ lk[x] = m /\ pc'[x] = "retry"
                                          /\ status'[x] # "TASK_BLOCKD"
        BY <1>2, Zenon DEF NoLostWakeup
    <2>1. m # l /\ waiting'[m] = waiting[m]
        BY <1>2 DEF SyncInv, SyncTypeOK
    <2>2. PICK x \in Thread : lk[x] = m /\ pc[x] = "retry" /\ status[x] # "TASK_BLOCKD"
        BY <2>1, Zenon DEF SyncInv, NoLostWakeup
    <2> QED
        BY <1>1, <1>6, <1>7, <2>1, <2>2, Zenon
<1>13. \A x \in Thread, m \in Lock : Owns(x, m)' <=> Owns(x, m)
    BY <1>1, <1>2, <1>7 DEF Owns, Owning
<1>14. SemaphoreInv' /\ Mutex' /\ LockInv'
    BY <1>1, <1>2, <1>7, <1>13 DEF SyncInv, SemaphoreInv, Mutex, LockInv
<1> QED
    BY <1>4, <1>9, <1>10, <1>11, <1>12, <1>14, Zenon DEF SyncInv

\* SemaphoreDown when value is 1: the caller becomes the only owner.
LEMMA TakeInv ==
    ASSUME SyncInv, NEW l \in Lock, SemaphoreDown(l), value[l] # 0 PROVE SyncInv'
<1>1. pc[current] \in {"down", "retry"} /\ lk[current] = l
    BY Zenon DEF SemaphoreDown
<1>2. /\ value' = [value EXCEPT ![l] = (@ + 255) % 256]
      /\ intr' = OldInt
      /\ frame' = [frame EXCEPT ![current] = "INT_ON"]
      /\ pc' = [pc EXCEPT ![current] = "acquired"]
      /\ UNCHANGED <<kernel, current, resume, cr3, esp0, queueVars, startVars,
                     waiting, holder, repeat, lk>>
    BY Zenon DEF SemaphoreDown, Sleeps, Goto
<1>3. UNCHANGED <<status, ready, ticksLeft, all, started, starting, walk>>
    BY <1>2, Zenon DEF queueVars, startVars
<1>4. SchedInv'
    <2>1. intr' \in IntStatus
        BY <1>2, CurrentFacts, Zenon DEF SyncInv, SyncTypeOK, OldInt, SchedInv, ThreadTypeOK
    <2>2. ThreadTypeOK'
        BY <1>2, <1>3, <2>1, Zenon DEF SyncInv, SchedInv, ThreadTypeOK
    <2>3. Queued' = Queued
        BY <1>3, Zenon DEF Queued
    <2>4. ReadyListOK' /\ AddressSpaceOK'
        BY <1>2, <1>3, <2>3, Zenon DEF SyncInv, SchedInv, ReadyListOK, AddressSpaceOK
    <2> QED
        BY <1>2, <2>2, <2>4, Zenon DEF SyncInv, SchedInv
<1>5. \A x \in Thread : pc'[x] = IF x = current THEN "acquired" ELSE pc[x]
    BY <1>2, Zenon DEF SyncInv, SyncTypeOK
<1>6. value' = [value EXCEPT ![l] = 0]
    <2>1. value[l] = 1
        BY DEF SyncInv, SyncTypeOK
    <2>2. (value[l] + 255) % 256 = 0
        BY <2>1
    <2> QED
        BY <1>2, <2>2, Zenon
<1>7. \A m \in Lock : value'[m] = IF m = l THEN 0 ELSE value[m]
    BY <1>6, Zenon DEF SyncInv, SyncTypeOK
<1>8. SyncTypeOK'
    <2>1. value' \in [Lock -> 0..1]
        BY <1>6 DEF SyncInv, SyncTypeOK
    <2>3. frame' \in [Thread -> IntStatus]
        BY <1>2, Zenon DEF SyncInv, SyncTypeOK, IntStatus
    <2>2. pc' \in [Thread -> PC]
        BY <1>2, Zenon DEF SyncInv, SyncTypeOK, PC, Owning
    <2> QED
        BY <1>2, <1>4, <2>1, <2>2, <2>3, Zenon DEF SyncInv, SchedInv, SyncTypeOK
<1>9. ControlInv' /\ SleepersListed'
    <2>1. current \in Thread /\ status[current] # "TASK_BLOCKD"
        BY CurrentFacts, Zenon
    <2>2. pc'[current] = "acquired" /\ \A x \in Thread : x # current => pc'[x] = pc[x]
        BY <1>5, <2>1, Zenon
    <2>3. ControlInv'
        BY <1>1, <1>2, <1>3, <2>1, <2>2, Zenon DEF SyncInv, ControlInv
    <2>4. SleepersListed'
        <3>1. waiting' = waiting /\ status' = status /\ lk' = lk
            BY <1>2, <1>3, Zenon
        <3>2. SleepersListed
            BY Zenon DEF SyncInv
        <3>3. ASSUME NEW m \in Lock, NEW x \in Thread
              PROVE  x \in Range(waiting'[m])
                        <=> status'[x] = "TASK_BLOCKD" /\ pc'[x] = "retry" /\ lk'[x] = m
            <4>1. CASE x = current
                BY <2>1, <3>1, <3>2, <4>1, Zenon DEF SleepersListed
            <4>2. CASE x # current
                <5>1. x \in Range(waiting[m])
                         <=> status[x] = "TASK_BLOCKD" /\ pc[x] = "retry" /\ lk[x] = m
                    BY <3>2, Zenon DEF SleepersListed
                <5>2. pc'[x] = pc[x]
                    BY <2>2, <4>2, Zenon
                <5> QED
                    BY <3>1, <5>1, <5>2, Zenon
            <4> QED
                BY <4>1, <4>2, Zenon
        <3> QED
            BY <3>1, <3>2, <3>3, Zenon DEF SleepersListed
    <2> QED
        BY <2>3, <2>4, Zenon
<1>10. NoLostWakeup'
    <2> SUFFICES ASSUME NEW m \in Lock, value'[m] > 0, waiting'[m] # <<>>
                 PROVE  \E x \in Thread : /\ lk'[x] = m /\ pc'[x] = "retry"
                                           /\ status'[x] # "TASK_BLOCKD"
        BY Zenon DEF NoLostWakeup
    <2>1. m # l /\ value[m] > 0 /\ waiting[m] # <<>>
        BY <1>2, <1>7
    <2>2. PICK x \in Thread : lk[x] = m /\ pc[x] = "retry" /\ status[x] # "TASK_BLOCKD"
        BY <2>1, Zenon DEF SyncInv, NoLostWakeup
    <2> QED
        BY <1>1, <1>2, <1>3, <1>5, <2>1, <2>2, Zenon
<1>11. \A x \in Thread : ~ Owns(x, l)
    BY Zenon DEF SyncInv, SemaphoreInv
<1>12. \A x \in Thread, m \in Lock : Owns(x, m)' <=> Owns(x, m) \/ (x = current /\ m = l)
    BY <1>1, <1>2, <1>5, Zenon DEF Owns, Owning
<1>13. SemaphoreInv' /\ Mutex'
    BY <1>7, <1>11, <1>12, CurrentFacts, Zenon DEF SyncInv, SemaphoreInv, Mutex
<1>14. LockInv'
    BY <1>1, <1>2, <1>5 DEF SyncInv, LockInv
<1> QED
    BY <1>4, <1>8, <1>9, <1>10, <1>13, <1>14, Zenon DEF SyncInv

\* The four steps that only set or clear fields of the lock of their owner.
LEMMA OwnerStepInv ==
    ASSUME SyncInv, NEW l \in Lock,
           SetHolder(l) \/ SetRepeat(l) \/ sys_lock_unlock(l) \/ ClearHolder(l)
    PROVE  SyncInv'
<1>1. Owns(current, l) /\ \A x \in Thread : Owns(x, l) => x = current
    BY CurrentFacts, Zenon
    DEF SetHolder, SetRepeat, sys_lock_unlock, ClearHolder, Owns, Owning, SyncInv, Mutex
<1>2. \A x \in Thread : lk[x] = l /\ pc[x] \in Owning => x = current
    BY <1>1, Zenon DEF Owns
<1>3. ASSUME UNCHANGED <<threadVars, value, waiting, lk, frame>>,
             NEW label \in Owning, pc' = [pc EXCEPT ![current] = label],
             holder' \in [Lock -> Thread \cup {NULL}], repeat' \in [Lock -> 0..MaxRepeat],
             LockInv'
      PROVE  SyncInv'
    <2>1. SchedInv' /\ UNCHANGED <<status, current, started, starting>>
        BY <1>3, SchedFrame, Zenon
           DEF SyncInv, threadVars, cpuVars, queueVars, startVars
    <2>2. \A x \in Thread : pc'[x] = IF x = current THEN label ELSE pc[x]
        BY <1>3, Zenon DEF SyncInv, SyncTypeOK
    <2>3. SyncTypeOK'
        BY <1>3, <2>1, Zenon DEF SyncInv, SchedInv, SyncTypeOK, PC
    <2>a. pc[current] \notin {"idle", "down", "retry"} /\ label \notin {"idle", "down", "retry"}
        BY <1>1, <1>3, Zenon DEF Owns, Owning
    <2>b. UNCHANGED <<status, started, starting, value, waiting, lk>>
        BY <1>3, <2>1, Zenon
    <2>c. ControlInv'
        BY <2>2, <2>a, <2>b, CurrentFacts, Zenon DEF SyncInv, ControlInv
    <2>d. SleepersListed' /\ NoLostWakeup'
        BY <2>2, <2>a, <2>b, SleepersFrame, Zenon
    <2>4. ControlInv' /\ SleepersListed' /\ NoLostWakeup'
        BY <2>c, <2>d, Zenon
    <2>5. \A x \in Thread, m \in Lock : Owns(x, m)' <=> Owns(x, m)
        BY <1>1, <1>3, <2>2, Zenon DEF Owns
    <2>6. SemaphoreInv' /\ Mutex'
        BY <1>3, <2>5, Zenon DEF SyncInv, SemaphoreInv, Mutex
    <2> QED
        BY <1>3, <2>1, <2>3, <2>4, <2>6, Zenon DEF SyncInv
<1>4. /\ pc \in [Thread -> PC] /\ holder \in [Lock -> Thread \cup {NULL}]
      /\ repeat \in [Lock -> 0..MaxRepeat] /\ LockInv /\ current \in Thread
      /\ \A x \in Thread : lk[x] = l /\ pc[x] \in Owning => x = current
    BY <1>2, CurrentFacts, Zenon DEF SyncInv, SyncTypeOK
<1>5. CASE SetHolder(l)
    <2>1. /\ pc[current] = "acquired" /\ lk[current] = l
          /\ holder' = [holder EXCEPT ![l] = current]
          /\ pc' = [pc EXCEPT ![current] = "counting"]
          /\ UNCHANGED <<threadVars, value, waiting, repeat, lk, frame>>
        BY <1>5, Zenon DEF SetHolder, Goto
    <2>2. LockInv'
        BY <1>4, <2>1 DEF LockInv, Owning
    <2> QED
        BY <1>3, <1>4, <2>1, <2>2, Zenon DEF Owning
<1>6. CASE SetRepeat(l)
    <2>1. pc[current] = "counting" /\ lk[current] = l
        BY <1>6, Zenon DEF SetRepeat
    <2>2. repeat[l] = 0
        BY <1>4, <2>1 DEF LockInv, Owning
    <2>3. /\ repeat' = [repeat EXCEPT ![l] = 1]
          /\ pc' = [pc EXCEPT ![current] = "held"]
          /\ UNCHANGED <<threadVars, value, waiting, holder, lk, frame>>
        BY <1>6, <2>2, Zenon DEF SetRepeat, Goto
    <2>4. LockInv'
        BY <1>4, <2>1, <2>3 DEF LockInv, Owning
    <2>5. repeat' \in [Lock -> 0..MaxRepeat]
        BY <1>4, <2>3, SyncAssumption
    <2> QED
        BY <1>3, <1>4, <2>3, <2>4, <2>5, Zenon DEF Owning
<1>7. CASE sys_lock_unlock(l)
    <2>1. pc[current] = "held" /\ lk[current] = l
        BY <1>7, Zenon DEF sys_lock_unlock
    <2>2. holder[l] = current /\ repeat[l] \in 1..MaxRepeat
        BY <1>4, <2>1, SyncAssumption DEF LockInv
    <2>a. ~ (holder[l] # current \/ repeat[l] < 1)
        BY <2>2, SyncAssumption, SMT
    <2>3. /\ repeat' = [repeat EXCEPT ![l] = repeat[l] - 1]
          /\ IF repeat[l] > 1 THEN pc' = pc ELSE pc' = [pc EXCEPT ![current] = "clearing"]
          /\ UNCHANGED <<threadVars, value, waiting, holder, lk, frame>>
        BY <1>7, <2>a, Zenon DEF sys_lock_unlock, Goto
    <2>b. repeat[l] - 1 \in 0..MaxRepeat
        BY <2>2, SyncAssumption, SMT
    <2>4. repeat' \in [Lock -> 0..MaxRepeat] /\ repeat'[l] = repeat[l] - 1
          /\ \A m \in Lock : m # l => repeat'[m] = repeat[m]
        BY <1>4, <2>3, <2>b, Zenon
    <2>5. CASE repeat[l] > 1
        <3>1. pc' = [pc EXCEPT ![current] = "held"]
            BY <1>4, <2>1, <2>3, <2>5, Zenon
        <3>2. repeat'[l] > 0
            BY <2>2, <2>4, <2>5
        <3>3. LockInv'
            BY <1>4, <2>1, <2>3, <2>4, <2>5, <3>2 DEF LockInv
        <3> QED
            BY <1>3, <1>4, <2>3, <2>4, <3>1, <3>3, Zenon DEF Owning
    <2>6. CASE ~ (repeat[l] > 1)
        <3>1. pc' = [pc EXCEPT ![current] = "clearing"]
            BY <2>3, <2>6, Zenon
        <3>2. repeat'[l] = 0
            BY <2>2, <2>4, <2>6
        <3>3. LockInv'
            BY <1>4, <2>1, <2>2, <2>3, <2>4, <3>1, <3>2 DEF LockInv, Owning
        <3> QED
            BY <1>3, <1>4, <2>3, <2>4, <3>1, <3>3, Zenon DEF Owning
    <2> QED
        BY <2>5, <2>6, Zenon
<1>8. CASE ClearHolder(l)
    <2>1. /\ pc[current] = "clearing" /\ lk[current] = l
          /\ holder' = [holder EXCEPT ![l] = NULL]
          /\ pc' = [pc EXCEPT ![current] = "up"]
          /\ UNCHANGED <<threadVars, value, waiting, repeat, lk, frame>>
        BY <1>8, Zenon DEF ClearHolder, Goto
    <2>2. LockInv'
        BY <1>4, <2>1, SyncAssumption DEF LockInv, Owning
    <2> QED
        BY <1>3, <1>4, <2>1, <2>2, Zenon DEF Owning
<1> QED
    BY <1>5, <1>6, <1>7, <1>8, Zenon

\* SemaphoreUp: the owner leaves, and the first waiter (if any) is unblocked.
LEMMA SemaphoreUpInv ==
    ASSUME SyncInv, NEW l \in Lock, SemaphoreUp(l) PROVE SyncInv'
<1>1. /\ pc[current] = "up" /\ lk[current] = l
      /\ WakeFirst(l)
      /\ value' = [value EXCEPT ![l] = (@ + 1) % 256]
      /\ pc' = [pc EXCEPT ![current] = "idle"]
      /\ lk' = [lk EXCEPT ![current] = NULL]
      /\ UNCHANGED <<holder, repeat, frame>>
    BY Zenon DEF SemaphoreUp, Goto
<1>2. Owns(current, l) /\ \A x \in Thread : Owns(x, l) => x = current
    BY <1>1, CurrentFacts, Zenon DEF Owns, Owning, SyncInv, Mutex
<1>3. \A x \in Thread : /\ pc'[x] = IF x = current THEN "idle" ELSE pc[x]
                        /\ lk'[x] = IF x = current THEN NULL ELSE lk[x]
    BY <1>1, Zenon DEF SyncInv, SyncTypeOK
<1>4. \A m \in Lock : value'[m] = IF m = l THEN 1 ELSE value[m]
    <2>1. value[l] = 0
        BY <1>2, CurrentFacts, Zenon DEF SyncInv, SemaphoreInv
    <2>2. (value[l] + 1) % 256 = 1
        BY <2>1
    <2> QED
        BY <1>1, <2>2, Zenon DEF SyncInv, SyncTypeOK
<1>5. value' \in [Lock -> 0..1] /\ pc' \in [Thread -> PC] /\ lk' \in [Thread -> Lock \cup {NULL}]
    <2>1. value' \in [Lock -> 0..1]
        <3>1. \A m \in Lock : value'[m] \in 0..1
            BY <1>4 DEF SyncInv, SyncTypeOK
        <3> QED
            BY <1>1, <3>1, Zenon DEF SyncInv, SyncTypeOK
    <2> QED
        BY <1>1, <2>1, Zenon DEF SyncInv, SyncTypeOK, PC
\* Either nobody waits, or the first waiter is put on the ready list.
<1>6. /\ SchedInv' /\ UNCHANGED <<current, started, starting>>
      /\ waiting' \in [Lock -> Seq(Thread)]
      /\ SleepersListed'
      /\ \A x \in Thread : /\ status'[x] \in {"TASK_RUNNING", "TASK_READY", "TASK_BLOCKD"}
                           /\ status'[x] = "TASK_BLOCKD" => status[x] = "TASK_BLOCKD"
      /\ \A m \in Lock : m # l => waiting'[m] = waiting[m]
      /\ waiting'[l] = <<>> \/ \E x \in Thread : /\ lk[x] = l /\ pc[x] = "retry"
                                                 /\ status'[x] # "TASK_BLOCKD"
    <2>1. CASE waiting[l] = <<>>
        <3>1. UNCHANGED <<threadVars, waiting>>
            BY <1>1, <2>1, Zenon DEF WakeFirst
        <3>2. SchedInv' /\ UNCHANGED <<status, current, started, starting>>
            BY <3>1, SchedFrame, Zenon
               DEF SyncInv, threadVars, cpuVars, queueVars, startVars
        <3>3. SleepersListed'
            <4>1. status[current] # "TASK_BLOCKD"
                BY CurrentFacts, Zenon
            <4>2. ASSUME NEW m \in Lock, NEW x \in Thread
                  PROVE  x \in Range(waiting'[m]) <=>
                            status'[x] = "TASK_BLOCKD" /\ pc'[x] = "retry" /\ lk'[x] = m
                <5>1. x \in Range(waiting[m]) <=>
                            status[x] = "TASK_BLOCKD" /\ pc[x] = "retry" /\ lk[x] = m
                    BY Zenon DEF SyncInv, SleepersListed
                <5> QED
                    BY <1>3, <3>1, <3>2, <4>1, <5>1, SyncAssumption, Zenon
            <4>3. \A m \in Lock : IsInjective(waiting'[m])
                BY <3>1, Zenon DEF SyncInv, SleepersListed
            <4> QED
                BY <4>2, <4>3, Zenon DEF SleepersListed
        <3> QED
            BY <2>1, <3>1, <3>2, <3>3, Zenon DEF SyncInv, SyncTypeOK, ControlInv
    <2>2. CASE waiting[l] # <<>>
        <3> DEFINE h == Head(waiting[l])
        <3>1. waiting' = [waiting EXCEPT ![l] = Tail(@)] /\ UnblockThread(h)
            BY <1>1, <2>2, Zenon DEF WakeFirst
        <3>2. waiting[l] \in Seq(Thread) /\ IsInjective(waiting[l])
            BY Zenon DEF SyncInv, SyncTypeOK, SleepersListed
        <3>3. /\ h \in Thread /\ h \in Range(waiting[l])
              /\ Tail(waiting[l]) \in Seq(Thread) /\ IsInjective(Tail(waiting[l]))
              /\ Range(Tail(waiting[l])) = Range(waiting[l]) \ {h}
            BY <2>2, <3>2, PopFacts, Zenon
        <3> HIDE DEF h
        <3>4. status[h] = "TASK_BLOCKD" /\ lk[h] = l /\ pc[h] = "retry"
            BY <3>3, Zenon DEF SyncInv, SleepersListed, ControlInv
        <3>5. /\ SchedInv' /\ status' = [status EXCEPT ![h] = "TASK_READY"]
              /\ UNCHANGED <<cpuVars, ticksLeft, startVars>>
            <4>1. SchedInv /\ PendingReady /\ status[h] \in Blocked
                BY <3>4, CurrentFacts, Zenon DEF SyncInv, Blocked
            <4> QED
                BY <3>1, <3>3, <4>1, UnblockStep, Zenon
        <3>6. UNCHANGED <<current, started, starting>>
            BY <3>5, Zenon DEF cpuVars, startVars
        <3>7. \A x \in Thread : status'[x] = IF x = h THEN "TASK_READY" ELSE status[x]
            BY <3>5, Zenon DEF SyncInv, SyncTypeOK, ThreadTypeOK
        <3>8. waiting' \in [Lock -> Seq(Thread)] /\ waiting'[l] = Tail(waiting[l])
              /\ \A m \in Lock : m # l => waiting'[m] = waiting[m]
            BY <3>1, <3>3, Zenon DEF SyncInv, SyncTypeOK
        <3>9. SleepersListed'
            <4>1. ASSUME NEW m \in Lock PROVE IsInjective(waiting'[m])
                <5>1. IsInjective(waiting[m])
                    BY Zenon DEF SyncInv, SleepersListed
                <5>2. CASE m = l
                    BY <3>3, <3>8, <5>2, Zenon
                <5>3. CASE m # l
                    BY <3>8, <5>1, <5>3, Zenon
                <5> QED
                    BY <5>2, <5>3, Zenon
            <4>2. ASSUME NEW m \in Lock, NEW x \in Thread
                  PROVE  x \in Range(waiting'[m]) <=>
                            status'[x] = "TASK_BLOCKD" /\ pc'[x] = "retry" /\ lk'[x] = m
                <5>1. x \in Range(waiting[m]) <=>
                            status[x] = "TASK_BLOCKD" /\ pc[x] = "retry" /\ lk[x] = m
                    BY Zenon DEF SyncInv, SleepersListed
                <5>2. x = current => status[x] # "TASK_BLOCKD" /\ x # h
                    BY <3>4, CurrentFacts, Zenon
                <5>3. CASE m = l
                    BY <1>3, <3>3, <3>4, <3>7, <3>8, <5>1, <5>2, <5>3,
                       SyncAssumption, Zenon
                <5>4. CASE m # l
                    BY <1>3, <3>3, <3>4, <3>7, <3>8, <5>1, <5>2, <5>4,
                       SyncAssumption, Zenon
                <5> QED
                    BY <5>3, <5>4, Zenon
            <4> QED
                BY <4>1, <4>2, Zenon DEF SleepersListed
        <3> QED
            <4>1. \A x \in Thread :
                    /\ status'[x] \in {"TASK_RUNNING", "TASK_READY", "TASK_BLOCKD"}
                    /\ status'[x] = "TASK_BLOCKD" => status[x] = "TASK_BLOCKD"
                BY <3>7, Zenon DEF SyncInv, ControlInv
            <4>2. waiting'[l] = <<>> \/ \E x \in Thread : /\ lk[x] = l /\ pc[x] = "retry"
                                                         /\ status'[x] # "TASK_BLOCKD"
                <5>1. status'[h] = "TASK_READY"
                    BY <3>3, <3>7, Zenon
                <5> QED
                    BY <3>3, <3>4, <5>1, Zenon
            <4>3. \A m \in Lock : m # l => waiting'[m] = waiting[m]
                BY <3>8, Zenon
            <4>4. SchedInv' /\ UNCHANGED <<current, started, starting>>
                BY <3>5, <3>6, Zenon
            <4>5. waiting' \in [Lock -> Seq(Thread)]
                BY <3>8, Zenon
            <4> QED
                BY <3>9, <4>1, <4>2, <4>3, <4>4, <4>5, Zenon
    <2> QED
        BY <2>1, <2>2, Zenon
<1>7. SyncTypeOK'
    BY <1>1, <1>5, <1>6, Zenon DEF SyncInv, SchedInv, SyncTypeOK
<1>8. ControlInv'
    <2>1. ASSUME NEW x \in Thread
          PROVE  /\ status'[x] \in {"TASK_RUNNING", "TASK_READY", "TASK_BLOCKD"}
                 /\ status'[x] = "TASK_BLOCKD" => pc'[x] \in {"retry", "held"}
                 /\ lk'[x] = NULL <=> pc'[x] = "idle"
        <3>1. status[x] = "TASK_BLOCKD" => pc[x] \in {"retry", "held"} /\ x # current
            BY CurrentFacts, Zenon DEF SyncInv, ControlInv
        <3>2. lk[x] = NULL <=> pc[x] = "idle"
            BY Zenon DEF SyncInv, ControlInv
        <3>3. /\ status'[x] \in {"TASK_RUNNING", "TASK_READY", "TASK_BLOCKD"}
              /\ status'[x] = "TASK_BLOCKD" => status[x] = "TASK_BLOCKD"
            BY <1>6, Zenon
        <3>4. /\ pc'[x] = IF x = current THEN "idle" ELSE pc[x]
              /\ lk'[x] = IF x = current THEN NULL ELSE lk[x]
            BY <1>3, Zenon
        <3> QED
            BY <3>1, <3>2, <3>3, <3>4, Zenon
    <2> QED
        BY <1>6, <2>1, Zenon DEF SyncInv, ControlInv
<1>9. NoLostWakeup'
    <2> SUFFICES ASSUME NEW m \in Lock, value'[m] > 0, waiting'[m] # <<>>
                 PROVE  \E x \in Thread : /\ lk'[x] = m /\ pc'[x] = "retry"
                                          /\ status'[x] # "TASK_BLOCKD"
        BY Zenon DEF NoLostWakeup
    <2>1. PICK x \in Thread : lk[x] = m /\ pc[x] = "retry" /\ status'[x] # "TASK_BLOCKD"
        <3>1. CASE m = l
            BY <1>6, <3>1, Zenon
        <3>2. CASE m # l
            <4>1. value[m] > 0 /\ waiting[m] # <<>>
                BY <1>4, <1>6, <3>2, Zenon
            <4> QED
                BY <1>6, <4>1, Zenon DEF SyncInv, NoLostWakeup
        <3> QED
            BY <3>1, <3>2, Zenon
    <2>2. x # current
        BY <1>1, <2>1, Zenon
    <2> QED
        BY <1>3, <2>1, <2>2, Zenon
<1>10. \A x \in Thread, m \in Lock : Owns(x, m)' <=> Owns(x, m) /\ x # current
    BY <1>3, SyncAssumption, Zenon DEF Owns, Owning
<1>11. SemaphoreInv' /\ Mutex'
    <2>1. \A m \in Lock : m # l => ~ Owns(current, m)
        BY <1>1, Zenon DEF Owns
    <2>2. Mutex'
        BY <1>10, Zenon DEF SyncInv, Mutex
    <2>3. ASSUME NEW m \in Lock, m # l
          PROVE  value'[m] = 0 <=> \E x \in Thread : Owns(x, m)'
        BY <1>4, <1>10, <2>1, <2>3, Zenon DEF SyncInv, SemaphoreInv
    <2>4. value'[l] # 0
        BY <1>4
    <2>5. \A x \in Thread : ~ Owns(x, l)'
        BY <1>2, <1>10, Zenon
    <2> QED
        BY <2>2, <2>3, <2>4, <2>5, Zenon DEF SemaphoreInv
<1>12. LockInv'
    BY <1>1, <1>3, SyncAssumption DEF SyncInv, LockInv
<1> QED
    BY <1>6, <1>7, <1>8, <1>9, <1>11, <1>12, Zenon DEF SyncInv

\* The owner of a lock on which a thread is about to sleep is runnable, so
\* there is a thread to switch to.
LEMMA OwnerRunnable ==
    ASSUME SyncInv, LockSleepers, NEW l \in Lock, SemaphoreDown(l), value[l] = 0
    PROVE  ready # <<>>
<1>1. PICK x \in Thread : Owns(x, l)
    BY Zenon DEF SyncInv, SemaphoreInv
<1>2. pc[current] \in {"down", "retry"}
    BY Zenon DEF SemaphoreDown
<1>3. x # current /\ status[x] = "TASK_READY"
    BY <1>1, <1>2, Zenon
       DEF Owns, Owning, SyncInv, LockSleepers, ControlInv, SchedInv, ReadyListOK
<1>4. x \in Range(ready)
    BY <1>3, Zenon DEF SyncInv, SchedInv, ReadyListOK, Queued, ControlInv
<1> QED
    BY <1>4 DEF Range

\* The invariant is inductive: one case per step of sync.c.
LEMMA SyncNextInv == SyncInv /\ LockSleepers /\ [SyncNext]_vars => SyncInv'
<1> SUFFICES ASSUME SyncInv, LockSleepers, [SyncNext]_vars PROVE SyncInv'
    OBVIOUS
<1>1. CASE Tick
    BY <1>1, TickInv, Zenon
<1>2. ASSUME NEW stat \in IntStatus, CallerInt(stat) PROVE SyncInv'
    BY <1>2, CallerIntInv, Zenon
<1>3. ASSUME NEW l \in Lock, sys_lock_lock(l) PROVE SyncInv'
    BY <1>3, LockInv1, Zenon
<1>4. ASSUME NEW l \in Lock, SemaphoreDown(l) PROVE SyncInv'
    BY <1>4, SleepInv, TakeInv, OwnerRunnable, Zenon
<1>5. ASSUME NEW l \in Lock,
             SetHolder(l) \/ SetRepeat(l) \/ sys_lock_unlock(l) \/ ClearHolder(l)
      PROVE  SyncInv'
    BY <1>5, OwnerStepInv, Zenon
<1>6. ASSUME NEW l \in Lock, SemaphoreUp(l) PROVE SyncInv'
    BY <1>6, SemaphoreUpInv, Zenon
<1>7. CASE UNCHANGED vars
    <2>1. UNCHANGED <<threadVars, syncVars>>
        BY <1>7, Zenon DEF vars
    <2>2. SchedInv' /\ UNCHANGED <<status, startVars>>
        BY <2>1, SchedFrame, Zenon DEF SyncInv, threadVars, queueVars
    <2> QED
        BY <2>1, <2>2, SyncFrame, Zenon DEF SyncInv, ControlInv
<1> QED
    BY <1>1, <1>2, <1>3, <1>4, <1>5, <1>6, <1>7, Zenon DEF SyncNext, LockStep

\* ScheduleThread, when it does not panic, blocks at most its caller.
LEMMA OnlyCallerBlocks ==
    ASSUME SyncInv, SyncInv', NEW stat, NEW saved, ScheduleThread(stat, saved)
    PROVE  /\ \A x \in Thread : x # current /\ status'[x] = "TASK_BLOCKD"
                                    => status[x] = "TASK_BLOCKD"
           /\ stat = "TASK_RUNNING" => status'[current] # "TASK_BLOCKD"
<1>1. kernel' = "up" /\ current \in Thread /\ status \in [Thread -> TaskStatus]
    BY CurrentFacts, Zenon DEF SyncInv, SchedInv, ThreadTypeOK
<1>2. status' = [status EXCEPT
            ![current] = IF stat = "TASK_RUNNING" THEN "TASK_READY" ELSE stat,
            ![Head(Requeue(stat))] = "TASK_RUNNING"]
    BY <1>1, Zenon DEF ScheduleThread, PanicSpin
<1> QED
    BY <1>1, <1>2, Zenon

\* In Sync a thread blocks only in SemaphoreDown.
LEMMA LockSleepersNext ==
    SyncInv /\ SyncInv' /\ LockSleepers /\ [SyncNext]_vars => LockSleepers'
<1>0. SUFFICES ASSUME SyncInv, SyncInv', LockSleepers, [SyncNext]_vars PROVE LockSleepers'
    OBVIOUS
<1>1. /\ current \in Thread /\ status[current] = "TASK_RUNNING" /\ kernel' = "up"
      /\ pc \in [Thread -> PC] /\ status \in [Thread -> TaskStatus]
    BY <1>0, CurrentFacts, Zenon DEF SyncInv, SchedInv, SyncTypeOK, ThreadTypeOK
<1>2. ASSUME \A x \in Thread : x # current => pc'[x] = pc[x],
             \A x \in Thread : x # current /\ status'[x] = "TASK_BLOCKD"
                                    => status[x] = "TASK_BLOCKD",
             status'[current] = "TASK_BLOCKD" => pc'[current] = "retry"
      PROVE  LockSleepers'
    BY <1>0, <1>2, Zenon DEF LockSleepers
<1>3. CASE Tick
    <2>1. IntTimerHandler /\ UNCHANGED pc
        BY <1>3, Zenon DEF Tick, syncVars
    <2>2. CASE ticksLeft[current] = 0
        BY <1>0, <1>2, <2>1, <2>2, OnlyCallerBlocks, Zenon DEF IntTimerHandler
    <2>3. CASE ticksLeft[current] # 0
        BY <1>1, <1>2, <2>1, <2>3, Zenon DEF IntTimerHandler
    <2> QED
        BY <2>2, <2>3, Zenon
<1>4. ASSUME NEW l \in Lock, SemaphoreDown(l) PROVE LockSleepers'
    <2>1. CASE value[l] = 0
        <3>1. pc' = [pc EXCEPT ![current] = "retry"] /\ ScheduleThread("TASK_BLOCKD", "INT_OFF")
            BY <1>0, <1>4, <2>1, CurrentFacts, Zenon
               DEF SemaphoreDown, Sleeps, BlockThread, Goto
        <3> QED
            BY <1>0, <1>1, <1>2, <3>1, OnlyCallerBlocks, Zenon
    <2>2. CASE value[l] # 0
        <3>1. pc' = [pc EXCEPT ![current] = "acquired"] /\ UNCHANGED status
            BY <1>4, <2>2, Zenon DEF SemaphoreDown, Sleeps, Goto, queueVars
        <3> QED
            BY <1>1, <1>2, <3>1, Zenon
    <2> QED
        BY <2>1, <2>2, Zenon
<1>5. ASSUME NEW l \in Lock, SemaphoreUp(l) PROVE LockSleepers'
    <2>1. pc' = [pc EXCEPT ![current] = "idle"]
        BY <1>5, Zenon DEF SemaphoreUp, Goto
    <2>2. UNCHANGED status \/ \E x : status' = [status EXCEPT ![x] = "TASK_READY"]
        BY <1>1, <1>5, Zenon
           DEF SemaphoreUp, WakeFirst, UnblockThread, PanicSpin, threadVars, queueVars
    <2> QED
        BY <1>1, <1>2, <2>1, <2>2, Zenon
<1>6. ASSUME UNCHANGED status,
             UNCHANGED pc \/ \E label : pc' = [pc EXCEPT ![current] = label]
      PROVE  LockSleepers'
    BY <1>1, <1>2, <1>6, Zenon
<1>7. CASE \/ \E stat \in IntStatus : CallerInt(stat)
           \/ UNCHANGED vars
    BY <1>6, <1>7, Zenon
       DEF CallerInt, SetIntStatus, queueVars, syncVars, vars, threadVars
<1>8. ASSUME NEW l \in Lock, sys_lock_lock(l) \/ SetHolder(l) \/ ClearHolder(l)
      PROVE  LockSleepers'
    BY <1>6, <1>8, Zenon
       DEF sys_lock_lock, SetHolder, ClearHolder, Goto, threadVars, queueVars
<1>9. ASSUME NEW l \in Lock, SetRepeat(l) \/ sys_lock_unlock(l)
      PROVE  LockSleepers'
    BY <1>6, <1>9, Zenon
       DEF SetRepeat, sys_lock_unlock, PanicSpin, Goto, threadVars, queueVars, syncVars
<1> QED
    BY <1>0, <1>3, <1>4, <1>5, <1>7, <1>8, <1>9, Zenon DEF SyncNext, LockStep

\* The inductive invariant holds in every state of sync.c's callers.
LEMMA SyncInvariant == SyncSpec => [](SyncInv /\ LockSleepers)
<1>1. SyncInit => LockSleepers
    <2> SUFFICES ASSUME SyncInit PROVE LockSleepers
        OBVIOUS
    <2> QED
        BY Zenon DEF SyncInit, InitThreads, LockSleepers
<1> QED
    BY <1>1, SyncInitInv, SyncNextInv, LockSleepersNext, PTL DEF SyncSpec

-----------------------------------------------------------------------------
(***************************************************************************)
(* The locks of sync.c exclude each other's owners, whatever the number of *)
(* threads and locks and however the timer preempts them; holder and the   *)
(* counter describe the owner.                                             *)
(***************************************************************************)
THEOREM LocksExclude == SyncSpec => [](SyncTypeOK /\ Mutex /\ HolderOK)
<1>1. SyncInv => SyncTypeOK /\ Mutex /\ HolderOK
    <2> SUFFICES ASSUME SyncInv PROVE HolderOK
        BY Zenon DEF SyncInv
    <2>1. ASSUME NEW l \in Lock, NEW x \in Thread, pc[x] = "held", lk[x] = l
          PROVE  holder[l] = x /\ repeat[l] >= 1
        <3>1. holder[l] = x /\ repeat[l] > 0
            BY <2>1, Zenon DEF SyncInv, LockInv
        <3>2. repeat[l] \in 0..MaxRepeat
            BY Zenon DEF SyncInv, SyncTypeOK
        <3> QED
            BY <3>1, <3>2, SyncAssumption
    <2>2. ASSUME NEW l \in Lock, NEW x \in Thread, holder[l] = x
          PROVE  Owns(x, l)
        <3>1. LockInv
            BY Zenon DEF SyncInv
        <3>2. lk[x] = l /\ pc[x] \in {"counting", "held", "clearing"}
            BY <2>2, <3>1, Zenon DEF LockInv
        <3> QED
            BY <3>2, Zenon DEF Owns, Owning
    <2> QED
        BY <2>1, <2>2, Zenon DEF HolderOK
<1> QED
    BY <1>1, SyncInvariant, PTL

(***************************************************************************)
(* No ASSERT of the scheduler, the semaphores or the locks ever fails.  In *)
(* particular ScheduleThread always finds a thread: whoever sleeps on a    *)
(* lock leaves its owner runnable.                                         *)
(***************************************************************************)
THEOREM LocksNeverPanic == SyncSpec => [](NoPanic /\ ReadyListOK /\ WaitingListOK)
<1>1. SyncInv /\ LockSleepers => NoPanic /\ ReadyListOK /\ WaitingListOK
    BY Zenon DEF SyncInv, SchedInv, NoPanic, SleepersListed, LockSleepers, WaitingListOK
<1> QED
    BY <1>1, SyncInvariant, PTL

\* SemaphoreUp loses no wakeup, although it wakes one thread only and a
\* running thread may take the lock before the one that was woken.
THEOREM WakeupsNotLost == SyncSpec => []NoLostWakeup
<1>1. SyncInv => NoLostWakeup
    BY Zenon DEF SyncInv
<1> QED
    BY <1>1, SyncInvariant, PTL

-----------------------------------------------------------------------------
\* The refinement mapping, in terms of the thread that owns the lock.
LEMMA OwnerFacts ==
    SyncInv => \A l \in Lock :
        /\ \A x \in Thread : Owns(x, l) => OwnerOf(l) = x
        /\ (\A x \in Thread : ~ Owns(x, l)) => OwnerOf(l) = NULL /\ DepthOf(l) = 0
        /\ \A x \in Thread : Owns(x, l) =>
              DepthOf(l) = IF repeat[l] = 0 THEN 1 ELSE repeat[l]
<1> SUFFICES ASSUME SyncInv, NEW l \in Lock
             PROVE  /\ \A x \in Thread : Owns(x, l) => OwnerOf(l) = x
                    /\ (\A x \in Thread : ~ Owns(x, l)) => OwnerOf(l) = NULL /\ DepthOf(l) = 0
                    /\ \A x \in Thread : Owns(x, l) =>
                          DepthOf(l) = IF repeat[l] = 0 THEN 1 ELSE repeat[l]
    OBVIOUS
<1>1. \A x \in Thread : Owns(x, l) => OwnerOf(l) = x
    BY Zenon DEF SyncInv, Mutex, OwnerOf
<1>2. (\A x \in Thread : ~ Owns(x, l)) => OwnerOf(l) = NULL /\ DepthOf(l) = 0
    BY Zenon DEF OwnerOf, DepthOf
<1>3. \A x \in Thread : Owns(x, l) => DepthOf(l) = IF repeat[l] = 0 THEN 1 ELSE repeat[l]
    BY <1>1, SyncAssumption, Zenon DEF DepthOf
<1> QED
    BY <1>1, <1>2, <1>3, Zenon

\* A step that changes the owner of no lock, and no count that the mapping
\* sees, is a stuttering step of AbstractLock.
LEMMA LockStutters ==
    ASSUME SyncInv, SyncInv',
           \A x \in Thread, m \in Lock : Owns(x, m)' <=> Owns(x, m),
           \A m \in Lock : \/ repeat'[m] = repeat[m]
                           \/ repeat'[m] \in {0, 1} /\ repeat[m] \in {0, 1}
    PROVE  \A m \in Lock : OwnerOf(m)' = OwnerOf(m) /\ DepthOf(m)' = DepthOf(m)
<1>1. (SyncInv => \A l \in Lock :
        /\ \A x \in Thread : Owns(x, l) => OwnerOf(l) = x
        /\ (\A x \in Thread : ~ Owns(x, l)) => OwnerOf(l) = NULL /\ DepthOf(l) = 0
        /\ \A x \in Thread : Owns(x, l) =>
              DepthOf(l) = IF repeat[l] = 0 THEN 1 ELSE repeat[l])'
    BY OwnerFacts, PTL
<1> QED
    BY <1>1, OwnerFacts, Zenon

\* One step per action: taking the semaphore acquires the abstract lock,
\* raising it releases it, a nested call enters it again or leaves it, and
\* everything else is invisible.
LEMMA LockRefines ==
    SyncInv /\ SyncInv' /\ [SyncNext]_vars
        => [Abstract!AbstractNext]_<<[l \in Lock |-> OwnerOf(l)], [l \in Lock |-> DepthOf(l)]>>
<1> DEFINE own == [l \in Lock |-> OwnerOf(l)]
           dep == [l \in Lock |-> DepthOf(l)]
<1>0. SUFFICES ASSUME SyncInv, SyncInv', [SyncNext]_vars
               PROVE  [Abstract!AbstractNext]_<<own, dep>>
    OBVIOUS
<1>1. ASSUME \A x \in Thread, m \in Lock : Owns(x, m)' <=> Owns(x, m),
             \A m \in Lock : \/ repeat'[m] = repeat[m]
                             \/ repeat'[m] \in {0, 1} /\ repeat[m] \in {0, 1}
      PROVE  UNCHANGED <<own, dep>>
    BY <1>0, <1>1, LockStutters, Zenon
<1>2. (SyncInv => \A l \in Lock :
        /\ \A x \in Thread : Owns(x, l) => OwnerOf(l) = x
        /\ (\A x \in Thread : ~ Owns(x, l)) => OwnerOf(l) = NULL /\ DepthOf(l) = 0
        /\ \A x \in Thread : Owns(x, l) =>
              DepthOf(l) = IF repeat[l] = 0 THEN 1 ELSE repeat[l])'
    BY OwnerFacts, PTL
<1>3. current \in Thread /\ repeat \in [Lock -> 0..MaxRepeat] /\ kernel' = "up" /\ MaxRepeat \in Nat
      /\ pc \in [Thread -> PC] /\ lk \in [Thread -> Lock \cup {NULL}]
    BY <1>0, CurrentFacts, SyncAssumption, Zenon DEF SyncInv, SyncTypeOK, SchedInv
<1>4. ASSUME UNCHANGED syncVars PROVE UNCHANGED <<own, dep>>
    BY <1>1, <1>4, Zenon DEF syncVars, Owns
<1>5. ASSUME NEW l \in Lock, sys_lock_lock(l)
      PROVE  Abstract!AbstractNext \/ UNCHANGED <<own, dep>>
    <2>1. CASE holder[l] # current
        <3>1. pc[current] = "idle"
            BY <1>0, <1>3, <1>5, <2>1 DEF sys_lock_lock, SyncInv, LockInv
        <3>2. /\ UNCHANGED repeat
              /\ \A x \in Thread : x # current => pc'[x] = pc[x] /\ lk'[x] = lk[x]
              /\ pc'[current] = "down"
            BY <1>3, <1>5, <2>1, Zenon DEF sys_lock_lock, Goto
        <3>3. \A x \in Thread, m \in Lock : Owns(x, m)' <=> Owns(x, m)
            BY <3>1, <3>2, Zenon DEF Owns, Owning
        <3> QED
            BY <1>1, <3>2, <3>3, Zenon
    <2>2. CASE holder[l] = current
        <3>1. /\ pc[current] = "held" /\ lk[current] = l
              /\ repeat' = [repeat EXCEPT ![l] = @ + 1]
              /\ UNCHANGED <<pc, lk>>
            BY <1>0, <1>3, <1>5, <2>2, Zenon DEF sys_lock_lock, SyncInv, LockInv
        <3>2. repeat[l] > 0
            BY <1>0, <1>3, <3>1 DEF SyncInv, LockInv
        <3>3. \A x \in Thread, m \in Lock : Owns(x, m)' <=> Owns(x, m)
            BY <3>1, Zenon DEF Owns
        <3>4. Owns(current, l)
            BY <3>1, Zenon DEF Owns, Owning
        <3>5. own' = own
            <4>1. \A m \in Lock : OwnerOf(m)' = OwnerOf(m)
                BY <1>0, <1>2, <3>3, OwnerFacts, Zenon
            <4> QED
                BY <4>1, Zenon
        <3>6. own[l] = current /\ DepthOf(l)' = DepthOf(l) + 1
            BY <1>0, <1>2, <1>3, <3>1, <3>2, <3>3, <3>4, OwnerFacts
        <3>7. \A m \in Lock : m # l => DepthOf(m)' = DepthOf(m)
            BY <1>0, <1>2, <1>3, <3>1, <3>3, OwnerFacts
        <3>8. dep' = [dep EXCEPT ![l] = @ + 1]
            BY <3>6, <3>7, Zenon
        <3> QED
            BY <1>3, <3>5, <3>6, <3>8, Zenon DEF Abstract!AbstractNext, Abstract!Reenter
    <2> QED
        BY <2>1, <2>2, Zenon
<1>6. ASSUME NEW l \in Lock, SemaphoreDown(l)
      PROVE  Abstract!AbstractNext \/ UNCHANGED <<own, dep>>
    <2>0. pc[current] \in {"down", "retry"} /\ lk[current] = l
        BY <1>6, Zenon DEF SemaphoreDown
    <2>1. CASE value[l] = 0
        <3>1. /\ pc' = [pc EXCEPT ![current] = "retry"]
              /\ UNCHANGED <<repeat, lk>>
            BY <1>0, <1>6, <2>1, CurrentFacts, Zenon DEF SemaphoreDown, Sleeps, Goto
        <3>2. \A x \in Thread, m \in Lock : Owns(x, m)' <=> Owns(x, m)
            BY <1>3, <2>0, <3>1, Zenon DEF Owns, Owning
        <3> QED
            BY <1>1, <3>1, <3>2, Zenon
    <2>2. CASE value[l] # 0
        <3>1. /\ pc' = [pc EXCEPT ![current] = "acquired"]
              /\ UNCHANGED <<repeat, lk>>
            BY <1>6, <2>2, Zenon DEF SemaphoreDown, Sleeps, Goto
        <3>2. \A x \in Thread : ~ Owns(x, l)
            BY <1>0, <2>2, Zenon DEF SyncInv, SemaphoreInv
        <3>3. repeat[l] = 0
            <4>1. ~ \E x \in Thread : lk[x] = l /\ pc[x] = "held"
                BY <3>2, Zenon DEF Owns, Owning
            <4>2. ~ (repeat[l] > 0)
                BY <1>0, <4>1, Zenon DEF SyncInv, LockInv
            <4> QED
                BY <1>3, <4>2
        <3>4. \A x \in Thread, m \in Lock : Owns(x, m)' <=> Owns(x, m) \/ (x = current /\ m = l)
            BY <1>3, <2>0, <3>1, Zenon DEF Owns, Owning
        <3>5. OwnerOf(l) = NULL /\ OwnerOf(l)' = current /\ DepthOf(l)' = 1
            BY <1>0, <1>2, <1>3, <3>1, <3>2, <3>3, <3>4, OwnerFacts, Zenon
        <3>6. \A m \in Lock : m # l => OwnerOf(m)' = OwnerOf(m) /\ DepthOf(m)' = DepthOf(m)
            BY <1>0, <1>2, <3>1, <3>4, OwnerFacts, Zenon
        <3>7. own[l] = NULL /\ own' = [own EXCEPT ![l] = current] /\ dep' = [dep EXCEPT ![l] = 1]
            BY <3>5, <3>6, Zenon
        <3> QED
            BY <1>3, <3>7, Zenon DEF Abstract!AbstractNext, Abstract!Acquire
    <2> QED
        BY <2>1, <2>2, Zenon
<1>7. ASSUME NEW l \in Lock, SetHolder(l) \/ SetRepeat(l) \/ ClearHolder(l)
      PROVE  UNCHANGED <<own, dep>>
    <2>1. /\ pc[current] \in Owning /\ UNCHANGED lk
          /\ \/ \E label \in Owning : pc' = [pc EXCEPT ![current] = label]
             \/ UNCHANGED pc
        BY <1>7, Zenon DEF SetHolder, SetRepeat, ClearHolder, Goto, Owning, syncVars
    <2>2. \A x \in Thread, m \in Lock : Owns(x, m)' <=> Owns(x, m)
        BY <1>3, <2>1, Zenon DEF Owns
    <2>3. \A m \in Lock : \/ repeat'[m] = repeat[m]
                          \/ repeat'[m] \in {0, 1} /\ repeat[m] \in {0, 1}
        BY <1>3, <1>7, Zenon DEF SetHolder, SetRepeat, ClearHolder, syncVars
    <2> QED
        BY <1>1, <2>2, <2>3, Zenon
<1>8. ASSUME NEW l \in Lock, sys_lock_unlock(l)
      PROVE  Abstract!AbstractNext \/ UNCHANGED <<own, dep>>
    <2>1. /\ pc[current] = "held" /\ lk[current] = l
          /\ holder[l] = current /\ repeat[l] \in 1..MaxRepeat
        <3>1. pc[current] = "held" /\ lk[current] = l
            BY <1>8, Zenon DEF sys_lock_unlock
        <3>2. holder[l] = current /\ repeat[l] > 0
            BY <1>0, <1>3, <3>1 DEF SyncInv, LockInv
        <3> QED
            BY <1>3, <3>1, <3>2
    <2>2. /\ repeat' = [repeat EXCEPT ![l] = repeat[l] - 1]
          /\ IF repeat[l] > 1 THEN UNCHANGED pc ELSE pc' = [pc EXCEPT ![current] = "clearing"]
          /\ UNCHANGED lk
        <3>1. ~ (holder[l] # current \/ repeat[l] < 1)
            BY <1>3, <2>1
        <3> QED
            BY <1>8, <3>1, Zenon DEF sys_lock_unlock, Goto
    <2>3. \A x \in Thread, m \in Lock : Owns(x, m)' <=> Owns(x, m)
        BY <1>3, <2>1, <2>2, Zenon DEF Owns, Owning
    <2>4. Owns(current, l)
        BY <2>1, Zenon DEF Owns, Owning
    <2>5. CASE repeat[l] = 1
        <3>1. \A m \in Lock : \/ repeat'[m] = repeat[m]
                              \/ repeat'[m] \in {0, 1} /\ repeat[m] \in {0, 1}
            BY <1>3, <2>2, <2>5
        <3> QED
            BY <1>1, <2>3, <3>1, Zenon
    <2>6. CASE repeat[l] # 1
        <3>1. own[l] = current /\ DepthOf(l) = repeat[l] /\ repeat[l] > 1
            BY <1>0, <1>3, <2>1, <2>4, <2>6, OwnerFacts
        <3>2. repeat'[l] = repeat[l] - 1 /\ repeat'[l] # 0
            BY <1>3, <2>1, <2>2, <2>6
        <3>3. DepthOf(l)' = DepthOf(l) - 1
            BY <1>0, <1>2, <1>3, <2>3, <2>4, <3>1, <3>2, Zenon
        <3>4. \A m \in Lock : m # l => DepthOf(m)' = DepthOf(m)
            BY <1>0, <1>2, <1>3, <2>2, <2>3, OwnerFacts, Zenon
        <3>5. own' = own
            <4>1. ASSUME NEW m \in Lock PROVE OwnerOf(m)' = OwnerOf(m)
                <5>1. CASE \E x \in Thread : Owns(x, m)
                    <6>1. PICK x \in Thread : Owns(x, m)
                        BY <5>1, Zenon
                    <6>2. OwnerOf(m) = x
                        BY <1>0, <6>1, OwnerFacts, Zenon
                    <6>3. Owns(x, m)'
                        BY <2>3, <6>1, Zenon
                    <6>4. OwnerOf(m)' = x
                        BY <1>0, <1>2, <6>3, Zenon
                    <6> QED
                        BY <6>2, <6>4, Zenon
                <5>2. CASE \A x \in Thread : ~ Owns(x, m)
                    <6>1. OwnerOf(m) = NULL
                        BY <1>0, <5>2, OwnerFacts, Zenon
                    <6>2. \A x \in Thread : ~ Owns(x, m)'
                        BY <2>3, <5>2, Zenon
                    <6>3. OwnerOf(m)' = NULL
                        BY <1>0, <1>2, <6>2, Zenon
                    <6> QED
                        BY <6>1, <6>3, Zenon
                <5> QED
                    BY <5>1, <5>2, Zenon
            <4> QED
                BY <4>1, Zenon
        <3>6. dep[l] > 1 /\ dep' = [dep EXCEPT ![l] = @ - 1]
            BY <3>1, <3>3, <3>4, Zenon
        <3> QED
            BY <1>3, <3>1, <3>5, <3>6, Zenon DEF Abstract!AbstractNext, Abstract!Leave
    <2> QED
        BY <2>5, <2>6, Zenon
<1>9. ASSUME NEW l \in Lock, SemaphoreUp(l) PROVE Abstract!AbstractNext
    <2>1. /\ pc[current] = "up" /\ lk[current] = l
          /\ pc' = [pc EXCEPT ![current] = "idle"]
          /\ lk' = [lk EXCEPT ![current] = NULL]
          /\ UNCHANGED repeat
        BY <1>9, Zenon DEF SemaphoreUp, Goto
    <2>2. Owns(current, l) /\ \A x \in Thread : Owns(x, l) => x = current
        BY <1>0, <1>3, <2>1, Zenon DEF Owns, Owning, SyncInv, Mutex
    <2>3. repeat[l] = 0
        <3>1. ASSUME NEW x \in Thread, lk[x] = l, pc[x] = "held" PROVE FALSE
            <4>1. Owns(x, l)
                BY <3>1, Zenon DEF Owns, Owning
            <4>2. x = current
                BY <2>2, <4>1, Zenon
            <4> QED
                BY <2>1, <3>1, <4>2, Zenon
        <3>2. ~ (repeat[l] > 0)
            BY <1>0, <3>1, Zenon DEF SyncInv, LockInv
        <3> QED
            BY <1>3, <3>2
    <2>4. \A x \in Thread, m \in Lock : Owns(x, m)' <=> Owns(x, m) /\ m # l
        BY <1>3, <2>1, <2>2, SyncAssumption, Zenon DEF Owns, Owning
    <2>5. /\ OwnerOf(l) = current /\ DepthOf(l) = 1
          /\ OwnerOf(l)' = NULL /\ DepthOf(l)' = 0
        BY <1>0, <1>2, <1>3, <2>2, <2>3, <2>4, OwnerFacts, Zenon
    <2>6. \A m \in Lock : m # l => OwnerOf(m)' = OwnerOf(m) /\ DepthOf(m)' = DepthOf(m)
        BY <1>0, <1>2, <2>1, <2>4, OwnerFacts
    <2>7. /\ own[l] = current /\ dep[l] = 1
          /\ own' = [own EXCEPT ![l] = NULL] /\ dep' = [dep EXCEPT ![l] = 0]
        BY <2>5, <2>6, Zenon
    <2> QED
        BY <1>3, <2>7, Zenon DEF Abstract!AbstractNext, Abstract!Release
<1>10. CASE Tick \/ (\E stat \in IntStatus : CallerInt(stat)) \/ UNCHANGED vars
    BY <1>4, <1>10, Zenon DEF Tick, CallerInt, vars
<1> QED
    BY <1>0, <1>5, <1>6, <1>7, <1>8, <1>9, <1>10, Zenon DEF SyncNext, LockStep

(***************************************************************************)
(* The locks of sync.c, built from a semaphore, a holder and a counter     *)
(* that are set in separate steps with the timer between them, implement   *)
(* reentrant mutual exclusion locks (AbstractLock), for any number of      *)
(* threads and locks.                                                      *)
(***************************************************************************)
THEOREM LocksImplement == SyncSpec => ImplementsLock
<1>1. SyncInit => Abstract!AbstractInit
    <2> SUFFICES ASSUME SyncInit PROVE Abstract!AbstractInit
        OBVIOUS
    <2>1. \A l \in Lock, x \in Thread : ~ Owns(x, l)
        BY Zenon DEF SyncInit, Owns, Owning
    <2>2. \A l \in Lock : OwnerOf(l) = NULL /\ DepthOf(l) = 0
        BY <2>1, Zenon DEF OwnerOf, DepthOf
    <2> QED
        BY <2>2, Zenon DEF Abstract!AbstractInit
<1> QED
    BY <1>1, LockRefines, SyncInvariant, PTL
    DEF SyncSpec, ImplementsLock, Abstract!AbstractSpec

-----------------------------------------------------------------------------
\* A switch to another thread gives that thread the status it will have found
\* restored, and keeps the status of the thread that is left.
LEMMA SwitchKeepsInt ==
    ASSUME SyncInv, SyncInv', NEW stat, NEW saved, ScheduleThread(stat, saved),
           \A x \in Thread : x # current => pc'[x] = pc[x] /\ frame'[x] = frame[x],
           IF pc'[current] = "retry" THEN frame'[current] = IntOf(current)
           ELSE pc[current] # "retry" /\ intr = saved
    PROVE  \A x \in Thread : IntOf(x)' = IntOf(x)
<1>1. kernel' = "up" /\ current \in Thread /\ current' \in Thread
      /\ resume \in [Thread -> IntStatus]
    BY CurrentFacts, Zenon DEF SyncInv, SchedInv, ThreadTypeOK
<1>2. /\ resume' = [resume EXCEPT ![current] = saved]
      /\ intr' = IF current' = current THEN saved ELSE resume[current']
    BY <1>1, Zenon DEF ScheduleThread, PanicSpin
<1> QED
    BY <1>1, <1>2, Zenon DEF IntOf

(***************************************************************************)
(* A thread gets its interrupt status back from sys_lock_lock and          *)
(* sys_lock_unlock, however long it slept in between and whatever the      *)
(* other threads did to the flag: switch_to does not save eflags, but      *)
(* SemaphoreDown restores the status it found.                             *)
(***************************************************************************)
THEOREM IntStatusRestored == SyncSpec => IntStatusKept
<1> DEFINE Kept == \A x \in Thread :
                      IntOf(x)' # IntOf(x) => current = x /\ pc[x] \in {"idle", "held"}
<1>1. SyncInv /\ SyncInv' /\ [SyncNext]_vars => [Kept]_vars
    <2>0. SUFFICES ASSUME SyncInv, SyncInv', SyncNext
                   PROVE  Kept
        OBVIOUS
    <2>1. /\ current \in Thread /\ kernel = "up" /\ kernel' = "up"
          /\ pc \in [Thread -> PC] /\ frame \in [Thread -> IntStatus]
        BY <2>0, CurrentFacts, Zenon DEF SyncInv, SyncTypeOK, SchedInv
    <2>2. ASSUME UNCHANGED <<current, intr, resume, frame>>,
                 \A x \in Thread : pc'[x] = "retry" <=> pc[x] = "retry"
          PROVE  Kept
        BY <2>2, Zenon DEF IntOf
    <2>3. CASE Tick
        <3>1. IntTimerHandler /\ UNCHANGED <<pc, frame>>
            BY <2>3, Zenon DEF Tick, syncVars
        <3>2. CASE ticksLeft[current] = 0
            <4>1. ScheduleThread("TASK_RUNNING", "INT_ON") /\ intr = "INT_ON"
                BY <3>1, <3>2, Zenon DEF IntTimerHandler
            <4>2. IF pc'[current] = "retry" THEN frame'[current] = IntOf(current)
                  ELSE pc[current] # "retry" /\ intr = "INT_ON"
                BY <3>1, <4>1, Zenon DEF IntOf
            <4> QED
                BY <2>0, <3>1, <4>1, <4>2, SwitchKeepsInt, Zenon
        <3>3. CASE ticksLeft[current] # 0
            BY <2>2, <3>1, <3>3, Zenon DEF IntTimerHandler, cpuVars
        <3> QED
            BY <3>2, <3>3, Zenon
    <2>4. ASSUME NEW stat \in IntStatus, CallerInt(stat) PROVE Kept
        <3>1. /\ pc[current] \in {"idle", "held"}
              /\ UNCHANGED <<current, resume, pc, frame>>
            BY <2>4, Zenon DEF CallerInt, SetIntStatus, syncVars
        <3> QED
            BY <3>1, Zenon DEF IntOf
    <2>5. ASSUME NEW l \in Lock, sys_lock_lock(l) PROVE Kept
        <3>1. /\ UNCHANGED <<current, intr, resume, frame>>
              /\ pc[current] \in {"idle", "held"}
              /\ pc' = [pc EXCEPT ![current] = "down"] \/ pc' = pc
            BY <2>5, Zenon DEF sys_lock_lock, Goto, threadVars, cpuVars
        <3> QED
            BY <2>1, <2>2, <3>1, Zenon
    <2>6. ASSUME NEW l \in Lock, SemaphoreDown(l) PROVE Kept
        <3>1. pc[current] \in {"down", "retry"} /\ IntOf(current) = OldInt
            BY <2>6, Zenon DEF SemaphoreDown, IntOf, OldInt
        <3>2. CASE value[l] = 0
            <4>1. /\ ScheduleThread("TASK_BLOCKD", "INT_OFF")
                  /\ pc' = [pc EXCEPT ![current] = "retry"]
                  /\ frame' = [frame EXCEPT ![current] = OldInt]
                BY <2>0, <2>6, <3>2, CurrentFacts, Zenon
                   DEF SemaphoreDown, Sleeps, BlockThread, Goto
            <4>2. /\ \A x \in Thread : x # current => pc'[x] = pc[x] /\ frame'[x] = frame[x]
                  /\ pc'[current] = "retry" /\ frame'[current] = IntOf(current)
                BY <2>1, <3>1, <4>1, Zenon
            <4> QED
                BY <2>0, <4>1, <4>2, SwitchKeepsInt, Zenon
        <3>3. CASE value[l] # 0
            <4>1. /\ UNCHANGED <<current, resume>> /\ intr' = OldInt
                  /\ pc' = [pc EXCEPT ![current] = "acquired"]
                  /\ frame' = [frame EXCEPT ![current] = "INT_ON"]
                BY <2>6, <3>3, Zenon DEF SemaphoreDown, Sleeps, Goto
            <4>2. \A x \in Thread : IntOf(x)' = IntOf(x)
                BY <2>1, <3>1, <4>1, Zenon DEF IntOf
            <4> QED
                BY <4>2, Zenon
        <3> QED
            BY <3>2, <3>3, Zenon
    <2>7. ASSUME NEW l \in Lock,
                 SetHolder(l) \/ SetRepeat(l) \/ sys_lock_unlock(l) \/ ClearHolder(l)
          PROVE  Kept
        <3>1. /\ UNCHANGED <<current, intr, resume, frame>>
              /\ pc[current] \in Owning
              /\ (\E label \in Owning : pc' = [pc EXCEPT ![current] = label]) \/ pc' = pc
            BY <2>1, <2>7, Zenon
            DEF SetHolder, SetRepeat, sys_lock_unlock, ClearHolder, PanicSpin, Goto, Owning,
                threadVars, cpuVars, syncVars
        <3> QED
            BY <2>1, <2>2, <3>1, Zenon DEF Owning
    <2>8. ASSUME NEW l \in Lock, SemaphoreUp(l) PROVE Kept
        <3>1. pc[current] = "up" /\ pc' = [pc EXCEPT ![current] = "idle"] /\ UNCHANGED frame
            BY <2>8, Zenon DEF SemaphoreUp, Goto
        <3>2. UNCHANGED <<current, intr, resume>>
            BY <2>1, <2>8, Zenon
            DEF SemaphoreUp, WakeFirst, UnblockThread, PanicSpin, threadVars, cpuVars
        <3> QED
            BY <2>1, <2>2, <3>1, <3>2, Zenon
    <2> QED
        BY <2>0, <2>3, <2>4, <2>5, <2>6, <2>7, <2>8, Zenon DEF SyncNext, LockStep
<1> QED
    BY <1>1, SyncInvariant, PTL DEF SyncSpec, IntStatusKept

=============================================================================
