------------------------------ MODULE Context ------------------------------
(***************************************************************************)
(* How the registers of a thread are kept: the entry and exit of           *)
(* interrupts and system calls (source/kernel/kernel.S), switch_to         *)
(* (source/thread/switch.S), and the stacks that ThreadCreate and          *)
(* StartProcess prepare as if such code had left them.  A machine is a     *)
(* record of registers and a kernel stack, a sequence with the top first;  *)
(* eip says which code is next.  Only the vectors whose handlers return    *)
(* are taken; the others end in the loop of GeneralIntHandler.             *)
(***************************************************************************)
EXTENDS Integers, Sequences, SequencesExt

CONSTANTS
    Runner,     \* the threads
    Program,    \* those that ExecProcess has made, to run in user mode
    First,      \* the one that runs at first
    Vector,     \* the interrupts: the clock, the keyboard, the spurious ones
    Arity       \* the numbers of arguments of a system call

ASSUME ContextAssumption ==
    /\ Program \subseteq Runner /\ First \in Runner \ Program
    /\ Vector \subseteq {32, 33, 39, 47} /\ Arity \subseteq 0..3

General == <<"eax", "ecx", "edx", "ebx", "esp", "ebp", "esi", "edi">>  \* as pushad
Segment == <<"ds", "es", "fs", "gs">>
Return == <<"ss", "esp", "eflags", "cs", "eip">>    \* what an interrupt pushes
CalleeSaved == <<"esi", "edi", "ebx", "ebp">>
Register == Range(General) \cup Range(Segment) \cup Range(Return)

\* Words: those of the kernel, and those that thread t itself puts in r.
K(name) == <<"kernel", name>>
Word(t, r, n) == <<t, r, n>>

Zero == K("0")
KernelCode == K("SELECTOR_K_CODE")
On == K("EFLAGS_IF_1")
Off == K("EFLAGS_IF_0")

VARIABLES
    machine,    \* the registers, and the stack of the thread that runs
    running,
    kept,       \* the stack at self_kernel_stack, of the threads that do not run
    due         \* the stack, and the registers as far as the thread counts on them,
                \* that it is to find when its own code goes on (history)

contextVars == <<machine, running, kept, due>>

-----------------------------------------------------------------------------
Push(m, value) == [m EXCEPT !.stack = <<value>> \o @]
PushRegs(m, regs) ==
    [m EXCEPT !.stack = Reverse([i \in 1..Len(regs) |-> m.reg[regs[i]]]) \o @]

Drop(m, n) == [m EXCEPT !.stack = SubSeq(@, n + 1, Len(@))]
PopRegs(m, regs) ==
    Drop([m EXCEPT !.reg = [r \in Register |-> IF Contains(regs, r)
                                              THEN m.stack[CHOOSE i \in 1..Len(regs) : regs[i] = r]
                                              ELSE @[r]]],
         Len(regs))
Goto(m, name) == [m EXCEPT !.reg["eip"] = K(name)]

\* popad takes no notice of the esp that pushad has pushed.
popad(m) ==
    [PopRegs(m, Reverse(General)) EXCEPT !.reg["esp"] = m.reg["esp"]]

\* The gates are interrupt gates.  From user mode the processor goes to the stack
\* at esp0, the end of the page, and pushes ss and esp, which iretd pops again.
enter(m) ==
    LET n == IF m.reg["cs"] = KernelCode THEN PushRegs(m, SubSeq(Return, 3, 5))
             ELSE PushRegs([m EXCEPT !.stack = <<>>], Return)
    IN  [n EXCEPT !.reg["cs"] = KernelCode, !.reg["ss"] = K("SELECTOR_K_STACK"),
                  !.reg["esp"] = K("esp0"), !.reg["eflags"] = Off]

iretd(m) ==
    LET n == PopRegs(m, <<"eip", "cs", "eflags">>)
    IN  IF n.reg["cs"] = KernelCode THEN n ELSE PopRegs(n, <<"esp", "ss">>)

\* A C function may change eax, ecx and edx, and gs if it prints; its result is
\* in eax.
Called(m, result) ==
    [m EXCEPT !.reg["eax"] = result, !.reg["ecx"] = K("any"), !.reg["edx"] = K("any"),
              !.reg["gs"] = K("SELECTOR_VIDEO")]

-----------------------------------------------------------------------------
\* An interrupt, up to the call of the handler.  None of these has an error code.
VECTOR(m, vector) ==
    Goto(Push(PushRegs(Push(enter(m), Zero), Segment \o General), <<"vector", vector>>), "handler")

\* Mutant: gs to ds are popped in the order in which they were pushed.
IntExit_Order(m) ==
    iretd(Drop(PopRegs(popad(Drop(m, 1)), Segment), 1))

IntExit(m) ==
    iretd(Drop(PopRegs(popad(Drop(m, 1)), Reverse(Segment)), 1))

\* The registers at the int 0x80 of a system call (_syscall0 to _syscall3).
syscall(m, number, args) ==
    LET regs == <<"eax", "ebx", "ecx", "edx">>
        value == <<number>> \o args
    IN  [m EXCEPT !.reg = [r \in Register |->
            IF \E i \in 1..Len(value) : regs[i] = r
            THEN value[CHOOSE i \in 1..Len(value) : regs[i] = r] ELSE @[r]]]

\* The frame of a system call, with the arguments on top, and its end.
syscall_entry(m) ==
    Goto(PushRegs(Push(PushRegs(Push(enter(m), Zero), Segment \o General), K("0x80")),
                  <<"edx", "ecx", "ebx">>), "syscall")

syscall_exit(m) ==
    LET n == Drop(m, 3) IN IntExit([n EXCEPT !.stack[9] = n.reg["eax"]])

\* switch_to(current, next), called by ScheduleThread.
switch_to(m, next) ==
    LET call == Push(Push(Push(m, next), running), K("ScheduleThread"))
        n == PushRegs(call, CalleeSaved)
        saved == [kept EXCEPT ![n.stack[6]] = n.stack]
        entered == [n EXCEPT !.stack = saved[n.stack[7]]]
        popped == PopRegs(entered, Reverse(CalleeSaved))
    IN  [machine |-> PopRegs(popped, <<"eip">>), kept |-> [saved EXCEPT ![next] = <<>>]]

\* What ThreadCreate is given for t, and struct thread_stack as it fills it.
Function(t) == IF t \in Program THEN K("StartProcess") ELSE Word(t, "eip", 0)
Argument(t) == Word(t, "func_arg", 0)

ThreadCreate(function, func_arg) ==
    <<Zero, Zero, Zero, Zero, K("KernelThread"), K("dummy_ret"), function, func_arg>>

\* struct INT_stack as StartProcess fills it; the PCB was cleared before.
INT_stack(function) ==
    [i \in 1..9 |-> Zero] \o
    << Zero, K("SELECTOR_U_DATA"), K("SELECTOR_U_DATA"), K("SELECTOR_U_DATA"),
       Zero, function, K("SELECTOR_U_CODE"), On, K("esp3"), K("SELECTOR_U_STACK") >>

\* The registers a program starts with.
Started(t) ==
    [r \in Register |->
        CASE r \in {"ds", "es", "fs"} -> K("SELECTOR_U_DATA")
          [] r = "eip" -> Argument(t)
          [] r = "cs" -> K("SELECTOR_U_CODE")
          [] r = "eflags" -> On
          [] r = "esp" -> K("esp3")
          [] r = "ss" -> K("SELECTOR_U_STACK")
          [] OTHER -> Zero]

\* The same structures in bytes.  self_kernel_stack is a pointer to words, so
\* that ThreadCreate and StartProcess move it by four times the size.
PAGE_SIZE == 4096
SizeInt == 4 * Len(INT_stack(Zero))
SizeThread == 4 * Len(ThreadCreate(Zero, Zero))
FirstStack == PAGE_SIZE - 4 * SizeInt - 4 * SizeThread
StartFrame(self_kernel_stack) == self_kernel_stack + 4 * SizeThread

GetCurrentThreadPCB(esp) == esp - (esp % PAGE_SIZE)

\* The frame that StartProcess fills is in the page and above the stack in use,
\* safe from the calls it makes; and GetCurrentThreadPCB finds the page from any
\* esp in it.
ASSUME FrameAboveStack ==
    /\ StartFrame(FirstStack) \in FirstStack + SizeThread .. PAGE_SIZE - SizeInt
    /\ \A esp \in 1..PAGE_SIZE - 1 : GetCurrentThreadPCB(7 * PAGE_SIZE + esp) = 7 * PAGE_SIZE

-----------------------------------------------------------------------------
ContextInit ==
    /\ running = First
    /\ machine = [reg |-> [r \in Register |->
                            CASE r \in {"ds", "es", "fs"} -> K("SELECTOR_K_DATA")
                              [] r = "gs" -> K("SELECTOR_VIDEO")
                              [] r = "cs" -> KernelCode
                              [] r = "ss" -> K("SELECTOR_K_STACK")
                              [] r = "esp" -> K("esp0")
                              [] r = "eflags" -> On
                              [] OTHER -> Word(First, r, 0)],
                  stack |-> <<>>]
    /\ kept = [t \in Runner |-> IF t = First THEN <<>> ELSE ThreadCreate(Function(t), Argument(t))]
    /\ due = [t \in Runner |-> machine]

At(name) == machine.reg["eip"] = K(name)

\* The thread is in its own code, in either mode, or in StartProcess.
OwnCode ==
    \A name \in {"handler", "syscall", "ScheduleThread", "KernelThread"} : ~ At(name)

Expect(m, regs) ==
    due' = [due EXCEPT ![running] = [m EXCEPT !.reg = [r \in regs |-> @[r]]]]

\* The thread goes on for a while.
Work(n) ==
    /\ OwnCode /\ ~ At("StartProcess")
    /\ machine' = [machine EXCEPT !.reg = [r \in Register |->
                      IF r \in (Range(General) \ {"esp"}) \cup {"eip"} THEN Word(running, r, n)
                      ELSE @[r]]]
    /\ Expect(machine', Register)
    /\ UNCHANGED <<running, kept>>

Interrupt(vector) ==
    /\ OwnCode /\ machine.reg["eflags"] = On
    /\ machine' = VECTOR(machine, vector)
    /\ Expect(machine, Register)
    /\ UNCHANGED <<running, kept>>

EndInterrupt ==
    /\ At("handler")
    /\ machine' = IntExit(Called(machine, K("any")))
    /\ UNCHANGED <<running, kept, due>>

\* int 0x80 with n arguments, and its end.
Syscall(n) ==
    LET args == [i \in 1..n |-> Word(running, "arg", i)]
        caller == syscall(machine, K("number"), args)
    IN  /\ OwnCode /\ machine.reg["cs"] # KernelCode
        /\ machine' = syscall_entry(caller)
        /\ Expect(caller, Register)
        /\ UNCHANGED <<running, kept>>

EndSyscall ==
    LET result == K("result")
    IN  /\ At("syscall")
        /\ machine' = syscall_exit(Called(machine, result))
        /\ due' = [due EXCEPT ![running].reg["eax"] = result]
        /\ UNCHANGED <<running, kept>>

ScheduleThread(m, next) ==
    LET s == switch_to(m, next)
    IN  machine' = s.machine /\ kept' = s.kept /\ running' = next

\* The handler of the clock, at the end of the quantum.
IntTimerHandler(next) ==
    /\ At("handler") /\ machine.stack[1] = <<"vector", 32>>
    /\ ScheduleThread(Push(Called(machine, K("any")), machine.reg["eip"]), next)
    /\ UNCHANGED due

\* A thread blocks, in its own code or in a system call.  It has the status of
\* the interrupts on the stack, and as the caller of a C function it counts on
\* the registers that such a function preserves.
BlockThread(next) ==
    LET m == Called(machine, K("any"))
        call == Push(Push(Push(m, m.reg["eip"]), m.reg["eflags"]), K("BlockThread"))
    IN  /\ next # running
        /\ machine.reg["cs"] = KernelCode
        /\ \/ /\ OwnCode
              /\ Expect(machine, Range(CalleeSaved) \cup Range(Return))
           \/ At("syscall") /\ UNCHANGED due
        /\ ScheduleThread([call EXCEPT !.reg["eflags"] = Off], next)

\* Back from switch_to, ScheduleThread returns to the handler or to BlockThread,
\* which restores the status of the interrupts and returns.
ScheduleReturns ==
    LET n == PopRegs(Drop(machine, 2), <<"eip">>)
    IN  /\ At("ScheduleThread")
        /\ machine' = IF n.reg["eip"] = K("BlockThread") THEN PopRegs(n, <<"eflags", "eip">>)
                      ELSE n
        /\ UNCHANGED <<running, kept, due>>

\* The first steps of a thread: EnableInt and the call of its function.
KernelThread ==
    LET call == Push(Push(machine, machine.stack[3]), K("KernelThread"))
        args == <<K("KernelThread"), Argument(running),
                  K("dummy_ret"), Function(running), Argument(running)>>
    IN  /\ At("KernelThread")
        /\ machine' = [call EXCEPT !.reg["eip"] = machine.stack[2], !.reg["eflags"] = On]
        /\ Expect([machine EXCEPT !.reg["eip"] = Function(running), !.stack = args], {"eip"})
        /\ UNCHANGED <<running, kept>>

\* StartProcess fills its frame and leaves through IntExit.  It is taken to have
\* reached process.c:18 within the first quantum of the thread.
StartProcess ==
    /\ At("StartProcess")
    /\ machine' = IntExit([machine EXCEPT !.stack = INT_stack(machine.stack[2])])
    /\ Expect([reg |-> Started(running), stack |-> <<>>], Register)
    /\ UNCHANGED <<running, kept>>

ContextNext ==
    \/ \E n \in 0..1 : Work(n)
    \/ \E vector \in Vector : Interrupt(vector)
    \/ EndInterrupt
    \/ \E n \in Arity : Syscall(n)
    \/ EndSyscall
    \/ \E next \in Runner : IntTimerHandler(next) \/ BlockThread(next)
    \/ ScheduleReturns \/ KernelThread \/ StartProcess

ContextSpec == ContextInit /\ [][ContextNext]_contextVars

-----------------------------------------------------------------------------
(***************************************************************************)
(* When the code of a thread goes on, its stack is as it left it, and so   *)
(* are its registers: all of them after an interrupt, in either mode, all  *)
(* but eax after a system call, and those that a C function preserves      *)
(* after BlockThread, whatever other threads have run, blocked, been       *)
(* interrupted or started meanwhile.  New threads and programs start with  *)
(* the words that ThreadCreate and StartProcess have written, and a system *)
(* call finds its arguments on top of the stack.  Pushes, pops and the C   *)
(* structures that mirror them (thread.h:22-60) must agree for this.       *)
(***************************************************************************)
ContextKept ==
    LET own == due[running]
    IN  /\ OwnCode => /\ machine.stack = own.stack
                      /\ \A r \in DOMAIN own.reg : machine.reg[r] = own.reg[r]
        /\ At("syscall") =>
              SubSeq(machine.stack, 1, 3) = <<own.reg["ebx"], own.reg["ecx"], own.reg["edx"]>>
=============================================================================
