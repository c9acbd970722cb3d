--------------------------- MODULE KeyboardOutput ---------------------------
(***************************************************************************)
(* The way of a character through the running kernel: the keyboard         *)
(* interrupt puts it into keyboard_IO_buf (device/keyboard.c), the thread  *)
(* KeyboardOutput (kernel/main.c) polls the queue and prints it under the  *)
(* console lock (device/console.c), on the queue of IoQueue, the locks of  *)
(* Sync and the scheduler of Thread.  Which character a key stands for is  *)
(* the subject of module Keyboard; here the interrupt brings any.          *)
(***************************************************************************)
EXTENDS IoQueue

CONSTANTS
    Printer,        \* the thread that runs KeyboardOutput
    ConsoleLock,    \* console_lock
    Writer          \* the other threads that call console_putstr and the like

ASSUME KeyboardOutputAssumption ==
    /\ Consumer = {Printer} /\ Polling = {Printer} /\ Producer = {}
    /\ ConsoleLock \in Lock \ {QueueLock}
    /\ Writer \subseteq Thread \ {Main, Printer}

VARIABLES
    at,     \* where KeyboardOutput is in its loop
    shown   \* the character it printed last

kbVars == <<ioVars, at, shown>>

KbInit == IoInit /\ at = "loop" /\ shown = NULL

-----------------------------------------------------------------------------
\* The keyboard interrupt, on the stack of whichever thread is running, with
\* a key that has a character: it is dropped when the queue is full.
IntKeyboardHandler(b) ==
    /\ kernel = "up"
    /\ intr = "INT_ON"
    /\ ~ ioqueueFull
    /\ PutByte(b)
    /\ UNCHANGED <<syncVars, callVars, at, shown>>

\* old_statu = DisableInt()
Disable ==
    /\ current = Printer /\ at = "loop"
    /\ IoCallerInt("INT_OFF")
    /\ at' = "test"
    /\ UNCHANGED shown

\* if (!ioqueueEmpty(&keyboard_IO_buf)), then ioqueue_getchar
Test ==
    /\ kernel = "up"
    /\ current = Printer /\ at = "test"
    /\ IF ioqueueEmpty
       THEN at' = "restore" /\ UNCHANGED ioVars
       ELSE at' = "get" /\ CallGet
    /\ UNCHANGED shown

\* Mutant: tail is moved before the character is read.
GetChar_Swapped ==
    /\ kernel = "up"
    /\ current = Printer /\ at = "get"
    /\ tail' = ptr_next_pos(tail)
    /\ byte' = [byte EXCEPT ![current] = buf[tail']]
    /\ at' = "print"
    /\ io' = [io EXCEPT ![current] = "idle"]
    /\ UNCHANGED <<vars, buf, head, sleepVars, shown>>

GetChar ==
    /\ current = Printer /\ at = "get"
    /\ TryGet
    /\ at' = IF ioqueueEmpty THEN at ELSE "print"
    /\ UNCHANGED shown

ConsoleLockAcquire ==
    /\ current = Printer /\ at = "print" /\ pc[current] = "idle"
    /\ sys_lock_lock(ConsoleLock)
    /\ UNCHANGED <<queueStateVars, at, shown>>

\* sys_putchar, between ConsoleLockAcquire and ConsoleLockRelease.
sys_putchar ==
    /\ kernel = "up"
    /\ current = Printer /\ at = "print" /\ pc[current] = "held"
    /\ shown' = byte[current]
    /\ at' = "unlock"
    /\ UNCHANGED ioVars

ConsoleLockRelease ==
    /\ current = Printer /\ at = "unlock"
    /\ sys_lock_unlock(ConsoleLock)
    /\ at' = "restore"
    /\ UNCHANGED <<queueStateVars, shown>>

\* SetIntStatus(old_statu)
Restore ==
    /\ current = Printer /\ at = "restore" /\ pc[current] = "idle"
    /\ IoCallerInt("INT_ON")
    /\ at' = "loop"
    /\ UNCHANGED shown

ConsoleStep == LockStep(ConsoleLock) /\ UNCHANGED <<queueStateVars, at, shown>>

\* console_putstr, console_putint and console_puthex of the other threads,
\* which may be called with interrupts on or off.
Write ==
    /\ current \in Writer
    /\ sys_lock_lock(ConsoleLock) \/ sys_lock_unlock(ConsoleLock)
    /\ UNCHANGED <<queueStateVars, at, shown>>

OtherInt(stat) ==
    /\ current # Printer
    /\ IoCallerInt(stat)
    /\ UNCHANGED <<at, shown>>

KbTick == IoTick /\ UNCHANGED <<at, shown>>

PrinterStep ==
    \/ Disable \/ Test \/ GetChar \/ ConsoleLockAcquire
    \/ sys_putchar \/ ConsoleLockRelease \/ Restore

KbNext ==
    \/ KbTick
    \/ \E b \in Byte : IntKeyboardHandler(b)
    \/ PrinterStep
    \/ ConsoleStep
    \/ Write
    \/ \E stat \in IntStatus : OtherInt(stat)

KbSpec == KbInit /\ [][KbNext]_kbVars

-----------------------------------------------------------------------------
Typed == INSTANCE AbstractQueue WITH
    content <- (IF at = "print" THEN <<byte[Printer]>> ELSE <<>>) \o Content,
    out <- [t \in {Printer} |-> shown],
    Capacity <- BufSize,
    Receiver <- {Printer},
    None <- NULL

(***************************************************************************)
(* From the interrupt to the screen characters keep their order and none   *)
(* that was accepted is lost or printed twice, although KeyboardOutput     *)
(* sleeps on the console lock, interrupts off, with a character in hand,   *)
(* and interrupts go on filling the queue meanwhile.                       *)
(***************************************************************************)
TypedInOrder == Typed!QueueSpec
=============================================================================
