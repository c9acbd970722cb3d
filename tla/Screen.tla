------------------------------- MODULE Screen -------------------------------
(***************************************************************************)
(* Printing (source/lib/kernel/print_asm.S): sys_putchar reads the cursor  *)
(* from the registers of the VGA controller, writes into the video memory, *)
(* and sets the cursor, in a dozen port accesses.  Threads that print with *)
(* interrupts on do so under the console lock of source/device/console.c   *)
(* (the lock that Sync implements).  The handlers print without it.        *)
(*                                                                         *)
(* bx is a 16-bit register: positions are numbers below Word, compared as  *)
(* signed ones.  Each position is two bytes of video memory, a character   *)
(* and its attribute, which is always the same.                            *)
(***************************************************************************)
EXTENDS AbstractLock, Integers

CONSTANTS
    Cols, Rows,     \* 80 and 25
    Word,           \* 2^16
    LowRange,       \* 2^8, the values of one register of the controller
    Limit,          \* positions within the limit of the segment gs, 2^14
    Char,           \* characters other than the three below
    Blank,          \* ' ', also a character
    ConsoleLock

CR == "CR"
LF == "LF"
BS == "BS"
Printable == Char \cup {Blank, CR, LF, BS}

Cells == Cols * Rows     \* 2000

ASSUME ScreenAssumption ==
    /\ {Cols, Rows, Word, LowRange, Limit} \subseteq Nat \ {0}
    /\ Word % 2 = 0 /\ Word = LowRange * LowRange
    /\ Cells <= Limit /\ Limit + Cols < Word \div 2
    /\ Lock = {ConsoleLock}
    /\ NULL \notin Thread
    /\ {CR, LF, BS} \cap (Char \cup {Blank}) = {}

VARIABLES
    kernel,     \* "up", or "fault" once a #GP has stopped it (GeneralIntHandler)
    video,      \* the video memory
    index,      \* the register of the controller that port 0x3D5 stands for
    cursor,     \* its two cursor registers, as one number
    pc,         \* where a thread is in console_putstr
    ch,         \* the character it is printing
    ax, bx,     \* the cursor it has read, and its working copy
    spoiled     \* whether a handler has moved the cursor behind a thread's back

regVars == <<ch, ax, bx>>
screenVars == <<owner, depth, kernel, video, index, cursor, pc, regVars, spoiled>>

\* The BIOS leaves the cursor somewhere on the screen.
ScreenInit ==
    /\ AbstractInit
    /\ kernel = "up"
    /\ video = [i \in 0..Limit - 1 |-> Blank]
    /\ index = "low"
    /\ cursor \in 0..Cells - 1
    /\ pc = [w \in Thread |-> "idle"]
    /\ ch = [w \in Thread |-> NULL]
    /\ ax = [w \in Thread |-> 0]
    /\ bx = [w \in Thread |-> 0]
    /\ spoiled = FALSE

-----------------------------------------------------------------------------
\* Mutant: jle.
Below_Equal(pos) == pos <= Cells \/ pos >= Word \div 2

\* cmp bx,2000; jl
Below(pos) == pos < Cells \/ pos >= Word \div 2

\* shl bx,1 loses the highest bit, which shr bx,1 does not bring back.
Half(pos) == pos % (Word \div 2)

\* The start of the next line.  div divides ax, the position that was read, and
\* not bx, as the comment there has it.
NextLine(old, pos) == ((pos - (old % Cols)) + Cols) % Word

\* The position a character is written to, if c is one; Limit or more: #GP.
Target(c, old) ==
    IF c \in {CR, LF} THEN 0 ELSE IF c = BS THEN Half((old + Word - 1) % Word) ELSE Half(old)

\* The position bx is left at before the screen is rolled.
Advance(c, old) ==
    IF c \in {CR, LF} THEN NextLine(old, old)
    ELSE IF c = BS THEN Target(c, old)
    ELSE LET next == Half(Target(c, old) + 1) IN
         IF Below(next) THEN next ELSE NextLine(old, next)

Write(memory, c, old) ==
    IF c \in {CR, LF} THEN memory
    ELSE [memory EXCEPT ![Target(c, old)] = IF c = BS THEN Blank ELSE c]

\* Mutant: the last line is not cleared.
RollOneLine_Kept(memory) ==
    [i \in DOMAIN memory |-> IF i < Cells - Cols THEN memory[i + Cols] ELSE memory[i]]

RollOneLine(memory) ==
    [i \in DOMAIN memory |->
        IF i < Cells - Cols THEN memory[i + Cols] ELSE IF i < Cells THEN Blank ELSE memory[i]]

\* Whether bx, after c, calls for a roll.  BackSpace jumps over the test.
Rolls(c, pos) == c # BS /\ ~ Below(pos)

-----------------------------------------------------------------------------
Goto(w, label) == pc' = [pc EXCEPT ![w] = label]
At(w, label) == kernel = "up" /\ pc[w] = label

\* console_putstr and the like, by a thread with interrupts on.
ConsoleLockAcquire(w) ==
    /\ At(w, "idle")
    /\ Acquire(w, ConsoleLock)
    /\ Goto(w, "next")
    /\ UNCHANGED <<kernel, video, index, cursor, regVars, spoiled>>

\* sys_putstr takes the next character; sys_putchar selects the high register.
PutNext(w, c) ==
    /\ At(w, "next")
    /\ ch' = [ch EXCEPT ![w] = c]
    /\ index' = "high"
    /\ Goto(w, "readHigh")
    /\ UNCHANGED <<owner, depth, kernel, video, cursor, ax, bx, spoiled>>

\* What port 0x3D5 reads as, and what the cursor is after a write to it.
Selected == IF index = "high" THEN cursor \div LowRange ELSE cursor % LowRange
Replaced(value) ==
    IF index = "high" THEN value * LowRange + (cursor % LowRange)
    ELSE (cursor \div LowRange) * LowRange + value

\* An interrupt between this read and the selection of the low register is as
\* one behind the latter: sys_putchar leaves the low one selected.
ReadHigh(w) ==
    /\ At(w, "readHigh")
    /\ ax' = [ax EXCEPT ![w] = Selected * LowRange]
    /\ index' = "low"
    /\ Goto(w, "readLow")
    /\ UNCHANGED <<owner, depth, kernel, video, cursor, ch, bx, spoiled>>

ReadLow(w) ==
    /\ At(w, "readLow")
    /\ ax' = [ax EXCEPT ![w] = @ + Selected]
    /\ Goto(w, "write")
    /\ UNCHANGED <<owner, depth, kernel, video, index, cursor, ch, bx, spoiled>>

\* The character is written, or gs:bx is beyond the limit of the segment.
WriteChar(w) ==
    /\ At(w, "write")
    /\ IF Target(ch[w], ax[w]) >= Limit
       THEN kernel' = "fault" /\ UNCHANGED <<video, bx, pc>>
       ELSE LET pos == Advance(ch[w], ax[w]) IN
            /\ video' = Write(video, ch[w], ax[w])
            /\ bx' = [bx EXCEPT ![w] = pos]
            /\ Goto(w, IF Rolls(ch[w], pos) THEN "roll" ELSE "select")
            /\ UNCHANGED kernel
    /\ UNCHANGED <<owner, depth, index, cursor, ch, ax, spoiled>>

Roll(w) ==
    /\ At(w, "roll")
    /\ video' = RollOneLine(video)
    /\ bx' = [bx EXCEPT ![w] = Cells - Cols]
    /\ Goto(w, "select")
    /\ UNCHANGED <<owner, depth, kernel, index, cursor, ch, ax, spoiled>>

SetCursor(w) ==
    /\ At(w, "select")
    /\ index' = "high"
    /\ Goto(w, "setHigh")
    /\ UNCHANGED <<owner, depth, kernel, video, cursor, regVars, spoiled>>

\* Mutant: bl is written where bh belongs.
SetHigh_Low(w) ==
    /\ At(w, "setHigh")
    /\ cursor' = Replaced(bx[w] % LowRange)
    /\ index' = "low"
    /\ Goto(w, "setLow")
    /\ UNCHANGED <<owner, depth, kernel, video, regVars, spoiled>>

SetHigh(w) ==
    /\ At(w, "setHigh")
    /\ cursor' = Replaced(bx[w] \div LowRange)
    /\ index' = "low"
    /\ Goto(w, "setLow")
    /\ UNCHANGED <<owner, depth, kernel, video, regVars, spoiled>>

\* The last access of sys_putchar; the registers are of no further use.
SetLow(w) ==
    /\ At(w, "setLow")
    /\ cursor' = Replaced(bx[w] % LowRange)
    /\ Goto(w, "next")
    /\ ch' = [ch EXCEPT ![w] = NULL]
    /\ ax' = [ax EXCEPT ![w] = 0]
    /\ bx' = [bx EXCEPT ![w] = 0]
    /\ UNCHANGED <<owner, depth, kernel, video, index, spoiled>>

ConsoleLockRelease(w) ==
    /\ At(w, "next")
    /\ Release(w, ConsoleLock)
    /\ Goto(w, "idle")
    /\ UNCHANGED <<kernel, video, index, cursor, regVars, spoiled>>

-----------------------------------------------------------------------------
\* sys_putchar with interrupts off: all of the above in one go.
sys_putchar(c) ==
    LET pos == Advance(c, cursor)
        memory == Write(video, c, cursor)
    IN  /\ IF Target(c, cursor) >= Limit
           THEN kernel' = "fault" /\ UNCHANGED <<video, cursor>>
           ELSE /\ video' = IF Rolls(c, pos) THEN RollOneLine(memory) ELSE memory
                /\ cursor' = IF Rolls(c, pos) THEN Cells - Cols ELSE pos
                /\ UNCHANGED kernel
        /\ index' = "low"

\* KeyboardOutput, and a process in the system call write: the lock is taken
\* and given back with interrupts off.
ConsolePut(c) ==
    /\ kernel = "up"
    /\ owner[ConsoleLock] = NULL
    /\ sys_putchar(c)
    /\ UNCHANGED <<owner, depth, pc, regVars, spoiled>>

InPutchar(w) == pc[w] \notin {"idle", "next"}

\* IntKeyboardHandler, at any time, for a key that it does not know: the next
\* character of its message.
UnknownKey(c) ==
    /\ kernel = "up"
    /\ sys_putchar(c)
    /\ spoiled' = (spoiled \/ \E w \in Thread : InPutchar(w))
    /\ UNCHANGED <<owner, depth, pc, regVars>>

\* The cursor is set from si, whatever the interrupted code has there, and not
\* from the argument.
sys_setcursor(si) == cursor' = si /\ index' = "low"

\* For a spurious interrupt.
GeneralIntHandler(si) ==
    /\ kernel = "up"
    /\ sys_setcursor(si)
    /\ spoiled' = TRUE
    /\ UNCHANGED <<owner, depth, kernel, video, pc, regVars>>

Putting(w) ==
    \/ ConsoleLockAcquire(w) \/ ReadHigh(w) \/ ReadLow(w) \/ WriteChar(w) \/ Roll(w)
    \/ SetCursor(w) \/ SetHigh(w) \/ SetLow(w) \/ ConsoleLockRelease(w)
    \/ \E c \in Printable : PutNext(w, c)

ScreenNext ==
    \/ \E w \in Thread : Putting(w)
    \/ \E c \in Printable : ConsolePut(c)
    \/ \E c \in Char \cup {Blank, LF} : UnknownKey(c)
    \/ \E si \in 0..Word - 1 : GeneralIntHandler(si)

ScreenSpec == ScreenInit /\ [][ScreenNext]_screenVars

-----------------------------------------------------------------------------
\* What the screen shows once a character that is being printed is done with.
Printing == {w \in Thread : pc[w] \in {"roll", "select", "setHigh", "setLow"}}
Shown ==
    IF \E w \in Printing : pc[w] = "roll" THEN RollOneLine(video) ELSE video
Position ==
    IF Printing = {} THEN cursor
    ELSE LET w == CHOOSE w \in Printing : TRUE IN
         IF pc[w] = "roll" THEN Cells - Cols ELSE bx[w]

Grid == [p \in (0..Rows - 1) \X (0..Cols - 1) |-> Shown[p[1] * Cols + p[2]]]
Spot == <<Position \div Cols, Position % Cols>>

T == INSTANCE Terminal WITH cell <- Grid, place <- Spot,
    Char <- Char \cup {Blank}

(***************************************************************************)
(* Whoever prints, threads under the console lock that are preempted at    *)
(* any port access or others with interrupts off, the screen is a terminal *)
(* (16-bit arithmetic, rolling and the deviation by way of ax included),   *)
(* as long as no handler prints in the middle of a thread's sys_putchar    *)
(* (keyboard.c:225) and no spurious interrupt sets the cursor              *)
(* (interrupt.c:45).                                                       *)
(***************************************************************************)
ImplementsTerminal ==
    /\ T!TerminalInit
    /\ [][spoiled' \/ T!TerminalNext]_<<Grid, Spot>>

(***************************************************************************)
(* Printing keeps to the screen: it writes nothing behind it, and the one  *)
(* way in which it stops the kernel is a BackSpace with the cursor at the  *)
(* origin, which wraps round to the end of the 16-bit range.               *)
(***************************************************************************)
KeepsToScreen ==
    ~ spoiled =>
        /\ \A i \in Cells..Limit - 1 : video[i] = Blank
        /\ kernel = "fault" =>
              /\ cursor = 0
              /\ \A w \in Thread : pc[w] = "write" => ch[w] = BS /\ ax[w] = 0

(***************************************************************************)
(* The screen recovers from a cursor that is anywhere (a spurious          *)
(* interrupt sets it from a register, a torn access from a mixture):       *)
(* printing a character is a fault or brings the cursor back onto the      *)
(* screen, and so does a new line unless the position is one that          *)
(* cmp bx,2000 takes for negative.                                         *)
(***************************************************************************)
CursorRecovers ==
    LET End(c) == IF Rolls(c, Advance(c, cursor)) THEN Cells - Cols ELSE Advance(c, cursor) IN
    /\ \A c \in Char : Target(c, cursor) < Limit => End(c) \in 0..Cells - 1
    /\ \A c \in {CR, LF} :
            \/ End(c) \in 0..Cells - 1
            \/ cursor >= Word \div 2 - Cols /\ End(c) >= Word \div 2
=============================================================================
