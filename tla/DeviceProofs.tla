---------------------------- MODULE DeviceProofs ----------------------------
(***************************************************************************)
(* sys_putchar of print_asm.S, for every size of the screen, any range of  *)
(* the registers and any number of threads: it keeps to the screen, brings *)
(* the cursor back onto it, and implements the terminal of Terminal.  And  *)
(* the keyboard handler of keyboard.c, for every set of keys and every     *)
(* size of the queue.                                                      *)
(***************************************************************************)
EXTENDS Screen, Keyboard, TLAPS

-----------------------------------------------------------------------------
(***************************************************************************)
(* What holds even when a handler has moved the cursor behind a thread's   *)
(* back: the types, and that threads in console_putstr have the console    *)
(* lock.                                                                   *)
(***************************************************************************)
Labels == {"idle", "next", "readHigh", "readLow", "write", "roll", "select",
           "setHigh", "setLow"}

ScreenTypeOK ==
    /\ owner \in [Lock -> Thread \cup {NULL}]
    /\ kernel \in {"up", "fault"}
    /\ video \in [0..Limit - 1 -> Char \cup {Blank}]
    /\ index \in {"high", "low"}
    /\ cursor \in 0..Word - 1
    /\ pc \in [Thread -> Labels]
    /\ ch \in [Thread -> Printable \cup {NULL}]
    /\ ax \in [Thread -> 0..Word - 1]
    /\ bx \in [Thread -> 0..Word - 1]
    /\ spoiled \in BOOLEAN
    /\ \A w \in Thread :
        /\ InPutchar(w) => ch[w] \in Printable
        /\ pc[w] = "readLow" => \E h \in 0..LowRange - 1 : ax[w] = h * LowRange

Locked == \A w \in Thread : pc[w] # "idle" => owner[ConsoleLock] = w

(***************************************************************************)
(* What a thread knows at each port access of sys_putchar while nobody     *)
(* disturbs it: the register that is selected, and how the position it has *)
(* read or is about to set relates to the cursor.                          *)
(***************************************************************************)
Undisturbed(w) ==
    /\ pc[w] = "readHigh" => index = "high"
    /\ pc[w] = "readLow" => index = "low" /\ ax[w] = (cursor \div LowRange) * LowRange
    /\ pc[w] = "write" => ax[w] = cursor
    /\ pc[w] \in {"select", "setHigh", "setLow"} => bx[w] \in 0..Cells - 1
    /\ pc[w] = "setHigh" => index = "high"
    /\ pc[w] = "setLow" => index = "low" /\ cursor \div LowRange = bx[w] \div LowRange

ScreenInv ==
    /\ ScreenTypeOK
    /\ Locked
    /\ ~ spoiled =>
        /\ \A w \in Thread : Undisturbed(w)
        /\ (\A w \in Thread : pc[w] # "setLow") => cursor \in 0..Cells - 1
        /\ KeepsToScreen

-----------------------------------------------------------------------------
\* Division with remainder.
LEMMA DivMod ==
    ASSUME NEW n \in Nat \ {0}, NEW x \in Nat
    PROVE  /\ x \div n \in Nat /\ x % n \in 0..n - 1 /\ x % n <= x
           /\ x = (x \div n) * n + (x % n)
    OBVIOUS

LEMMA DivUnique ==
    ASSUME NEW n \in Nat \ {0}, NEW q \in Nat, NEW r \in 0..n - 1
    PROVE  (q * n + r) \div n = q /\ (q * n + r) % n = r
    OBVIOUS

LEMMA TimesMonotonic ==
    ASSUME NEW n \in Nat, NEW a \in Nat, NEW b \in Nat, a <= b
    PROVE  a * n <= b * n
    OBVIOUS

LEMMA DivBelow ==
    ASSUME NEW n \in Nat \ {0}, NEW m \in Nat, NEW x \in 0..m * n - 1
    PROVE  x \div n \in 0..m - 1
<1>1. m * n \in Nat
    OBVIOUS
<1>2. x \in Nat
    BY <1>1
<1>3. x = (x \div n) * n + (x % n) /\ x \div n \in Nat /\ x % n \in 0..n - 1
    BY <1>2, DivMod, Zenon
<1>4. SUFFICES ASSUME m <= x \div n PROVE FALSE
    BY <1>3
<1>5. m * n <= (x \div n) * n
    BY <1>4, <1>3, TimesMonotonic, Zenon
<1> QED
    BY <1>1, <1>2, <1>5, <1>3

LEMMA ModOnce ==
    ASSUME NEW n \in Nat \ {0}, NEW x \in 0..n - 1
    PROVE  x % n = x /\ (x + n) % n = x
    OBVIOUS

LEMMA ComposeBelow ==
    ASSUME NEW n \in Nat \ {0}, NEW m \in Nat, NEW q \in 0..m - 1, NEW r \in 0..n - 1
    PROVE  q * n + r \in 0..m * n - 1
<1>1. (q + 1) * n <= m * n
    BY TimesMonotonic
<1>2. (q + 1) * n = q * n + n /\ q * n \in Nat /\ m * n \in Nat
    OBVIOUS
<1> QED
    BY <1>1, <1>2

LEMMA ScreenNumbers ==
    /\ Cols \in Nat \ {0} /\ Rows \in Nat \ {0} /\ LowRange \in Nat \ {0}
    /\ Limit \in Nat \ {0} /\ Word \in Nat \ {0} /\ Word \div 2 \in Nat \ {0}
    /\ Word = 2 * (Word \div 2) /\ Word = LowRange * LowRange
    /\ Cells \in Nat \ {0} /\ Cols <= Cells /\ Cells <= Limit /\ Limit + Cols < Word \div 2
<1>1. /\ Cols \in Nat \ {0} /\ Rows \in Nat \ {0} /\ LowRange \in Nat \ {0}
      /\ Limit \in Nat \ {0} /\ Word \in Nat \ {0} /\ Word % 2 = 0
    BY ScreenAssumption, Zenon
<1>2. Word = 2 * (Word \div 2) /\ Word \div 2 \in Nat \ {0}
    BY <1>1
<1>3. Cells \in Nat \ {0} /\ Cols <= Cells
    <2>1. 1 * Cols <= Rows * Cols /\ Rows * Cols = Cells
        BY <1>1, TimesMonotonic DEF Cells
    <2> QED
        BY <1>1, <2>1
<1> QED
    BY <1>1, <1>2, <1>3, ScreenAssumption, Zenon

LEMMA HalfFacts ==
    ASSUME NEW p \in 0..Word - 1
    PROVE  /\ Half(p) \in 0..(Word \div 2) - 1
           /\ p < Word \div 2 => Half(p) = p
           /\ p >= Word \div 2 => Half(p) = p - (Word \div 2)
<1>1. PICK h \in Nat \ {0} : h = Word \div 2 /\ p \in 0..2 * h - 1
    BY ScreenNumbers, Zenon
<1>2. p < h => p % h = p
    BY <1>1, ModOnce
<1>3. p >= h => p % h = p - h
    <2>1. p >= h => p - h \in 0..h - 1 /\ (p - h) + h = p
        BY <1>1
    <2> QED
        BY <2>1, ModOnce, Zenon
<1> QED
    BY <1>1, <1>2, <1>3 DEF Half

\* NextLine does not go back, and goes round the 16-bit range at most once.
LEMMA NextLineFacts ==
    ASSUME NEW old \in 0..Word - 1, NEW pos \in 0..Word - 1
    PROVE  /\ old % Cols \in 0..Cols - 1 /\ old % Cols <= old
           /\ LET line == (pos - (old % Cols)) + Cols IN
              /\ line \in 1..Word + Cols /\ line < 2 * Word
              /\ NextLine(old, pos) = IF line < Word THEN line ELSE line - Word
<1>1. old % Cols \in 0..Cols - 1 /\ old % Cols <= old
    <2>1. old \in Nat
        BY ScreenNumbers
    <2> QED
        BY <2>1, ScreenNumbers, DivMod, Zenon
<1>2. PICK line \in Int : line = (pos - (old % Cols)) + Cols
    BY <1>1, ScreenNumbers
<1>3. line \in 1..Word + Cols /\ line < 2 * Word
    BY <1>1, <1>2, ScreenNumbers
<1>4. line % Word = IF line < Word THEN line ELSE line - Word
    <2>1. CASE line < Word
        BY <1>3, <2>1, ModOnce, ScreenNumbers
    <2>2. CASE line >= Word
        <3>1. line - Word \in 0..Word - 1 /\ (line - Word) + Word = line
            BY <1>3, <2>2, ScreenNumbers
        <3> QED
            BY <2>2, <3>1, ModOnce, ScreenNumbers
    <2> QED
        BY <1>3, <2>1, <2>2, ScreenNumbers
<1> QED
    BY <1>1, <1>2, <1>3, <1>4, Zenon DEF NextLine

LEMMA NextLineBelow ==
    ASSUME NEW old \in 0..Word - 1, NEW pos \in 0..Limit
    PROVE  /\ old % Cols \in 0..Cols - 1
           /\ NextLine(old, pos) = (pos - (old % Cols)) + Cols
           /\ NextLine(old, pos) \in 1..(Word \div 2) - 1
<1>1. pos \in 0..Word - 1
    BY ScreenNumbers
<1>2. PICK line : line = (pos - (old % Cols)) + Cols
    OBVIOUS
<1>3. /\ old % Cols \in 0..Cols - 1
      /\ NextLine(old, pos) = IF line < Word THEN line ELSE line - Word
    BY <1>1, <1>2, NextLineFacts, Zenon
<1>4. line \in 1..(Word \div 2) - 1
    BY <1>2, <1>3, ScreenNumbers
<1> QED
    BY <1>2, <1>3, <1>4, ScreenNumbers

LEMMA AdvanceInWord ==
    ASSUME NEW c \in Printable, NEW old \in 0..Word - 1
    PROVE  /\ Target(c, old) \in 0..(Word \div 2) - 1
           /\ Advance(c, old) \in 0..Word - 1
<1>1. (old + Word - 1) % Word \in 0..Word - 1
    BY ScreenNumbers, DivMod
<1>2. Target(c, old) \in 0..(Word \div 2) - 1
    BY <1>1, HalfFacts, ScreenNumbers DEF Target
<1>3. Target(c, old) + 1 \in 0..Word - 1 /\ Target(c, old) \in 0..Word - 1
    BY <1>2, ScreenNumbers
<1>4. Half(Target(c, old) + 1) \in 0..Word - 1
    BY <1>3, HalfFacts, ScreenNumbers
<1>5. ASSUME NEW pos \in 0..Word - 1 PROVE NextLine(old, pos) \in 0..Word - 1
    <2>1. PICK line \in 1..Word + Cols :
            line < 2 * Word /\ NextLine(old, pos) = IF line < Word THEN line ELSE line - Word
        BY NextLineFacts, Zenon
    <2> QED
        BY <2>1, ScreenNumbers
<1> QED
    BY <1>2, <1>3, <1>4, <1>5, Zenon DEF Advance

\* Where the cursor is left by a character that is printed at position old.
End(c, old) == IF Rolls(c, Advance(c, old)) THEN Cells - Cols ELSE Advance(c, old)

\* On the screen, a character is written on the screen and leaves the cursor
\* there; only a BackSpace at the origin goes beyond the limit.
LEMMA StaysOnScreen ==
    ASSUME NEW c \in Printable, NEW old \in 0..Cells - 1
    PROVE  /\ Target(c, old) < Limit =>
                Target(c, old) \in 0..Cells - 1 /\ End(c, old) \in 0..Cells - 1
           /\ Target(c, old) >= Limit => c = BS /\ old = 0
           /\ c \notin {CR, LF, BS} => Target(c, old) = old
           /\ c = BS /\ old > 0 => Target(c, old) = old - 1
<1>1. old \in 0..Word - 1 /\ old < Word \div 2 /\ old \in Nat
    BY ScreenNumbers
<1>2. CASE c \in {CR, LF}
    <2>1. Target(c, old) = 0 /\ Advance(c, old) = NextLine(old, old)
        BY <1>2, Zenon DEF Target, Advance
    <2>2. old \in 0..Limit
        BY <1>1, ScreenNumbers
    <2>3. NextLine(old, old) \in 1..(Word \div 2) - 1
        BY <1>1, <2>2, NextLineBelow, Zenon
    <2> QED
        BY <1>1, <1>2, <2>1, <2>3, ScreenNumbers DEF End, Rolls, Below, BS, CR, LF
<1>3. CASE c = BS
    <2>1. CASE old > 0
        <3>1. (old + Word - 1) % Word = old - 1
            <4>1. old - 1 \in 0..Word - 1 /\ old + Word - 1 = (old - 1) + Word
                BY <1>1, <2>1, ScreenNumbers
            <4> QED
                BY <4>1, ModOnce, ScreenNumbers, Zenon
        <3>2. Target(c, old) = old - 1
            BY <1>1, <1>3, <2>1, <3>1, HalfFacts, ScreenNumbers DEF Target, CR, LF, BS
        <3>3. End(c, old) = old - 1
            BY <1>3, <3>2, Zenon DEF End, Rolls, Advance, CR, LF, BS
        <3> QED
            BY <1>1, <1>3, <2>1, <3>2, <3>3, ScreenNumbers
    <2>2. CASE old = 0
        <3>1. (old + Word - 1) % Word = Word - 1
            BY <2>2, ModOnce, ScreenNumbers
        <3>2. Target(c, old) = (Word - 1) - (Word \div 2)
            BY <1>3, <3>1, HalfFacts, ScreenNumbers DEF Target, CR, LF, BS
        <3> QED
            BY <1>3, <2>2, <3>2, ScreenNumbers
    <2> QED
        BY <1>1, <2>1, <2>2
<1>4. CASE c \notin {CR, LF, BS}
    <2>1. Target(c, old) = old
        BY <1>1, <1>4, HalfFacts, Zenon DEF Target
    <2>2. Half(old + 1) = old + 1
        BY <1>1, HalfFacts, ScreenNumbers
    <2>3. CASE old + 1 < Cells
        BY <1>1, <1>4, <2>1, <2>2, <2>3, ScreenNumbers DEF Advance, End, Rolls, Below
    <2>4. CASE old + 1 = Cells
        <3>1. old + 1 \in 0..Limit
            BY <1>1, <2>4, ScreenNumbers
        <3>2. NextLine(old, old + 1) \in 1..(Word \div 2) - 1
            BY <1>1, <3>1, NextLineBelow, Zenon
        <3>3. Advance(c, old) = NextLine(old, old + 1)
            BY <1>1, <1>4, <2>1, <2>2, <2>4, ScreenNumbers DEF Advance, Below
        <3> QED
            BY <1>1, <1>4, <2>1, <3>2, <3>3, ScreenNumbers DEF End, Rolls, Below
    <2> QED
        BY <1>1, <2>3, <2>4, ScreenNumbers
<1> QED
    BY <1>2, <1>3, <1>4, Zenon

\* From anywhere, a character is a fault or brings the cursor back onto the
\* screen, and a new line does unless it ends where cmp sees a negative number.
LEMMA Recovers == ScreenTypeOK => CursorRecovers
<1> SUFFICES ASSUME ScreenTypeOK PROVE CursorRecovers
    OBVIOUS
<1> DEFINE old == cursor
<1>1. old \in 0..Word - 1 /\ old \in Nat
    BY ScreenNumbers DEF ScreenTypeOK
<1> HIDE DEF old
<1>2. ASSUME NEW c \in Char, Target(c, old) < Limit PROVE End(c, old) \in 0..Cells - 1
    <2>1. c \notin {CR, LF, BS}
        BY ScreenAssumption, Zenon
    <2>2. PICK t \in 0..Limit - 1 : t = Half(old) /\ t = Target(c, old)
        BY <1>1, <1>2, <2>1, HalfFacts, ScreenNumbers DEF Target
    <2>3. Half(t + 1) = t + 1
        BY HalfFacts, ScreenNumbers
    <2>4. CASE t + 1 < Cells
        BY <2>1, <2>2, <2>3, <2>4, ScreenNumbers DEF Advance, End, Rolls, Below
    <2>5. CASE t + 1 >= Cells
        <3>1. t + 1 \in 0..Limit
            BY ScreenNumbers
        <3>2. NextLine(old, t + 1) \in 1..(Word \div 2) - 1
            BY <1>1, <3>1, NextLineBelow, Zenon
        <3>3. Advance(c, old) = NextLine(old, t + 1)
            BY <2>1, <2>2, <2>3, <2>5, <3>1, ScreenNumbers DEF Advance, Below
        <3> QED
            BY <2>1, <3>2, <3>3, ScreenNumbers DEF End, Rolls, Below
    <2> QED
        BY <2>4, <2>5, ScreenNumbers
<1>3. ASSUME NEW c \in {CR, LF}
      PROVE  \/ End(c, old) \in 0..Cells - 1
             \/ old >= (Word \div 2) - Cols /\ End(c, old) >= Word \div 2
    <2>1. Advance(c, old) = NextLine(old, old) /\ c # BS
        BY Zenon DEF Advance, CR, LF, BS
    <2>2. PICK line : line = (old - (old % Cols)) + Cols
        OBVIOUS
    <2>3. /\ old % Cols \in 0..Cols - 1 /\ line \in 1..Word + Cols
          /\ NextLine(old, old) = IF line < Word THEN line ELSE line - Word
        BY <1>1, <2>2, NextLineFacts, Zenon
    <2>4. CASE line >= Word
        <3>1. NextLine(old, old) \in 0..Cols - 1
            BY <1>1, <2>2, <2>3, <2>4, ScreenNumbers
        <3> QED
            BY <2>1, <3>1, ScreenNumbers DEF End, Rolls, Below
    <2>5. CASE line < Word /\ line >= Word \div 2
        BY <1>1, <2>1, <2>2, <2>3, <2>5, ScreenNumbers DEF End, Rolls, Below
    <2>6. CASE line < Word \div 2
        BY <2>1, <2>3, <2>6, ScreenNumbers DEF End, Rolls, Below
    <2> QED
        BY <2>3, <2>4, <2>5, <2>6, ScreenNumbers
<1> QED
    BY <1>2, <1>3, Zenon DEF old, CursorRecovers, End

-----------------------------------------------------------------------------
\* The two registers of the cursor make up one position.
LEMMA RegisterFacts ==
    ASSUME ScreenTypeOK
    PROVE  /\ Selected \in 0..LowRange - 1
           /\ \A x \in 0..Word - 1 :
                /\ x \div LowRange \in 0..LowRange - 1 /\ x % LowRange \in 0..LowRange - 1
                /\ x = (x \div LowRange) * LowRange + (x % LowRange)
           /\ \A value \in 0..LowRange - 1 :
                /\ Replaced(value) \in 0..Word - 1
                /\ index = "high" => Replaced(value) \div LowRange = value
                /\ index = "low" =>
                        Replaced(value) = (cursor \div LowRange) * LowRange + value
<1>1. ASSUME NEW x \in 0..Word - 1
      PROVE  /\ x \div LowRange \in 0..LowRange - 1 /\ x % LowRange \in 0..LowRange - 1
             /\ x = (x \div LowRange) * LowRange + (x % LowRange)
    <2>1. x \in Nat /\ x \in 0..LowRange * LowRange - 1
        BY ScreenNumbers
    <2> QED
        BY <2>1, DivMod, DivBelow, ScreenNumbers, Zenon
<1>2. cursor \in 0..Word - 1 /\ index \in {"high", "low"}
    BY Zenon DEF ScreenTypeOK
<1>3. ASSUME NEW value \in 0..LowRange - 1
      PROVE  /\ Replaced(value) \in 0..Word - 1
             /\ index = "high" => Replaced(value) \div LowRange = value
             /\ index = "low" => Replaced(value) = (cursor \div LowRange) * LowRange + value
    <2>1. CASE index = "high"
        <3>1. PICK r \in 0..LowRange - 1 : Replaced(value) = value * LowRange + r
            BY <1>1, <1>2, <2>1, Zenon DEF Replaced
        <3>2. value * LowRange + r \in 0..LowRange * LowRange - 1
            BY ComposeBelow, ScreenNumbers, Zenon
        <3>3. (value * LowRange + r) \div LowRange = value
            BY DivUnique, ScreenNumbers
        <3> QED
            BY <2>1, <3>1, <3>2, <3>3, ScreenNumbers, Zenon
    <2>2. CASE index = "low"
        <3>1. PICK q \in 0..LowRange - 1 :
                q = cursor \div LowRange /\ Replaced(value) = q * LowRange + value
            BY <1>1, <1>2, <2>2, Zenon DEF Replaced
        <3>2. q * LowRange + value \in 0..LowRange * LowRange - 1
            BY ComposeBelow, ScreenNumbers, Zenon
        <3> QED
            BY <2>2, <3>1, <3>2, ScreenNumbers, Zenon
    <2> QED
        BY <1>2, <2>1, <2>2, Zenon
<1>4. Selected \in 0..LowRange - 1
    BY <1>1, <1>2, Zenon DEF Selected
<1> QED
    BY <1>1, <1>3, <1>4, Zenon

LEMMA OthersIdle ==
    ASSUME Locked, NEW w \in Thread, pc[w] # "idle"
    PROVE  \A v \in Thread : v # w => pc[v] = "idle"
    BY Zenon DEF Locked

\* A step of the thread that has the console lock: the others are idle, so
\* only what it knows itself is to be shown.
LEMMA OwnStep ==
    ASSUME ScreenInv, NEW w \in Thread, pc[w] # "idle", UNCHANGED spoiled,
           \A v \in Thread \ {w} : pc'[v] = pc[v],
           ScreenTypeOK', Locked',
           ~ spoiled => /\ Undisturbed(w)'
                        /\ pc'[w] # "setLow" => cursor' \in 0..Cells - 1
                        /\ KeepsToScreen'
    PROVE  ScreenInv'
<1>1. \A v \in Thread : v # w => pc'[v] = "idle"
    BY OthersIdle, Zenon DEF ScreenInv
<1>2. \A v \in Thread : v # w => Undisturbed(v)'
    BY <1>1, Zenon DEF Undisturbed
<1> QED
    BY <1>2, Zenon DEF ScreenInv

\* A step that leaves the video memory, the kernel and the lock alone.
LEMMA RegisterStep ==
    ASSUME ScreenInv, NEW w \in Thread, kernel = "up", pc[w] \notin {"idle", "setLow"},
           NEW label \in Labels \ {"idle"}, pc' = [pc EXCEPT ![w] = label],
           UNCHANGED <<owner, kernel, video, spoiled>>, ScreenTypeOK',
           ~ spoiled => Undisturbed(w)' /\ (label # "setLow" => cursor' \in 0..Cells - 1)
    PROVE  ScreenInv'
<1>1. pc \in [Thread -> Labels]
    BY Zenon DEF ScreenInv, ScreenTypeOK
<1>2. Locked'
    BY <1>1, Zenon DEF ScreenInv, Locked
<1>3. ~ spoiled => KeepsToScreen'
    BY Zenon DEF ScreenInv, KeepsToScreen
<1>4. pc'[w] = label /\ \A v \in Thread \ {w} : pc'[v] = pc[v]
    BY <1>1, Zenon
<1> QED
    BY <1>2, <1>3, <1>4, OwnStep, Zenon

LEMMA CursorOnScreen ==
    ASSUME ScreenInv, ~ spoiled, NEW w \in Thread, pc[w] \notin {"idle", "setLow"}
    PROVE  cursor \in 0..Cells - 1
    BY OthersIdle, Zenon DEF ScreenInv

LEMMA PutNextInv ==
    ASSUME ScreenInv, NEW w \in Thread, NEW c \in Printable, PutNext(w, c)
    PROVE  ScreenInv'
<1>1. /\ kernel = "up" /\ pc[w] = "next" /\ pc' = [pc EXCEPT ![w] = "readHigh"]
      /\ ch' = [ch EXCEPT ![w] = c] /\ index' = "high"
      /\ UNCHANGED <<owner, kernel, video, cursor, ax, bx, spoiled>>
    BY Zenon DEF PutNext, At, Goto
<1>2. ScreenTypeOK'
    BY <1>1, Zenon DEF ScreenInv, ScreenTypeOK, Labels, InPutchar
<1>3. ~ spoiled => Undisturbed(w)' /\ cursor' \in 0..Cells - 1
    BY <1>1, CursorOnScreen, Zenon DEF Undisturbed, ScreenInv, ScreenTypeOK
<1> QED
    BY <1>1, <1>2, <1>3, RegisterStep, Zenon DEF Labels

LEMMA ReadHighInv ==
    ASSUME ScreenInv, NEW w \in Thread, ReadHigh(w)
    PROVE  ScreenInv'
<1>1. /\ kernel = "up" /\ pc[w] = "readHigh" /\ pc' = [pc EXCEPT ![w] = "readLow"]
      /\ ax' = [ax EXCEPT ![w] = Selected * LowRange] /\ index' = "low"
      /\ UNCHANGED <<owner, kernel, video, cursor, ch, bx, spoiled>>
    BY Zenon DEF ReadHigh, At, Goto
<1>2. Selected \in 0..LowRange - 1 /\ Selected * LowRange \in 0..Word - 1
    <2>1. Selected \in 0..LowRange - 1 /\ 0 \in 0..LowRange - 1
        BY RegisterFacts, ScreenNumbers DEF ScreenInv
    <2>2. Selected * LowRange + 0 \in 0..LowRange * LowRange - 1
        BY <2>1, ComposeBelow, ScreenNumbers, Zenon
    <2> QED
        BY <2>1, <2>2, ScreenNumbers
<1>3. ScreenTypeOK'
    BY <1>1, <1>2, Zenon DEF ScreenInv, ScreenTypeOK, Labels, InPutchar
<1>4. ~ spoiled => Undisturbed(w)' /\ cursor' \in 0..Cells - 1
    BY <1>1, CursorOnScreen, Zenon DEF Undisturbed, ScreenInv, ScreenTypeOK, Selected
<1> QED
    BY <1>1, <1>3, <1>4, RegisterStep, Zenon DEF Labels

LEMMA ReadLowInv ==
    ASSUME ScreenInv, NEW w \in Thread, ReadLow(w)
    PROVE  ScreenInv'
<1>1. /\ kernel = "up" /\ pc[w] = "readLow" /\ pc' = [pc EXCEPT ![w] = "write"]
      /\ ax' = [ax EXCEPT ![w] = @ + Selected]
      /\ UNCHANGED <<owner, kernel, video, index, cursor, ch, bx, spoiled>>
    BY Zenon DEF ReadLow, At, Goto
<1>2. ax[w] + Selected \in 0..Word - 1
    <2>1. PICK h \in 0..LowRange - 1 : ax[w] = h * LowRange
        BY <1>1, Zenon DEF ScreenInv, ScreenTypeOK
    <2>2. Selected \in 0..LowRange - 1
        BY RegisterFacts, Zenon DEF ScreenInv
    <2> QED
        BY <2>1, <2>2, ComposeBelow, ScreenNumbers, Zenon
<1>3. ScreenTypeOK'
    BY <1>1, <1>2, Zenon DEF ScreenInv, ScreenTypeOK, Labels, InPutchar
<1>4. ~ spoiled => Undisturbed(w)' /\ cursor' \in 0..Cells - 1
    <2>1. ~ spoiled => ax[w] = (cursor \div LowRange) * LowRange /\ index = "low"
        BY <1>1, Zenon DEF ScreenInv, Undisturbed
    <2>2. cursor = (cursor \div LowRange) * LowRange + (cursor % LowRange)
        BY RegisterFacts, Zenon DEF ScreenInv, ScreenTypeOK
    <2>3. ~ spoiled => ax'[w] = cursor
        BY <1>1, <2>1, <2>2, Zenon DEF Selected, ScreenInv, ScreenTypeOK
    <2>4. ~ spoiled => cursor' \in 0..Cells - 1
        BY <1>1, CursorOnScreen, Zenon
    <2> QED
        BY <1>1, <2>3, <2>4, Zenon DEF Undisturbed, ScreenInv, ScreenTypeOK
<1> QED
    BY <1>1, <1>3, <1>4, RegisterStep, Zenon DEF Labels

Memory == [0..Limit - 1 -> Char \cup {Blank}]

LEMMA WriteFacts ==
    ASSUME NEW m \in Memory, NEW c \in Printable, NEW old \in 0..Word - 1,
           Target(c, old) < Limit
    PROVE  /\ Write(m, c, old) \in Memory
           /\ \A i \in 0..Limit - 1 :
                Write(m, c, old)[i] = IF c \in {CR, LF} \/ i # Target(c, old) THEN m[i]
                                      ELSE IF c = BS THEN Blank ELSE c
<1>1. Target(c, old) \in 0..Limit - 1
    BY AdvanceInWord, ScreenNumbers
<1> QED
    BY <1>1, Zenon DEF Write, Memory, Printable, CR, LF, BS

LEMMA RollFacts ==
    ASSUME NEW m \in Memory
    PROVE  /\ RollOneLine(m) \in Memory
           /\ \A i \in 0..Limit - 1 :
                RollOneLine(m)[i] = IF i < Cells - Cols THEN m[i + Cols]
                                    ELSE IF i < Cells THEN Blank ELSE m[i]
<1>1. DOMAIN m = 0..Limit - 1
    BY Zenon DEF Memory
<1>2. \A i \in 0..Limit - 1 : i < Cells - Cols => i + Cols \in 0..Limit - 1
    BY ScreenNumbers
<1> QED
    BY <1>1, <1>2, Zenon DEF RollOneLine, Memory

LEMMA WriteCharInv ==
    ASSUME ScreenInv, NEW w \in Thread, WriteChar(w)
    PROVE  ScreenInv'
<1>1. /\ kernel = "up" /\ pc[w] = "write"
      /\ UNCHANGED <<owner, index, cursor, ch, ax, spoiled>>
    BY Zenon DEF WriteChar, At
<1>2. /\ ch[w] \in Printable /\ ax[w] \in 0..Word - 1 /\ video \in Memory
      /\ pc \in [Thread -> Labels] /\ bx \in [Thread -> 0..Word - 1]
    BY <1>1, Zenon DEF ScreenInv, ScreenTypeOK, InPutchar, Memory
<1>3. ~ spoiled => cursor \in 0..Cells - 1 /\ ax[w] = cursor
    BY <1>1, CursorOnScreen, Zenon DEF ScreenInv, Undisturbed
<1>4. CASE Target(ch[w], ax[w]) >= Limit
    <2>1. kernel' = "fault" /\ UNCHANGED <<video, bx, pc>>
        BY <1>4, Zenon DEF WriteChar
    <2>2. ScreenTypeOK' /\ Locked'
        BY <1>1, <2>1, Zenon DEF ScreenInv, ScreenTypeOK, Locked, InPutchar
    <2>3. ~ spoiled => ch[w] = BS /\ ax[w] = 0 /\ cursor = 0
        BY <1>2, <1>3, <1>4, StaysOnScreen, Zenon
    <2>4. \A v \in Thread : v # w => pc[v] = "idle"
        BY <1>1, OthersIdle, Zenon DEF ScreenInv
    <2>5. ~ spoiled => KeepsToScreen'
        BY <1>1, <2>1, <2>3, <2>4, Zenon DEF KeepsToScreen, ScreenInv
    <2>6. ~ spoiled => Undisturbed(w)'
        BY <1>1, <2>1, Zenon DEF ScreenInv, Undisturbed
    <2> QED
        BY <1>1, <1>3, <2>1, <2>2, <2>5, <2>6, OwnStep, Zenon
<1>5. CASE Target(ch[w], ax[w]) < Limit
    <2> DEFINE pos == Advance(ch[w], ax[w])
               label == IF Rolls(ch[w], pos) THEN "roll" ELSE "select"
    <2>1. pos \in 0..Word - 1 /\ Target(ch[w], ax[w]) \in 0..Limit - 1
        BY <1>2, <1>5, AdvanceInWord, ScreenNumbers
    <2>2. /\ video' = Write(video, ch[w], ax[w]) /\ bx' = [bx EXCEPT ![w] = pos]
          /\ pc' = [pc EXCEPT ![w] = label] /\ kernel' = "up"
        BY <1>1, <1>5, <2>1, ScreenNumbers DEF WriteChar, Goto
    <2>3. video' \in Memory
        BY <1>2, <1>5, <2>2, WriteFacts, Zenon
    <2>4. ScreenTypeOK' /\ Locked'
        BY <1>1, <1>2, <2>1, <2>2, <2>3, Zenon
           DEF ScreenInv, ScreenTypeOK, Locked, Labels, InPutchar, Memory
    <2>5. ~ spoiled => KeepsToScreen'
        <3>1. ~ spoiled => Target(ch[w], ax[w]) \in 0..Cells - 1
            BY <1>2, <1>3, <1>5, StaysOnScreen, Zenon
        <3>2. ~ spoiled => \A i \in Cells..Limit - 1 : video'[i] = video[i]
            BY <1>2, <1>5, <2>2, <3>1, WriteFacts, ScreenNumbers
        <3> QED
            BY <1>1, <2>2, <3>2, Zenon DEF KeepsToScreen, ScreenInv
    <2>6. ~ spoiled => Undisturbed(w)'
        <3>1. ~ spoiled => End(ch[w], ax[w]) \in 0..Cells - 1
            BY <1>2, <1>3, <1>5, StaysOnScreen, Zenon
        <3> QED
            BY <1>2, <2>2, <3>1, Zenon DEF Undisturbed, End
    <2>7. pc'[w] = label /\ \A v \in Thread \ {w} : pc'[v] = pc[v]
        BY <1>2, <2>2, Zenon
    <2> QED
        BY <1>1, <1>3, <2>4, <2>5, <2>6, <2>7, OwnStep, Zenon
<1>6. Target(ch[w], ax[w]) \in Nat /\ Limit \in Nat
    BY <1>2, AdvanceInWord, ScreenNumbers
<1> QED
    BY <1>4, <1>5, <1>6

LEMMA RollInv == ASSUME ScreenInv, NEW w \in Thread, Roll(w) PROVE ScreenInv'
<1>1. /\ kernel = "up" /\ pc[w] = "roll" /\ pc' = [pc EXCEPT ![w] = "select"]
      /\ video' = RollOneLine(video) /\ bx' = [bx EXCEPT ![w] = Cells - Cols]
      /\ UNCHANGED <<owner, kernel, index, cursor, ch, ax, spoiled>>
    BY Zenon DEF Roll, At, Goto
<1>2. video \in Memory /\ pc \in [Thread -> Labels] /\ bx \in [Thread -> 0..Word - 1]
    BY Zenon DEF ScreenInv, ScreenTypeOK, Memory
<1>3. video' \in Memory /\ \A i \in Cells..Limit - 1 : video'[i] = video[i]
    BY <1>1, <1>2, RollFacts, ScreenNumbers
<1>4. Cells - Cols \in 0..Cells - 1 /\ Cells - Cols \in 0..Word - 1
    BY ScreenNumbers
<1>5. ScreenTypeOK' /\ Locked'
    BY <1>1, <1>2, <1>3, <1>4, Zenon
       DEF ScreenInv, ScreenTypeOK, Locked, Labels, InPutchar, Memory
<1>6. ~ spoiled => Undisturbed(w)' /\ cursor' \in 0..Cells - 1
    BY <1>1, <1>2, <1>4, CursorOnScreen, Zenon DEF Undisturbed
<1>7. ~ spoiled => KeepsToScreen'
    BY <1>1, <1>3, Zenon DEF KeepsToScreen, ScreenInv
<1>8. \A v \in Thread \ {w} : pc'[v] = pc[v]
    BY <1>1, <1>2, Zenon
<1> QED
    BY <1>1, <1>5, <1>6, <1>7, <1>8, OwnStep, Zenon

LEMMA SetCursorInv == ASSUME ScreenInv, NEW w \in Thread, SetCursor(w) PROVE ScreenInv'
<1>1. /\ kernel = "up" /\ pc[w] = "select" /\ pc' = [pc EXCEPT ![w] = "setHigh"]
      /\ index' = "high" /\ UNCHANGED <<owner, kernel, video, cursor, ch, ax, bx, spoiled>>
    BY Zenon DEF SetCursor, At, Goto, regVars
<1>2. ScreenTypeOK'
    BY <1>1, Zenon DEF ScreenInv, ScreenTypeOK, Labels, InPutchar
<1>3. ~ spoiled => Undisturbed(w)' /\ cursor' \in 0..Cells - 1
    BY <1>1, CursorOnScreen, Zenon DEF Undisturbed, ScreenInv, ScreenTypeOK
<1> QED
    BY <1>1, <1>2, <1>3, RegisterStep, Zenon DEF Labels

LEMMA SetHighInv == ASSUME ScreenInv, NEW w \in Thread, SetHigh(w) PROVE ScreenInv'
<1>1. /\ kernel = "up" /\ pc[w] = "setHigh" /\ pc' = [pc EXCEPT ![w] = "setLow"]
      /\ cursor' = Replaced(bx[w] \div LowRange) /\ index' = "low"
      /\ UNCHANGED <<owner, kernel, video, ch, ax, bx, spoiled>>
    BY Zenon DEF SetHigh, At, Goto, regVars
<1>2. /\ cursor' \in 0..Word - 1
      /\ index = "high" => cursor' \div LowRange = bx[w] \div LowRange
    BY <1>1, RegisterFacts, Zenon DEF ScreenInv, ScreenTypeOK
<1>3. ScreenTypeOK'
    BY <1>1, <1>2, Zenon DEF ScreenInv, ScreenTypeOK, Labels, InPutchar
<1>4. ~ spoiled => Undisturbed(w)'
    BY <1>1, <1>2, Zenon DEF Undisturbed, ScreenInv, ScreenTypeOK
<1> QED
    BY <1>1, <1>3, <1>4, RegisterStep, Zenon DEF Labels

LEMMA SetLowInv == ASSUME ScreenInv, NEW w \in Thread, SetLow(w)
                   PROVE  ScreenInv' /\ (~ spoiled => cursor' = bx[w])
<1>1. /\ kernel = "up" /\ pc[w] = "setLow" /\ pc' = [pc EXCEPT ![w] = "next"]
      /\ ch' = [ch EXCEPT ![w] = NULL] /\ ax' = [ax EXCEPT ![w] = 0]
      /\ bx' = [bx EXCEPT ![w] = 0]
      /\ UNCHANGED <<owner, kernel, video, index, spoiled>>
    BY Zenon DEF SetLow, At, Goto
<1>2. cursor' = Replaced(bx[w] % LowRange)
    BY Zenon DEF SetLow
<1>3. /\ bx[w] \in 0..Word - 1 /\ pc \in [Thread -> Labels] /\ 0 \in 0..Word - 1
      /\ ~ spoiled => /\ index = "low" /\ cursor \div LowRange = bx[w] \div LowRange
                      /\ bx[w] \in 0..Cells - 1
    BY <1>1, ScreenNumbers DEF ScreenInv, ScreenTypeOK, Undisturbed
<1>4. cursor' \in 0..Word - 1 /\ (~ spoiled => cursor' = bx[w])
    <2>1. PICK value \in 0..LowRange - 1 :
            value = bx[w] % LowRange /\ bx[w] = (bx[w] \div LowRange) * LowRange + value
        BY <1>3, RegisterFacts, Zenon DEF ScreenInv
    <2>2. /\ Replaced(value) \in 0..Word - 1
          /\ index = "low" => Replaced(value) = (cursor \div LowRange) * LowRange + value
        BY RegisterFacts, Zenon DEF ScreenInv
    <2> QED
        BY <1>3, <1>2, <2>1, <2>2, Zenon
<1>5. ScreenTypeOK' /\ Locked'
    BY <1>1, <1>3, <1>4, Zenon DEF ScreenInv, ScreenTypeOK, Locked, Labels, InPutchar
<1>6. ~ spoiled => Undisturbed(w)'
    BY <1>1, <1>3, Zenon DEF Undisturbed
<1>7. ~ spoiled => KeepsToScreen'
    BY <1>1, Zenon DEF KeepsToScreen, ScreenInv
<1>8. \A v \in Thread \ {w} : pc'[v] = pc[v]
    BY <1>1, <1>3, Zenon
<1> QED
    BY <1>1, <1>3, <1>4, <1>5, <1>6, <1>7, <1>8, OwnStep, Zenon

LEMMA LockInv ==
    ASSUME ScreenInv, NEW w \in Thread, ConsoleLockAcquire(w) \/ ConsoleLockRelease(w)
    PROVE  ScreenInv'
<1>1. /\ kernel = "up" /\ owner \in [Lock -> Thread \cup {NULL}] /\ ConsoleLock \in Lock
      /\ UNCHANGED <<kernel, video, index, cursor, ch, ax, bx, spoiled>>
      /\ pc \in [Thread -> Labels]
    BY ScreenAssumption, Zenon
       DEF ConsoleLockAcquire, ConsoleLockRelease, At, regVars, ScreenInv, ScreenTypeOK
<1>2. \/ /\ owner[ConsoleLock] = NULL /\ owner' = [owner EXCEPT ![ConsoleLock] = w]
         /\ pc[w] = "idle" /\ pc' = [pc EXCEPT ![w] = "next"]
      \/ /\ owner[ConsoleLock] = w /\ owner' = [owner EXCEPT ![ConsoleLock] = NULL]
         /\ pc[w] = "next" /\ pc' = [pc EXCEPT ![w] = "idle"]
    BY Zenon DEF ConsoleLockAcquire, ConsoleLockRelease, Acquire, Release, At, Goto
<1>3. \A v \in Thread : v # w => pc[v] = "idle" /\ pc'[v] = "idle"
    BY <1>1, <1>2, ScreenAssumption, Zenon DEF ScreenInv, Locked
<1>4. pc'[w] \in {"idle", "next"} /\ pc[w] \in {"idle", "next"}
    BY <1>1, <1>2, Zenon
<1>5. Locked'
    BY <1>1, <1>2, <1>3, Zenon DEF Locked
<1>6. ScreenTypeOK'
    <2>1. owner' \in [Lock -> Thread \cup {NULL}] /\ pc' \in [Thread -> Labels]
        BY <1>1, <1>2, Zenon DEF Labels
    <2>2. \A v \in Thread : pc'[v] \in {"idle", "next"}
        BY <1>3, <1>4, Zenon
    <2> QED
        BY <1>1, <2>1, <2>2, Zenon DEF ScreenInv, ScreenTypeOK, InPutchar
<1>7. ~ spoiled => /\ \A v \in Thread : Undisturbed(v)'
                   /\ cursor' \in 0..Cells - 1
    BY <1>1, <1>3, <1>4, Zenon DEF Undisturbed, ScreenInv
<1>8. ~ spoiled => KeepsToScreen'
    BY <1>1, Zenon DEF KeepsToScreen, ScreenInv
<1> QED
    BY <1>1, <1>5, <1>6, <1>7, <1>8, Zenon DEF ScreenInv

\* sys_putchar with interrupts off, on the screen.
LEMMA PutcharFacts ==
    ASSUME ScreenTypeOK, NEW c \in Printable, sys_putchar(c)
    PROVE  /\ kernel' \in {kernel, "fault"} /\ video' \in Memory /\ cursor' \in 0..Word - 1
           /\ index' = "low" /\ (kernel' # kernel => UNCHANGED cursor)
           /\ Target(c, cursor) >= Limit => kernel' = "fault" /\ UNCHANGED <<video, cursor>>
           /\ Target(c, cursor) < Limit =>
                /\ UNCHANGED kernel /\ cursor' = End(c, cursor)
                /\ video' = IF Rolls(c, Advance(c, cursor))
                            THEN RollOneLine(Write(video, c, cursor))
                            ELSE Write(video, c, cursor)
           /\ cursor \in 0..Cells - 1 =>
                /\ cursor' \in 0..Cells - 1
                /\ \A i \in Cells..Limit - 1 : video'[i] = video[i]
                /\ kernel' = kernel \/ (c = BS /\ cursor = 0)
<1>1. video \in Memory /\ cursor \in 0..Word - 1 /\ index' = "low"
    BY Zenon DEF ScreenTypeOK, Memory, sys_putchar
<1>2. CASE Target(c, cursor) >= Limit
    <2>1. kernel' = "fault" /\ UNCHANGED <<video, cursor>>
        BY <1>2, Zenon DEF sys_putchar
    <2>2. ~ (Target(c, cursor) < Limit)
        BY <1>1, <1>2, AdvanceInWord, ScreenNumbers
    <2>3. cursor \in 0..Cells - 1 => c = BS /\ cursor = 0
        BY <1>2, StaysOnScreen, Zenon
    <2> QED
        BY <1>1, <2>1, <2>2, <2>3, Zenon
<1>3. CASE Target(c, cursor) < Limit
    <2>1. ~ (Target(c, cursor) >= Limit)
        BY <1>1, <1>3, AdvanceInWord, ScreenNumbers
    <2>2. /\ UNCHANGED kernel /\ cursor' = End(c, cursor)
          /\ video' = IF Rolls(c, Advance(c, cursor))
                      THEN RollOneLine(Write(video, c, cursor)) ELSE Write(video, c, cursor)
        BY <2>1, Zenon DEF sys_putchar, End
    <2>3. End(c, cursor) \in 0..Word - 1
        BY <1>1, AdvanceInWord, ScreenNumbers DEF End
    <2>4. Write(video, c, cursor) \in Memory
        BY <1>1, <1>3, WriteFacts, Zenon
    <2>5. video' \in Memory
        BY <2>2, <2>4, RollFacts, Zenon
    <2>6. ASSUME cursor \in 0..Cells - 1
          PROVE  cursor' \in 0..Cells - 1 /\ \A i \in Cells..Limit - 1 : video'[i] = video[i]
        <3>1. Target(c, cursor) \in 0..Cells - 1 /\ End(c, cursor) \in 0..Cells - 1
            BY <1>3, <2>6, StaysOnScreen, Zenon
        <3>2. \A i \in Cells..Limit - 1 : Write(video, c, cursor)[i] = video[i]
            BY <1>1, <1>3, <3>1, WriteFacts, ScreenNumbers
        <3>3. \A i \in Cells..Limit - 1 : video'[i] = Write(video, c, cursor)[i]
            BY <2>2, <2>4, RollFacts, ScreenNumbers
        <3> QED
            BY <2>2, <3>1, <3>2, <3>3, Zenon
    <2> QED
        BY <1>1, <2>1, <2>2, <2>3, <2>5, <2>6, Zenon
<1>4. Target(c, cursor) \in Nat /\ Limit \in Nat
    BY <1>1, AdvanceInWord, ScreenNumbers
<1> QED
    BY <1>2, <1>3, <1>4

\* sys_putchar while no thread is in its own.
LEMMA PutcharInv ==
    ASSUME ScreenInv, NEW c \in Printable, kernel = "up", sys_putchar(c),
           UNCHANGED <<owner, pc, ch, ax, bx>>, spoiled' \in BOOLEAN,
           ~ spoiled' => ~ spoiled /\ \A w \in Thread : ~ InPutchar(w)
    PROVE  ScreenInv'
<1>1. /\ kernel' \in {"up", "fault"} /\ video' \in Memory /\ cursor' \in 0..Word - 1
      /\ index' = "low"
      /\ cursor \in 0..Cells - 1 =>
            /\ cursor' \in 0..Cells - 1
            /\ \A i \in Cells..Limit - 1 : video'[i] = video[i]
            /\ kernel' = "fault" => cursor = 0 /\ cursor' = 0
    BY PutcharFacts, Zenon DEF ScreenInv, ScreenTypeOK
<1>2. ScreenTypeOK' /\ Locked'
    BY <1>1, Zenon DEF ScreenInv, ScreenTypeOK, Locked, InPutchar, Memory
<1>3. ASSUME ~ spoiled'
      PROVE  (\A w \in Thread : Undisturbed(w)') /\ cursor' \in 0..Cells - 1 /\ KeepsToScreen'
    <2>1. \A w \in Thread : pc[w] \in {"idle", "next"}
        BY <1>3, Zenon DEF InPutchar
    <2>2. cursor \in 0..Cells - 1 /\ KeepsToScreen
        BY <1>3, <2>1, Zenon DEF ScreenInv
    <2>3. kernel' = "fault" => cursor' = 0
        BY <1>1, <2>2, Zenon
    <2> QED
        BY <1>1, <1>3, <2>1, <2>2, <2>3, Zenon DEF Undisturbed, KeepsToScreen
<1> QED
    BY <1>2, <1>3, Zenon DEF ScreenInv

LEMMA ScreenInitInv == ScreenInit => ScreenInv
<1> SUFFICES ASSUME ScreenInit PROVE ScreenInv
    OBVIOUS
<1>1. /\ kernel = "up" /\ index = "low" /\ cursor \in 0..Cells - 1 /\ spoiled = FALSE
      /\ owner = [l \in Lock |-> NULL] /\ video = [i \in 0..Limit - 1 |-> Blank]
      /\ pc = [w \in Thread |-> "idle"] /\ ch = [w \in Thread |-> NULL]
      /\ ax = [w \in Thread |-> 0] /\ bx = [w \in Thread |-> 0]
    BY Zenon DEF ScreenInit, AbstractInit
<1>2. 0 \in 0..Word - 1 /\ cursor \in 0..Word - 1 /\ Cells \in Nat /\ Limit \in Nat
    BY <1>1, ScreenNumbers
<1>3. ScreenTypeOK
    <2>1. /\ owner \in [Lock -> Thread \cup {NULL}] /\ pc \in [Thread -> Labels]
          /\ video \in [0..Limit - 1 -> Char \cup {Blank}]
          /\ ch \in [Thread -> Printable \cup {NULL}]
        BY <1>1, Zenon DEF Labels
    <2>2. ax \in [Thread -> 0..Word - 1] /\ bx \in [Thread -> 0..Word - 1]
        BY <1>1, <1>2, Zenon
    <2>3. \A w \in Thread : ~ InPutchar(w) /\ pc[w] # "readLow"
        BY <1>1, Zenon DEF InPutchar
    <2> QED
        BY <1>1, <1>2, <2>1, <2>2, <2>3, Zenon DEF ScreenTypeOK
<1>4. Locked /\ \A w \in Thread : Undisturbed(w)
    BY <1>1, Zenon DEF Locked, Undisturbed
<1>5. KeepsToScreen
    BY <1>1, <1>2 DEF KeepsToScreen
<1> QED
    BY <1>1, <1>3, <1>4, <1>5, Zenon DEF ScreenInv

LEMMA ScreenNextInv == ScreenInv /\ [ScreenNext]_screenVars => ScreenInv'
<1> SUFFICES ASSUME ScreenInv, [ScreenNext]_screenVars PROVE ScreenInv'
    OBVIOUS
<1>1. ASSUME NEW w \in Thread, Putting(w) PROVE ScreenInv'
    BY <1>1, PutNextInv, ReadHighInv, ReadLowInv, WriteCharInv, RollInv, SetCursorInv,
       SetHighInv, SetLowInv, LockInv, Zenon DEF Putting
<1>2. ASSUME NEW c \in Printable, ConsolePut(c) PROVE ScreenInv'
    <2>1. \A w \in Thread : ~ InPutchar(w)
        BY <1>2, ScreenAssumption, Zenon DEF ConsolePut, ScreenInv, Locked, InPutchar
    <2>2. spoiled \in BOOLEAN
        BY Zenon DEF ScreenInv, ScreenTypeOK
    <2> QED
        BY <1>2, <2>1, <2>2, PutcharInv, Zenon DEF ConsolePut, regVars
<1>3. ASSUME NEW c \in Char \cup {Blank, LF}, UnknownKey(c) PROVE ScreenInv'
    <2>1. c \in Printable /\ spoiled \in BOOLEAN
        BY Zenon DEF Printable, ScreenInv, ScreenTypeOK
    <2> QED
        BY <1>3, <2>1, PutcharInv, Zenon DEF UnknownKey, regVars
<1>4. ASSUME NEW si \in 0..Word - 1, GeneralIntHandler(si) PROVE ScreenInv'
    BY <1>4, Zenon
       DEF GeneralIntHandler, sys_setcursor, regVars, ScreenInv, ScreenTypeOK,
                Locked, InPutchar
<1>5. CASE UNCHANGED screenVars
    BY <1>5, Zenon DEF screenVars, regVars, ScreenInv, ScreenTypeOK, Locked, InPutchar,
                Undisturbed, KeepsToScreen
<1> QED
    BY <1>1, <1>2, <1>3, <1>4, <1>5, Zenon DEF ScreenNext

LEMMA ScreenInvariant == ScreenSpec => []ScreenInv
    BY ScreenInitInv, ScreenNextInv, PTL DEF ScreenSpec

\* sys_putchar writes nothing behind the screen, for any size of the screen,
\* any number of threads and wherever they are preempted, and its one fault is
\* the BackSpace at the origin.
THEOREM PrintingKeepsToScreen == ScreenSpec => []KeepsToScreen
<1>1. ScreenInv => KeepsToScreen
    BY Zenon DEF ScreenInv, KeepsToScreen
<1> QED
    BY <1>1, ScreenInvariant, PTL

\* The cursor comes back onto the screen from wherever sys_setcursor or a torn
\* access has put it.
THEOREM CursorComesBack == ScreenSpec => []CursorRecovers
<1>1. ScreenInv => CursorRecovers
    BY Recovers, Zenon DEF ScreenInv
<1> QED
    BY <1>1, ScreenInvariant, PTL

-----------------------------------------------------------------------------
(***************************************************************************)
(* The screen is a terminal: positions are places, and what sys_putchar    *)
(* does to the video memory and the cursor is what the terminal does.      *)
(***************************************************************************)
GridOf(m) == [p \in (0..Rows - 1) \X (0..Cols - 1) |-> m[p[1] * Cols + p[2]]]
SpotOf(pos) == <<pos \div Cols, pos % Cols>>

LEMMA PlaceFacts ==
    ASSUME NEW r \in 0..Rows - 1, NEW k \in 0..Cols - 1
    PROVE  /\ r * Cols + k \in 0..Cells - 1 /\ r * Cols \in Nat
           /\ SpotOf(r * Cols + k) = <<r, k>>
           /\ r < Rows - 1 <=> r * Cols + k < Cells - Cols
           /\ r = Rows - 1 => r * Cols = Cells - Cols
<1>1. Rows * Cols = Cells /\ (Rows - 1) * Cols = Cells - Cols /\ (Rows - 1) * Cols \in Nat
    BY ScreenNumbers DEF Cells
<1>2. r * Cols + k \in 0..Cells - 1 /\ r * Cols \in Nat
    BY <1>1, ComposeBelow, ScreenNumbers
<1>3. SpotOf(r * Cols + k) = <<r, k>>
    BY DivUnique, ScreenNumbers DEF SpotOf
<1>4. ASSUME r < Rows - 1 PROVE r * Cols + k < Cells - Cols
    <2>1. r * Cols + k \in 0..(Rows - 1) * Cols - 1
        BY <1>4, ComposeBelow, ScreenNumbers
    <2> QED
        BY <1>1, <2>1, ScreenNumbers
<1>5. r = Rows - 1 \/ r < Rows - 1
    BY ScreenNumbers
<1>6. ASSUME r = Rows - 1 PROVE r * Cols = Cells - Cols /\ ~ (r * Cols + k < Cells - Cols)
    BY <1>1, <1>6, ScreenNumbers
<1> QED
    BY <1>2, <1>3, <1>4, <1>5, <1>6, ScreenNumbers, Zenon

LEMMA PositionFacts ==
    ASSUME NEW pos \in 0..Cells - 1
    PROVE  \E r \in 0..Rows - 1, k \in 0..Cols - 1 :
                pos = r * Cols + k /\ SpotOf(pos) = <<r, k>>
<1>1. pos \in 0..Rows * Cols - 1 /\ pos \in Nat
    BY ScreenNumbers DEF Cells
<1>2. pos \div Cols \in 0..Rows - 1
    BY <1>1, DivBelow, ScreenNumbers, Zenon
<1>3. pos % Cols \in 0..Cols - 1 /\ pos = (pos \div Cols) * Cols + (pos % Cols)
    BY <1>1, DivMod, ScreenNumbers, Zenon
<1> QED
    BY <1>2, <1>3, Zenon DEF SpotOf

\* Writing at a position is writing at its place.
LEMMA GridWrite ==
    ASSUME NEW m \in Memory, NEW t \in 0..Cells - 1, NEW x
    PROVE  GridOf([m EXCEPT ![t] = x]) = [GridOf(m) EXCEPT ![SpotOf(t)] = x]
<1>1. PICK r \in 0..Rows - 1, k \in 0..Cols - 1 : t = r * Cols + k /\ SpotOf(t) = <<r, k>>
    BY PositionFacts, Zenon
<1>2. ASSUME NEW p \in (0..Rows - 1) \X (0..Cols - 1)
      PROVE  [m EXCEPT ![t] = x][p[1] * Cols + p[2]] =
                IF p = <<r, k>> THEN x ELSE m[p[1] * Cols + p[2]]
    <2>1. PICK a \in 0..Rows - 1, b \in 0..Cols - 1 : p = <<a, b>>
        OBVIOUS
    <2>2. PICK i \in 0..Cells - 1 : i = a * Cols + b /\ SpotOf(i) = <<a, b>>
        BY PlaceFacts, Zenon
    <2>3. i \in 0..Limit - 1
        BY ScreenNumbers
    <2>4. i = t <=> p = <<r, k>>
        BY <1>1, <2>1, <2>2, Zenon
    <2> QED
        BY <2>1, <2>2, <2>3, <2>4, Zenon DEF Memory
<1> QED
    BY <1>1, <1>2, Zenon DEF GridOf

\* Rolling moves the rows up.
LEMMA GridRoll ==
    ASSUME NEW m \in Memory
    PROVE  GridOf(RollOneLine(m)) = T!Up(GridOf(m))
<1>1. ASSUME NEW p \in (0..Rows - 1) \X (0..Cols - 1)
      PROVE  RollOneLine(m)[p[1] * Cols + p[2]] =
                IF p[1] = Rows - 1 THEN Blank ELSE GridOf(m)[<<p[1] + 1, p[2]>>]
    <2>1. PICK a \in 0..Rows - 1, b \in 0..Cols - 1 : p = <<a, b>>
        OBVIOUS
    <2>2. PICK i \in 0..Cells - 1 : i = a * Cols + b
        BY PlaceFacts, Zenon
    <2>3. i \in 0..Limit - 1
        BY ScreenNumbers
    <2>4. CASE a = Rows - 1
        <3>1. ~ (i < Cells - Cols) /\ i < Cells
            BY <2>2, <2>4, PlaceFacts, ScreenNumbers
        <3> QED
            BY <2>1, <2>2, <2>3, <2>4, <3>1, RollFacts, Zenon
    <2>5. CASE a < Rows - 1
        <3>1. i < Cells - Cols
            BY <2>2, <2>5, PlaceFacts, Zenon
        <3>2. a + 1 \in 0..Rows - 1 /\ (a + 1) * Cols + b = i + Cols
            BY <2>2, <2>5, ScreenNumbers
        <3>3. GridOf(m)[<<a + 1, b>>] = m[i + Cols]
            BY <3>2, Zenon DEF GridOf
        <3>4. RollOneLine(m)[i] = m[i + Cols]
            BY <2>3, <3>1, RollFacts, Zenon
        <3> QED
            BY <2>1, <2>2, <2>5, <3>3, <3>4, ScreenNumbers
    <2> QED
        BY <2>4, <2>5, ScreenNumbers
<1> QED
    BY <1>1, Zenon DEF GridOf, T!Up, T!Place

\* The position one line further down: in the last row it calls for a roll.
LEMMA NextRowFacts ==
    ASSUME NEW r \in 0..Rows - 1
    PROVE  /\ r < Rows - 1 => /\ r * Cols + Cols \in 0..Cells - 1
                              /\ SpotOf(r * Cols + Cols) = <<r + 1, 0>>
           /\ r = Rows - 1 => r * Cols + Cols = Cells
           /\ SpotOf(Cells - Cols) = <<Rows - 1, 0>>
<1>1. 0 \in 0..Cols - 1 /\ Rows - 1 \in 0..Rows - 1
    BY ScreenNumbers
<1>2. ASSUME r < Rows - 1
      PROVE  r * Cols + Cols \in 0..Cells - 1 /\ SpotOf(r * Cols + Cols) = <<r + 1, 0>>
    <2>1. r + 1 \in 0..Rows - 1 /\ (r + 1) * Cols + 0 = r * Cols + Cols
        BY <1>2, ScreenNumbers
    <2> QED
        BY <1>1, <2>1, PlaceFacts, Zenon
<1>3. ASSUME r = Rows - 1 PROVE r * Cols + Cols = Cells
    BY <1>1, <1>3, PlaceFacts, ScreenNumbers
<1>4. SpotOf(Cells - Cols) = <<Rows - 1, 0>>
    <2>1. (Rows - 1) * Cols + 0 = Cells - Cols
        BY ScreenNumbers DEF Cells
    <2> QED
        BY <1>1, <2>1, PlaceFacts, Zenon
<1> QED
    BY <1>2, <1>3, <1>4, Zenon

Printed(m, c, old) ==
    IF Rolls(c, Advance(c, old)) THEN RollOneLine(Write(m, c, old)) ELSE Write(m, c, old)

\* CR and LF.
LEMMA PrintsNewLine ==
    ASSUME NEW m \in Memory, NEW c \in {CR, LF}, NEW old \in 0..Cells - 1,
           Grid = GridOf(m), Spot = SpotOf(old),
           Grid' = GridOf(Printed(m, c, old)), Spot' = SpotOf(End(c, old))
    PROVE  T!NewLine
<1>1. PICK r \in 0..Rows - 1, k \in 0..Cols - 1 : old = r * Cols + k /\ Spot = <<r, k>>
    BY PositionFacts, Zenon
<1>2. old \in 0..Word - 1 /\ old \in 0..Limit /\ r * Cols \in Nat
    BY PlaceFacts, ScreenNumbers
<1>3. Advance(c, old) = r * Cols + Cols /\ Write(m, c, old) = m /\ c # BS
    <2>1. old % Cols = k
        BY <1>1 DEF SpotOf
    <2>2. NextLine(old, old) = (old - k) + Cols
        BY <1>2, <2>1, NextLineBelow, Zenon
    <2>3. (old - k) + Cols = r * Cols + Cols
        BY <1>1, <1>2, ScreenNumbers
    <2> QED
        BY <2>2, <2>3, Zenon DEF Advance, Write, CR, LF, BS
<1>4. CASE r = Rows - 1
    <2>1. Advance(c, old) = Cells
        BY <1>3, <1>4, NextRowFacts, Zenon
    <2>2. Rolls(c, Cells)
        BY <1>3, ScreenNumbers DEF Rolls, Below
    <2>3. Grid' = T!Up(Grid) /\ Spot' = <<Rows - 1, 0>>
        BY <1>3, <2>1, <2>2, GridRoll, NextRowFacts, Zenon DEF Printed, End
    <2> QED
        BY <1>1, <1>4, <2>3 DEF T!NewLine, T!NextRow
<1>5. CASE r < Rows - 1
    <2>1. PICK new \in 0..Cells - 1 : new = Advance(c, old) /\ SpotOf(new) = <<r + 1, 0>>
        BY <1>3, <1>5, NextRowFacts, Zenon
    <2>2. ~ Rolls(c, new)
        BY ScreenNumbers DEF Rolls, Below
    <2>3. Grid' = Grid /\ Spot' = <<r + 1, 0>>
        BY <1>3, <2>1, <2>2, Zenon DEF Printed, End
    <2> QED
        BY <1>1, <1>5, <2>3, ScreenNumbers DEF T!NewLine, T!NextRow
<1> QED
    BY <1>4, <1>5, ScreenNumbers

\* A character, which leaves the cursor at the next place, in the next row
\* after the last column.
LEMMA PrintsCharacter ==
    ASSUME NEW m \in Memory, NEW c \in Char \cup {Blank}, NEW old \in 0..Cells - 1,
           Grid = GridOf(m), Spot = SpotOf(old),
           Grid' = GridOf(Printed(m, c, old)), Spot' = SpotOf(End(c, old))
    PROVE  T!Type(c)
<1>1. PICK r \in 0..Rows - 1, k \in 0..Cols - 1 : old = r * Cols + k /\ Spot = <<r, k>>
    BY PositionFacts, Zenon
<1>2. old \in 0..Word - 1 /\ old \in 0..Limit - 1 /\ r * Cols \in Nat /\ old \in Nat
    BY PlaceFacts, ScreenNumbers
<1>3. c \notin {CR, LF, BS} /\ c \in Printable
    BY ScreenAssumption, Zenon DEF Printable
<1>4. Target(c, old) = old
    BY <1>3, StaysOnScreen, Zenon
<1>5. Half(old + 1) = old + 1
    BY <1>2, HalfFacts, ScreenNumbers
<1>6. Write(m, c, old) = [m EXCEPT ![old] = c]
    BY <1>3, <1>4, Zenon DEF Write
<1> DEFINE grid == [Grid EXCEPT ![Spot] = c]
<1>7. GridOf(Write(m, c, old)) = grid /\ Write(m, c, old) \in Memory
    <2>1. Target(c, old) < Limit
        BY <1>2, <1>4, ScreenNumbers
    <2>2. Write(m, c, old) \in Memory
        BY <1>2, <1>3, <2>1, WriteFacts, Zenon
    <2>3. GridOf([m EXCEPT ![old] = c]) = [GridOf(m) EXCEPT ![SpotOf(old)] = c]
        BY GridWrite, Zenon
    <2> QED
        BY <1>6, <2>2, <2>3, Zenon
<1>10. Spot[1] = r /\ Spot[2] = k
    BY <1>1
<1> HIDE DEF grid
<1>8. CASE old + 1 < Cells
    <2>1. Advance(c, old) = old + 1 /\ ~ Rolls(c, old + 1)
        BY <1>3, <1>4, <1>5, <1>8, Zenon DEF Advance, Below, Rolls
    <2>2. Grid' = grid /\ Spot' = SpotOf(old + 1)
        BY <1>7, <2>1, Zenon DEF Printed, End
    <2>3. CASE k < Cols - 1
        <3>1. k + 1 \in 0..Cols - 1 /\ old + 1 = r * Cols + (k + 1)
            BY <1>1, <1>2, <2>3, ScreenNumbers
        <3>2. SpotOf(old + 1) = <<r, k + 1>>
            BY <3>1, PlaceFacts, Zenon
        <3>3. Spot[2] # Cols - 1 /\ Spot' = <<Spot[1], Spot[2] + 1>>
            BY <1>10, <2>2, <2>3, <3>2, ScreenNumbers
        <3> QED
            BY <2>2, <3>3, Zenon DEF T!Type, grid
    <2>4. CASE k = Cols - 1
        <3>1. old + 1 = r * Cols + Cols
            BY <1>1, <1>2, <2>4, ScreenNumbers
        <3>2. r < Rows - 1
            BY <1>8, <3>1, NextRowFacts, ScreenNumbers
        <3>3. SpotOf(old + 1) = <<r + 1, 0>>
            BY <3>1, <3>2, NextRowFacts, Zenon
        <3>4. Spot[2] = Cols - 1 /\ Spot[1] # Rows - 1 /\ Spot' = <<Spot[1] + 1, 0>>
            BY <1>10, <2>2, <2>4, <3>2, <3>3, ScreenNumbers
        <3> QED
            BY <2>2, <3>4, Zenon DEF T!Type, T!NextRow, grid
    <2> QED
        BY <2>3, <2>4, ScreenNumbers
<1>9. CASE old + 1 = Cells
    <2>1. r = Rows - 1 /\ k = Cols - 1
        <3>1. ~ (old < Cells - Cols)
            BY <1>2, <1>9, ScreenNumbers
        <3>2. r = Rows - 1
            BY <1>1, <3>1, PlaceFacts, ScreenNumbers
        <3>3. r * Cols = Cells - Cols
            BY <3>2, PlaceFacts, Zenon
        <3> QED
            BY <1>1, <1>9, <3>2, <3>3, ScreenNumbers
    <2>2. old + 1 \in 0..Limit /\ old + 1 >= Cells /\ ~ Below(old + 1)
        BY <1>2, <1>9, ScreenNumbers DEF Below
    <2>3. Advance(c, old) = NextLine(old, old + 1)
        BY <1>3, <1>4, <1>5, <2>2, Zenon DEF Advance
    <2>4. NextLine(old, old + 1) = ((old + 1) - (old % Cols)) + Cols /\ old % Cols \in 0..Cols - 1
        BY <1>2, <2>2, NextLineBelow, Zenon
    <2>5. NextLine(old, old + 1) \in 1..(Word \div 2) - 1
        BY <1>2, <2>2, NextLineBelow, Zenon
    <2>6. Rolls(c, NextLine(old, old + 1))
        BY <1>2, <1>3, <1>9, <2>4, <2>5, ScreenNumbers DEF Rolls, Below
    <2>7. Grid' = T!Up(grid) /\ Spot' = <<Rows - 1, 0>>
        BY <1>7, <2>3, <2>6, GridRoll, NextRowFacts, Zenon DEF Printed, End
    <2>8. Spot[2] = Cols - 1 /\ Spot[1] = Rows - 1
        BY <1>10, <2>1, Zenon
    <2> QED
        BY <2>7, <2>8, Zenon DEF T!Type, T!NextRow, grid
<1> QED
    BY <1>2, <1>8, <1>9, ScreenNumbers

\* BackSpace, but at the origin.
LEMMA PrintsBackSpace ==
    ASSUME NEW m \in Memory, NEW old \in 0..Cells - 1, Target(BS, old) < Limit,
           Grid = GridOf(m), Spot = SpotOf(old),
           Grid' = GridOf(Printed(m, BS, old)), Spot' = SpotOf(End(BS, old))
    PROVE  T!Erase
<1>1. PICK r \in 0..Rows - 1, k \in 0..Cols - 1 : old = r * Cols + k /\ Spot = <<r, k>>
    BY PositionFacts, Zenon
<1>2. old \in 0..Word - 1 /\ r * Cols \in Nat /\ old \in Nat
    BY PlaceFacts, ScreenNumbers
<1>3. old > 0
    <2>1. SUFFICES ASSUME old = 0 PROVE FALSE
        BY <1>2
    <2>2. (old + Word - 1) % Word = Word - 1
        BY <2>1, ModOnce, ScreenNumbers
    <2>3. Target(BS, old) = (Word - 1) - (Word \div 2)
        BY <2>2, HalfFacts, ScreenNumbers DEF Target, CR, LF, BS
    <2> QED
        BY <2>3, ScreenNumbers
<1>4. Target(BS, old) = old - 1 /\ old - 1 \in 0..Cells - 1
    BY <1>2, <1>3, StaysOnScreen, Zenon DEF Printable
<1>5. Write(m, BS, old) = [m EXCEPT ![old - 1] = Blank]
    BY <1>4, Zenon DEF Write, CR, LF, BS
<1>6. ~ Rolls(BS, Advance(BS, old)) /\ Advance(BS, old) = old - 1
    BY <1>4, Zenon DEF Rolls, Advance, CR, LF, BS
<1>7. Spot' = SpotOf(old - 1) /\ Grid' = [Grid EXCEPT ![SpotOf(old - 1)] = Blank]
    <2>1. Printed(m, BS, old) = [m EXCEPT ![old - 1] = Blank] /\ End(BS, old) = old - 1
        BY <1>5, <1>6, Zenon DEF Printed, End
    <2>2. GridOf([m EXCEPT ![old - 1] = Blank]) = [GridOf(m) EXCEPT ![SpotOf(old - 1)] = Blank]
        BY <1>4, GridWrite, Zenon
    <2> QED
        BY <2>1, <2>2, Zenon
<1>8. SpotOf(old - 1) = IF k > 0 THEN <<r, k - 1>> ELSE <<r - 1, Cols - 1>>
    <2>1. CASE k > 0
        <3>1. k - 1 \in 0..Cols - 1 /\ old - 1 = r * Cols + (k - 1)
            BY <1>1, <1>2, <2>1, ScreenNumbers
        <3> QED
            BY <2>1, <3>1, PlaceFacts, Zenon
    <2>2. CASE k = 0
        <3>1. r # 0
            BY <1>1, <1>3, <2>2, ScreenNumbers
        <3>2. r - 1 \in 0..Rows - 1 /\ Cols - 1 \in 0..Cols - 1
            BY <3>1, ScreenNumbers
        <3>3. (r - 1) * Cols + (Cols - 1) = old - 1
            BY <1>1, <1>2, <2>2, ScreenNumbers
        <3>4. SpotOf((r - 1) * Cols + (Cols - 1)) = <<r - 1, Cols - 1>>
            BY <3>2, PlaceFacts, Zenon
        <3> QED
            BY <2>2, <3>3, <3>4
    <2> QED
        BY <2>1, <2>2, ScreenNumbers
<1>9. Spot # <<0, 0>>
    <2>1. r = 0 /\ k = 0 => old = 0
        BY <1>1, ScreenNumbers
    <2> QED
        BY <1>1, <1>3, <2>1
<1>10. Spot' = IF Spot[2] > 0 THEN <<Spot[1], Spot[2] - 1>> ELSE <<Spot[1] - 1, Cols - 1>>
    BY <1>1, <1>7, <1>8
<1>11. Grid' = [Grid EXCEPT ![Spot'] = Blank]
    BY <1>7, Zenon
<1> QED
    BY <1>9, <1>10, <1>11, Zenon DEF T!Erase

LEMMA Prints ==
    ASSUME NEW m \in Memory, NEW c \in Printable, NEW old \in 0..Cells - 1,
           Target(c, old) < Limit, Grid = GridOf(m), Spot = SpotOf(old),
           Grid' = GridOf(Printed(m, c, old)), Spot' = SpotOf(End(c, old))
    PROVE  T!TerminalNext
<1>1. CASE c \in {CR, LF}
    BY <1>1, PrintsNewLine, Zenon DEF T!TerminalNext
<1>2. CASE c = BS
    BY <1>2, PrintsBackSpace, Zenon DEF T!TerminalNext
<1>3. CASE c \in Char \cup {Blank}
    BY <1>3, PrintsCharacter, Zenon DEF T!TerminalNext
<1> QED
    BY <1>1, <1>2, <1>3, Zenon DEF Printable

\* What the screen shows, and where: the video memory and the cursor, or what
\* the one thread that is done with its character is about to make of them.
InLine == {"roll", "select", "setHigh", "setLow"}

LEMMA ShownIdle ==
    (\A w \in Thread : pc[w] \notin InLine) =>
        Grid = GridOf(video) /\ Spot = SpotOf(cursor)
<1> SUFFICES ASSUME \A w \in Thread : pc[w] \notin InLine
             PROVE  Grid = GridOf(video) /\ Spot = SpotOf(cursor)
    OBVIOUS
<1>1. Printing = {}
    BY Zenon DEF Printing, InLine
<1> QED
    BY <1>1, Zenon DEF Grid, GridOf, Spot, SpotOf, Shown, Position

LEMMA ShownBy ==
    \A w \in Thread : Locked /\ pc[w] \in InLine =>
        /\ pc[w] = "roll" => Grid = GridOf(RollOneLine(video)) /\ Spot = SpotOf(Cells - Cols)
        /\ pc[w] # "roll" => Grid = GridOf(video) /\ Spot = SpotOf(bx[w])
<1> SUFFICES ASSUME NEW w \in Thread, Locked, pc[w] \in InLine
             PROVE  /\ pc[w] = "roll" =>
                            Grid = GridOf(RollOneLine(video)) /\ Spot = SpotOf(Cells - Cols)
                    /\ pc[w] # "roll" => Grid = GridOf(video) /\ Spot = SpotOf(bx[w])
    OBVIOUS
<1>1. Printing = {w}
    BY OthersIdle, Zenon DEF Printing, InLine
<1>2. (CHOOSE v \in Printing : TRUE) = w
    BY <1>1, Zenon
<1>3. CASE pc[w] = "roll"
    <2>1. Shown = RollOneLine(video) /\ Position = Cells - Cols
        BY <1>1, <1>2, <1>3, Zenon DEF Shown, Position
    <2> QED
        BY <1>3, <2>1, Zenon DEF Grid, GridOf, Spot, SpotOf
<1>4. CASE pc[w] # "roll"
    <2>1. Shown = video /\ Position = bx[w]
        BY <1>1, <1>2, <1>4, Zenon DEF Shown, Position
    <2> QED
        BY <1>4, <2>1, Zenon DEF Grid, GridOf, Spot, SpotOf
<1> QED
    BY <1>3, <1>4, Zenon

LEMMA ShownNext ==
    /\ (\A w \in Thread : pc'[w] \notin InLine) =>
            Grid' = GridOf(video') /\ Spot' = SpotOf(cursor')
    /\ \A w \in Thread : Locked' /\ pc'[w] \in InLine =>
        /\ pc'[w] = "roll" =>
                Grid' = GridOf(RollOneLine(video')) /\ Spot' = SpotOf(Cells - Cols)
        /\ pc'[w] # "roll" => Grid' = GridOf(video') /\ Spot' = SpotOf(bx'[w])
<1>1. ((\A w \in Thread : pc[w] \notin InLine) =>
            Grid = GridOf(video) /\ Spot = SpotOf(cursor))'
    BY ShownIdle, PTL
<1>2. (\A w \in Thread : Locked /\ pc[w] \in InLine =>
        /\ pc[w] = "roll" => Grid = GridOf(RollOneLine(video)) /\ Spot = SpotOf(Cells - Cols)
        /\ pc[w] # "roll" => Grid = GridOf(video) /\ Spot = SpotOf(bx[w]))'
    BY ShownBy, PTL
<1> QED
    BY <1>1, <1>2, Zenon

\* The character is on the screen once WriteChar has written it; all the other
\* steps of a thread leave what is shown as it is.
LEMMA ThreadRefines ==
    ASSUME ScreenInv, ScreenInv', ~ spoiled, NEW w \in Thread, Putting(w)
    PROVE  T!TerminalNext \/ UNCHANGED <<Grid, Spot>>
<1>1. Locked /\ Locked' /\ pc \in [Thread -> Labels] /\ bx \in [Thread -> 0..Word - 1]
    BY Zenon DEF ScreenInv, ScreenTypeOK
<1>2. ASSUME pc[w] \notin InLine, pc'[w] \notin InLine, UNCHANGED <<video, cursor>>,
             \A v \in Thread : v # w => pc'[v] = "idle" /\ pc[v] = "idle"
      PROVE  UNCHANGED <<Grid, Spot>>
    <2>1. \A v \in Thread : pc[v] \notin InLine /\ pc'[v] \notin InLine
        BY <1>2, Zenon DEF InLine
    <2> QED
        BY <1>2, <2>1, ShownIdle, ShownNext, Zenon
<1>3. CASE ConsoleLockAcquire(w) \/ ConsoleLockRelease(w)
    <2>1. /\ UNCHANGED <<video, cursor>> /\ pc[w] \notin InLine
          /\ pc' = [pc EXCEPT ![w] = "next"] \/ pc' = [pc EXCEPT ![w] = "idle"]
        BY <1>3, Zenon DEF ConsoleLockAcquire, ConsoleLockRelease, At, Goto, InLine
    <2>2. owner[ConsoleLock] \in {NULL, w}
        BY <1>3, Zenon DEF ConsoleLockAcquire, ConsoleLockRelease, Acquire, Release
    <2>3. \A v \in Thread : v # w => pc[v] = "idle"
        BY <1>1, <2>2, ScreenAssumption, Zenon DEF Locked
    <2>4. pc'[w] \notin InLine /\ \A v \in Thread : v # w => pc'[v] = pc[v]
        BY <1>1, <2>1, Zenon DEF InLine
    <2> QED
        BY <1>2, <2>1, <2>3, <2>4, Zenon
<1>4. ASSUME pc[w] # "idle" PROVE \A v \in Thread : v # w => pc[v] = "idle"
    BY <1>1, <1>4, OthersIdle, Zenon
<1>5. CASE (\E c \in Printable : PutNext(w, c)) \/ ReadHigh(w) \/ ReadLow(w)
    <2>1. /\ UNCHANGED <<video, cursor>> /\ pc[w] \notin InLine /\ pc[w] # "idle"
          /\ \E label \in {"readHigh", "readLow", "write"} : pc' = [pc EXCEPT ![w] = label]
        BY <1>5, Zenon DEF PutNext, ReadHigh, ReadLow, At, Goto, InLine
    <2>2. pc'[w] \notin InLine /\ \A v \in Thread : v # w => pc'[v] = pc[v]
        BY <1>1, <2>1, Zenon DEF InLine
    <2> QED
        BY <1>2, <1>4, <2>1, <2>2, Zenon
<1>6. CASE WriteChar(w)
    <2>1. pc[w] = "write"
        BY <1>6, Zenon DEF WriteChar, At
    <2>2. /\ ch[w] \in Printable /\ video \in Memory /\ ax[w] = cursor
          /\ cursor \in 0..Cells - 1 /\ cursor \in 0..Word - 1
        BY <2>1, CursorOnScreen, Zenon
           DEF ScreenInv, ScreenTypeOK, Memory, InPutchar, Undisturbed
    <2>3. \A v \in Thread : pc[v] \notin InLine
        BY <1>4, <2>1, Zenon DEF InLine
    <2>4. Grid = GridOf(video) /\ Spot = SpotOf(cursor)
        BY <2>3, ShownIdle, Zenon
    <2>5. CASE Target(ch[w], cursor) >= Limit
        <3>1. UNCHANGED <<video, pc, cursor>>
            BY <1>6, <2>2, <2>5, Zenon DEF WriteChar
        <3> QED
            BY <2>3, <2>4, <3>1, ShownNext, Zenon
    <2>6. CASE Target(ch[w], cursor) < Limit
        <3> DEFINE pos == Advance(ch[w], cursor)
                   label == IF Rolls(ch[w], pos) THEN "roll" ELSE "select"
        <3>1. ~ (Target(ch[w], cursor) >= Limit)
            BY <2>2, <2>6, AdvanceInWord, ScreenNumbers
        <3>2. /\ video' = Write(video, ch[w], cursor) /\ bx' = [bx EXCEPT ![w] = pos]
              /\ pc' = [pc EXCEPT ![w] = label]
            BY <1>6, <2>2, <3>1, Zenon DEF WriteChar, Goto
        <3>3. pc'[w] = label /\ bx'[w] = pos /\ pc'[w] \in InLine
            BY <1>1, <3>2, Zenon DEF InLine
        <3>4. /\ Grid' = GridOf(Printed(video, ch[w], cursor))
              /\ Spot' = SpotOf(End(ch[w], cursor))
            BY <1>1, <3>2, <3>3, ShownNext, Zenon DEF Printed, End
        <3> QED
            BY <2>2, <2>4, <2>6, <3>4, Prints, Zenon
    <2>7. Target(ch[w], cursor) \in Nat /\ Limit \in Nat
        BY <2>2, AdvanceInWord, ScreenNumbers
    <2> QED
        BY <2>5, <2>6, <2>7
<1>7. CASE Roll(w)
    <2>1. /\ pc[w] = "roll" /\ video' = RollOneLine(video)
          /\ pc' = [pc EXCEPT ![w] = "select"] /\ bx' = [bx EXCEPT ![w] = Cells - Cols]
        BY <1>7, Zenon DEF Roll, At, Goto
    <2>2. pc'[w] = "select" /\ bx'[w] = Cells - Cols
        BY <1>1, <2>1, Zenon
    <2> QED
        BY <1>1, <2>1, <2>2, ShownBy, ShownNext, Zenon DEF InLine
<1>8. CASE SetCursor(w) \/ SetHigh(w)
    <2>1. /\ pc[w] \in {"select", "setHigh"} /\ UNCHANGED <<video, bx>>
          /\ \E label \in {"setHigh", "setLow"} : pc' = [pc EXCEPT ![w] = label]
        BY <1>8, Zenon DEF SetCursor, SetHigh, At, Goto, regVars
    <2>2. pc'[w] \in {"setHigh", "setLow"}
        BY <1>1, <2>1, Zenon
    <2> QED
        BY <1>1, <2>1, <2>2, ShownBy, ShownNext, Zenon DEF InLine
<1>9. CASE SetLow(w)
    <2>1. pc[w] = "setLow" /\ video' = video /\ pc' = [pc EXCEPT ![w] = "next"]
        BY <1>9, Zenon DEF SetLow, At, Goto
    <2>2. \A v \in Thread : pc'[v] \notin InLine
        BY <1>1, <1>4, <2>1, Zenon DEF InLine
    <2>3. cursor' = bx[w]
        BY <1>9, SetLowInv, Zenon
    <2> QED
        BY <1>1, <2>1, <2>2, <2>3, ShownBy, ShownNext, Zenon DEF InLine
<1> QED
    BY <1>3, <1>5, <1>6, <1>7, <1>8, <1>9, Zenon DEF Putting

\* So is one that is printed with interrupts off while no thread is printing.
LEMMA PutcharRefines ==
    ASSUME ScreenInv, ~ spoiled, NEW c \in Printable, sys_putchar(c), UNCHANGED pc,
           \A w \in Thread : ~ InPutchar(w)
    PROVE  T!TerminalNext \/ UNCHANGED <<Grid, Spot>>
<1>1. ScreenTypeOK /\ video \in Memory /\ cursor \in 0..Cells - 1
    BY CursorOnScreen, Zenon DEF ScreenInv, ScreenTypeOK, Memory, InPutchar
<1>2. \A w \in Thread : pc[w] \notin InLine /\ pc'[w] \notin InLine
    BY Zenon DEF InPutchar, InLine
<1>3. Grid = GridOf(video) /\ Spot = SpotOf(cursor)
    BY <1>2, ShownIdle, Zenon
<1>4. Grid' = GridOf(video') /\ Spot' = SpotOf(cursor')
    BY <1>2, ShownNext, Zenon
<1>5. CASE Target(c, cursor) >= Limit
    <2>1. UNCHANGED <<video, cursor>>
        BY <1>1, <1>5, PutcharFacts, Zenon
    <2> QED
        BY <1>3, <1>4, <2>1, Zenon
<1>6. CASE Target(c, cursor) < Limit
    <2>1. cursor' = End(c, cursor) /\ video' = Printed(video, c, cursor)
        BY <1>1, <1>6, PutcharFacts, Zenon DEF Printed
    <2> QED
        BY <1>1, <1>3, <1>4, <1>6, <2>1, Prints, Zenon
<1>7. Target(c, cursor) \in Nat /\ Limit \in Nat
    BY <1>1, AdvanceInWord, ScreenNumbers
<1> QED
    BY <1>5, <1>6, <1>7

LEMMA ScreenRefines ==
    ScreenInv /\ ScreenInv' /\ [ScreenNext]_screenVars =>
        [spoiled' \/ T!TerminalNext]_<<Grid, Spot>>
<1> SUFFICES ASSUME ScreenInv, ScreenInv', [ScreenNext]_screenVars, ~ spoiled'
             PROVE  T!TerminalNext \/ UNCHANGED <<Grid, Spot>>
    OBVIOUS
<1>1. ASSUME NEW w \in Thread, Putting(w)
      PROVE  T!TerminalNext \/ UNCHANGED <<Grid, Spot>>
    <2>1. spoiled' = spoiled
        BY <1>1, Zenon
           DEF Putting, ConsoleLockAcquire, PutNext, ReadHigh, ReadLow, WriteChar,
            Roll, SetCursor, SetHigh, SetLow, ConsoleLockRelease
    <2> QED
        BY <1>1, <2>1, ThreadRefines, Zenon
<1>2. ASSUME NEW c \in Printable, ConsolePut(c)
      PROVE  T!TerminalNext \/ UNCHANGED <<Grid, Spot>>
    <2>1. /\ sys_putchar(c) /\ UNCHANGED <<pc, spoiled>>
          /\ owner[ConsoleLock] = NULL
        BY <1>2, Zenon DEF ConsolePut
    <2>2. \A w \in Thread : ~ InPutchar(w)
        BY <2>1, ScreenAssumption, Zenon DEF ScreenInv, Locked, InPutchar
    <2> QED
        BY <2>1, <2>2, PutcharRefines, Zenon
<1>3. ASSUME NEW c \in Char \cup {Blank, LF}, UnknownKey(c)
      PROVE  T!TerminalNext \/ UNCHANGED <<Grid, Spot>>
    <2>1. /\ sys_putchar(c) /\ UNCHANGED pc /\ c \in Printable
          /\ ~ spoiled /\ \A w \in Thread : ~ InPutchar(w)
        BY <1>3, Zenon DEF UnknownKey, Printable
    <2> QED
        BY <2>1, PutcharRefines, Zenon
<1>4. ASSUME NEW si \in 0..Word - 1, GeneralIntHandler(si) PROVE FALSE
    BY <1>4, Zenon DEF GeneralIntHandler
<1>5. CASE UNCHANGED screenVars
    BY <1>5 DEF screenVars, regVars, Grid, Spot, Shown, Position, Printing
<1> QED
    BY <1>1, <1>2, <1>3, <1>4, <1>5, Zenon DEF ScreenNext

LEMMA ScreenRefinesInit == ScreenInit => T!TerminalInit
<1> SUFFICES ASSUME ScreenInit PROVE T!TerminalInit
    OBVIOUS
<1>1. /\ cursor \in 0..Cells - 1 /\ video = [i \in 0..Limit - 1 |-> Blank]
      /\ pc = [w \in Thread |-> "idle"]
    BY Zenon DEF ScreenInit
<1>2. Grid = GridOf(video) /\ Spot = SpotOf(cursor)
    BY <1>1, ShownIdle, Zenon DEF InLine
<1>3. PICK r \in 0..Rows - 1, k \in 0..Cols - 1 : Spot = <<r, k>>
    BY <1>1, <1>2, PositionFacts, Zenon
<1>4. ASSUME NEW p \in (0..Rows - 1) \X (0..Cols - 1)
      PROVE  video[p[1] * Cols + p[2]] = Blank
    <2>1. p[1] * Cols + p[2] \in 0..Cells - 1
        BY PlaceFacts, Zenon
    <2>2. p[1] * Cols + p[2] \in 0..Limit - 1
        BY <2>1, ScreenNumbers
    <2> QED
        BY <1>1, <2>2, Zenon
<1>5. Grid = [p \in (0..Rows - 1) \X (0..Cols - 1) |-> Blank]
    BY <1>2, <1>4, Zenon DEF GridOf
<1> QED
    BY <1>3, <1>5, Zenon DEF T!TerminalInit, T!Place

\* The screen is a terminal, for every size of it: what sys_putchar does in a
\* dozen port accesses and 16-bit arithmetic is typing a character, starting a
\* new line or erasing one, for any number of threads under the console lock
\* and for those who print with interrupts off, until a handler moves the cursor
\* behind a thread's back.
THEOREM ScreenImplements == ScreenSpec => ImplementsTerminal
    BY ScreenInvariant, ScreenRefines, ScreenRefinesInit, PTL
    DEF ScreenSpec, ImplementsTerminal

-----------------------------------------------------------------------------
(***************************************************************************)
(* The inductive invariant.  The keyboard sends the next code when all     *)
(* bytes of the last one have been taken in, so at most one key is on its  *)
(* way, going down or coming up, and one of its bytes may have arrived.    *)
(* The statuses agree with the keys but for what that code will change.    *)
(***************************************************************************)
KeyTypeOK ==
    /\ ctrl_status \in {0, 1} /\ shift_status \in {0, 1} /\ alt_status \in {0, 1}
    /\ caps_lock_status \in {0, 1} /\ caps \in {0, 1} /\ ext_scancode \in {0, 1}
    /\ shifted \in {0, 1}
    /\ queue \in Seq((0..255) \X {0, 1})
    /\ down \subseteq Key

\* The bytes of this code that have not been taken in yet are on the wire.
Arriving(code) ==
    \/ ext_scancode = 0 /\ wire = Bytes(code)
    \/ ext_scancode = 1 /\ code >= 57344 /\ wire = <<code % 256>>

\* A modifier that is on has a key among keys, caps lock is in position lock.
Agree(keys, lock) ==
    /\ ctrl_status = 1 => keys \cap ctrl_make # {}
    /\ shift_status = 1 => keys \cap shift_make # {}
    /\ alt_status = 1 => keys \cap alt_make # {}
    /\ caps_lock_status = lock

\* The shift status is what the last move of a shift key made it.
ShiftAgrees == shift_status = shifted

GoingDown(k) ==
    /\ Arriving(k) /\ k \in down
    /\ Agree(down, IF k = caps_lock_make THEN 1 - caps ELSE caps)
    /\ IF k \in shift_make THEN shifted = 1 ELSE ShiftAgrees

ComingUp(k) ==
    /\ Arriving(k + 128) /\ k \notin down
    /\ Agree(down \cup {k}, caps)
    /\ IF k \in shift_make THEN shifted = 0 ELSE ShiftAgrees

KeyInv ==
    /\ KeyTypeOK
    /\ \/ wire = <<>> /\ ext_scancode = 0 /\ Agree(down, caps) /\ ShiftAgrees
       \/ \E k \in Key : GoingDown(k) \/ ComingUp(k)

-----------------------------------------------------------------------------
\* The codes of a key: its break code has bit 7 set, and taking that away
\* gives the make code back.  No byte of them but the first is the prefix.
LEMMA CodeFacts ==
    ASSUME NEW k \in Key
    PROVE  /\ k \in Nat /\ ~ IsBreak(k)
           /\ IsBreak(k + 128) /\ MakeCode(k + 128) = k
           /\ \A code \in {k, k + 128} :
                /\ code % 256 \in 1..255 /\ code % 256 # 224
                /\ code >= 57344 =>
                        Bytes(code) = <<224, code % 256>> /\ 57344 + (code % 256) = code
                /\ code < 57344 => Bytes(code) = <<code>> /\ code % 256 = code
<1> DEFINE CodeOK(code) ==
                /\ code % 256 \in 1..255 /\ code % 256 # 224
                /\ code >= 57344 =>
                        Bytes(code) = <<224, code % 256>> /\ 57344 + (code % 256) = code
                /\ code < 57344 => Bytes(code) = <<code>> /\ code % 256 = code
           KeyOK == /\ k \in Nat /\ ~ IsBreak(k)
                    /\ IsBreak(k + 128) /\ MakeCode(k + 128) = k
                    /\ CodeOK(k) /\ CodeOK(k + 128)
<1> SUFFICES KeyOK
    OBVIOUS
<1>1. PICK p \in {0, 57344}, c \in (1..127) \ {96} : k = p + c
    BY KeyboardAssumption
<1>2. CASE p = 0
    BY <1>1, <1>2 DEF IsBreak, MakeCode, Bytes
<1>3. CASE p = 57344
    <2>1. k % 256 = c /\ (k + 128) % 256 = c + 128
        BY <1>1, <1>3
    <2>2. (k \div 128) % 2 = 0 /\ ((k + 128) \div 128) % 2 = 1
        BY <1>1, <1>3
    <2> QED
        BY <1>1, <1>3, <2>1, <2>2 DEF IsBreak, MakeCode, Bytes
<1>4. p = 0 \/ p = 57344
    BY <1>1
<1> HIDE DEF KeyOK
<1> QED
    BY <1>2, <1>3, <1>4

\* What one interrupt takes in of a code that is arriving: the prefix, or the
\* last byte, which completes the code.
LEMMA ByteTaken ==
    ASSUME NEW k \in Key, NEW code \in {k, k + 128}, Arriving(code)
    PROVE  /\ wire # <<>>
           /\ \/ /\ Head(wire) = 224 /\ ext_scancode = 0
                 /\ code >= 57344 /\ Tail(wire) = <<code % 256>>
              \/ /\ Head(wire) # 224 /\ Tail(wire) = <<>>
                 /\ code = IF ext_scancode = 1 THEN 57344 + Head(wire) ELSE Head(wire)
<1>1. CASE ext_scancode = 0 /\ code < 57344
    <2>1. wire = <<code>> /\ code # 224
        BY <1>1, CodeFacts DEF Arriving
    <2> QED
        BY <1>1, <2>1
<1>2. CASE ext_scancode = 0 /\ code >= 57344
    <2>1. PICK b : b = code % 256 /\ wire = <<224, b>>
        BY <1>2, CodeFacts DEF Arriving
    <2>2. wire # <<>> /\ Head(wire) = 224 /\ Tail(wire) = <<b>>
        BY <2>1
    <2> QED
        BY <1>2, <2>1, <2>2
<1>3. CASE ext_scancode = 1
    <2>1. wire = <<code % 256>> /\ code % 256 # 224 /\ code = 57344 + (code % 256)
        BY <1>3, CodeFacts DEF Arriving
    <2>2. Head(wire) = code % 256 /\ Tail(wire) = <<>> /\ wire # <<>>
        BY <2>1
    <2> QED
        BY <1>3, <2>1, <2>2
<1>4. code \in Nat
    BY CodeFacts
<1> QED
    BY <1>1, <1>2, <1>3, <1>4 DEF Arriving

LEMMA NothingArriving ==
    ASSUME KeyInv, wire = <<>>
    PROVE  ext_scancode = 0 /\ Agree(down, caps) /\ ShiftAgrees
<1>1. \A k \in Key : \A code \in {k, k + 128} : ~ Arriving(code)
    BY ByteTaken
<1>2. \A k \in Key : ~ GoingDown(k) /\ ~ ComingUp(k)
    BY <1>1, Zenon DEF GoingDown, ComingUp
<1> QED
    BY <1>2, Zenon DEF KeyInv

LEMMA KeyInitInv == KeyboardInit => KeyInv
BY DEF KeyboardInit, KeyInv, KeyTypeOK, Agree, ShiftAgrees

LEMMA KeyDownInv == ASSUME KeyInv, NEW k \in Key, KeyDown(k) PROVE KeyInv'
<1>1. /\ wire = <<>> /\ wire' = Bytes(k) /\ down' = down \cup {k}
      /\ caps' = IF k = caps_lock_make THEN 1 - caps ELSE caps
      /\ shifted' = IF k \in shift_make THEN 1 ELSE shifted
      /\ UNCHANGED <<ctrl_status, shift_status, alt_status, caps_lock_status>>
      /\ UNCHANGED <<ext_scancode, queue>>
    BY Zenon DEF KeyDown, modifiers
<1>2. ext_scancode = 0 /\ Agree(down, caps) /\ ShiftAgrees
    BY <1>1, NothingArriving, Zenon
<1>3. KeyTypeOK'
    BY <1>1 DEF KeyInv, KeyTypeOK
<1>4. Arriving(k)' /\ k \in down'
    BY <1>1, <1>2 DEF Arriving
<1>5. Agree(down, IF k = caps_lock_make THEN 1 - caps ELSE caps)'
    BY <1>1, <1>2, <1>3 DEF Agree, KeyTypeOK, KeyInv
<1>6. IF k \in shift_make THEN shifted' = 1 ELSE ShiftAgrees'
    BY <1>1, <1>2, Zenon DEF ShiftAgrees
<1> QED
    BY <1>3, <1>4, <1>5, <1>6, Zenon DEF KeyInv, GoingDown

LEMMA KeyUpInv == ASSUME KeyInv, NEW k \in Key, KeyUp(k) PROVE KeyInv'
<1>1. /\ wire = <<>> /\ wire' = Bytes(k + 128) /\ k \in down /\ down' = down \ {k}
      /\ shifted' = IF k \in shift_make THEN 0 ELSE shifted
      /\ UNCHANGED <<ctrl_status, shift_status, alt_status, caps_lock_status>>
      /\ UNCHANGED <<ext_scancode, queue, caps>>
    BY Zenon DEF KeyUp, modifiers
<1>2. ext_scancode = 0 /\ Agree(down, caps) /\ ShiftAgrees
    BY <1>1, NothingArriving, Zenon
<1>3. KeyTypeOK'
    BY <1>1, Zenon DEF KeyInv, KeyTypeOK
<1>4. Arriving(k + 128)' /\ k \notin down'
    BY <1>1, <1>2 DEF Arriving
<1>5. Agree(down \cup {k}, caps)'
    BY <1>1, <1>2, Zenon DEF Agree
<1>6. IF k \in shift_make THEN shifted' = 0 ELSE ShiftAgrees'
    BY <1>1, <1>2, Zenon DEF ShiftAgrees
<1> QED
    BY <1>3, <1>4, <1>5, <1>6, Zenon DEF KeyInv, ComingUp

\* The code without its prefix tells the modifiers apart, for the codes that
\* the handler knows.
LEMMA ModifierCodes ==
    ASSUME NEW k \in Key
    PROVE  /\ Known(k) => /\ k % 256 \in ctrl_make <=> k \in ctrl_make
                          /\ k % 256 \in shift_make <=> k \in shift_make
                          /\ k % 256 \in alt_make <=> k \in alt_make
                          /\ k % 256 = caps_lock_make <=> k = caps_lock_make
                          /\ k % 256 \notin Invisible => k % 256 = k
           /\ ~ Known(k) => k \notin ctrl_make \cup shift_make \cup alt_make
                                       \cup {caps_lock_make}
<1>1. k \in Nat
    BY CodeFacts
<1>2. CASE k < 57344
    <2>1. k % 256 = k
        BY <1>2, CodeFacts
    <2> QED
        BY <1>1, <1>2, <2>1
        DEF Known, ctrl_make, shift_make, alt_make, ctrl_l_make, ctrl_r_make,
            shift_l_make, shift_r_make, alt_l_make, alt_r_make, caps_lock_make
<1>3. CASE k >= 57344
    <2>1. Known(k) => k \in {57344 + 56, 57344 + 29}
        BY <1>1, <1>3 DEF Known, alt_r_make, ctrl_r_make
    <2> QED
        BY <1>1, <1>3, <2>1
        DEF Known, ctrl_make, shift_make, alt_make, ctrl_l_make, ctrl_r_make, Invisible,
            shift_l_make, shift_r_make, alt_l_make, alt_r_make, caps_lock_make
<1> QED
    BY <1>1, <1>2, <1>3

\* The prefix is taken in.
LEMMA PrefixInv ==
    ASSUME KeyTypeOK, NEW k \in Key, NEW code \in {k, k + 128}, Arriving(code),
           IntKeyboardHandler, Head(wire) = 224
    PROVE  /\ Arriving(code)' /\ KeyTypeOK'
           /\ UNCHANGED <<ctrl_status, shift_status, alt_status, caps_lock_status>>
           /\ UNCHANGED <<queue, down, caps, shifted>>
<1>1. /\ wire' = Tail(wire) /\ ext_scancode' = 1 /\ UNCHANGED <<queue, down, caps, shifted>>
      /\ UNCHANGED <<ctrl_status, shift_status, alt_status, caps_lock_status>>
    BY DEF IntKeyboardHandler, modifiers
<1>2. code >= 57344 /\ Tail(wire) = <<code % 256>>
    BY ByteTaken
<1> QED
    BY <1>1, <1>2 DEF Arriving, KeyTypeOK

\* The last byte of a make code is taken in.
LEMMA MakeInv ==
    ASSUME KeyInv, NEW k \in Key, GoingDown(k), IntKeyboardHandler, Head(wire) # 224
    PROVE  /\ KeyInv' /\ wire' = <<>> /\ ext_scancode' = 0 /\ UNCHANGED <<down, caps, shifted>>
           /\ queue' # queue =>
                /\ Known(k) /\ k % 256 \notin Invisible
                /\ queue' = Append(queue, <<k, ShiftMode(k)>>)
<1>1. /\ Tail(wire) = <<>>
      /\ k = IF ext_scancode = 1 THEN 57344 + Head(wire) ELSE Head(wire)
    BY ByteTaken DEF GoingDown
<1>2. /\ wire' = <<>> /\ ext_scancode' = 0 /\ UNCHANGED <<down, caps, shifted>>
      /\ IF Known(k) THEN MakeKey(k) ELSE UNCHANGED <<modifiers, queue>>
    BY <1>1, CodeFacts DEF IntKeyboardHandler, Prefixed
<1>3. KeyTypeOK' /\ Agree(down, caps)'
    <2>1. CASE Known(k)
        <3>1. /\ ctrl_status' = IF k \in ctrl_make THEN 1 ELSE ctrl_status
              /\ shift_status' = IF k \in shift_make THEN 1 ELSE shift_status
              /\ alt_status' = IF k \in alt_make THEN 1 ELSE alt_status
              /\ caps_lock_status' = IF k = caps_lock_make THEN 1 - caps_lock_status
                                     ELSE caps_lock_status
            BY <1>2, <2>1, ModifierCodes DEF MakeKey
        <3>2. queue' \in Seq((0..255) \X {0, 1})
            <4>1. k % 256 \in 0..255 /\ ShiftMode(k) \in {0, 1}
                <5>1. k \in Nat /\ shift_status \in {0, 1} /\ caps_lock_status \in {0, 1}
                    <6>1. k \in Nat
                        BY CodeFacts
                    <6> QED
                        BY <6>1, Zenon DEF KeyInv, KeyTypeOK
                <5>2. k % 256 \in 0..255
                    BY <5>1
                <5>3. (shift_status + caps_lock_status) % 2 \in {0, 1}
                    BY <5>1
                <5> QED
                    BY <5>1, <5>2, <5>3, Zenon DEF ShiftMode
            <4>2. <<k % 256, ShiftMode(k)>> \in (0..255) \X {0, 1}
                BY <4>1, Zenon
            <4>3. queue' = queue \/ queue' = Append(queue, <<k % 256, ShiftMode(k)>>)
                BY <1>2, <2>1, Zenon DEF MakeKey
            <4>4. \A S, x, q : q \in Seq(S) /\ x \in S => Append(q, x) \in Seq(S)
                OBVIOUS
            <4>5. queue \in Seq((0..255) \X {0, 1})
                BY Zenon DEF KeyInv, KeyTypeOK
            <4>6. Append(queue, <<k % 256, ShiftMode(k)>>) \in Seq((0..255) \X {0, 1})
                BY <4>2, <4>4, <4>5, ZenonT(60)
            <4> QED
                BY <4>3, <4>5, <4>6, ZenonT(30)
        <3>3. KeyTypeOK'
            BY <1>2, <3>1, <3>2 DEF KeyInv, KeyTypeOK
        <3>4. Agree(down, caps)'
            BY <1>2, <3>1 DEF GoingDown, Agree, KeyInv, KeyTypeOK
        <3> QED
            BY <3>3, <3>4, Zenon
    <2>2. CASE ~ Known(k)
        BY <1>2, <2>2, ModifierCodes DEF KeyInv, KeyTypeOK, GoingDown, Agree, modifiers
    <2> QED
        BY <2>1, <2>2, Zenon
<1>4. ShiftAgrees'
    BY <1>2, ModifierCodes DEF GoingDown, ShiftAgrees, MakeKey, modifiers
<1>5. queue' # queue =>
                /\ Known(k) /\ k % 256 \notin Invisible
                /\ queue' = Append(queue, <<k, ShiftMode(k)>>)
    BY <1>2, ModifierCodes DEF MakeKey
<1> QED
    BY <1>2, <1>3, <1>4, <1>5, Zenon DEF KeyInv

\* The last byte of a break code is taken in.
LEMMA BreakInv ==
    ASSUME KeyInv, NEW k \in Key, ComingUp(k), IntKeyboardHandler, Head(wire) # 224
    PROVE  KeyInv' /\ UNCHANGED queue
<1>1. /\ Tail(wire) = <<>>
      /\ k + 128 = IF ext_scancode = 1 THEN 57344 + Head(wire) ELSE Head(wire)
    BY ByteTaken DEF ComingUp
<1>2. wire' = <<>> /\ ext_scancode' = 0 /\ UNCHANGED <<down, caps, shifted>> /\ BreakCode(k)
    BY <1>1, CodeFacts DEF IntKeyboardHandler, Prefixed
<1>3. KeyTypeOK'
    BY <1>2, Zenon DEF KeyInv, KeyTypeOK, BreakCode
<1>4. Agree(down, caps)'
    BY <1>2 DEF ComingUp, Agree, BreakCode
<1>5. ShiftAgrees'
    BY <1>2, Zenon DEF ComingUp, ShiftAgrees, BreakCode
<1> QED
    BY <1>2, <1>3, <1>4, <1>5, Zenon DEF KeyInv, BreakCode

LEMMA HandlerInv == ASSUME KeyInv, IntKeyboardHandler PROVE KeyInv'
<1>1. PICK k \in Key : GoingDown(k) \/ ComingUp(k)
    BY DEF KeyInv, IntKeyboardHandler
<1>2. CASE GoingDown(k) /\ Head(wire) = 224
    <2>1. /\ Arriving(k)' /\ KeyTypeOK'
          /\ UNCHANGED <<ctrl_status, shift_status, alt_status, caps_lock_status, down, caps,
                         shifted>>
        BY <1>2, PrefixInv, Zenon DEF GoingDown, KeyInv
    <2>2. GoingDown(k)'
        BY <1>2, <2>1, Zenon DEF GoingDown, Agree, ShiftAgrees
    <2> QED
        BY <2>1, <2>2, Zenon DEF KeyInv
<1>3. CASE ComingUp(k) /\ Head(wire) = 224
    <2>1. /\ Arriving(k + 128)' /\ KeyTypeOK'
          /\ UNCHANGED <<ctrl_status, shift_status, alt_status, caps_lock_status, down, caps,
                         shifted>>
        BY <1>3, PrefixInv DEF ComingUp, KeyInv
    <2>2. ComingUp(k)'
        BY <1>3, <2>1, Zenon DEF ComingUp, Agree, ShiftAgrees
    <2> QED
        BY <2>1, <2>2, Zenon DEF KeyInv
<1> QED
    BY <1>1, <1>2, <1>3, MakeInv, BreakInv, Zenon

\* What has been taken in and what is under way do not depend on the queue of
\* characters.
LEMMA SameWire ==
    ASSUME KeyInv, KeyTypeOK',
           UNCHANGED <<ctrl_status, shift_status, alt_status, caps_lock_status, ext_scancode,
                       down, wire, caps, shifted>>
    PROVE  KeyInv'
<1>0. ASSUME NEW code PROVE Arriving(code)' <=> Arriving(code)
    BY DEF Arriving
<1>1. ShiftAgrees' <=> ShiftAgrees
    BY Zenon DEF ShiftAgrees
<1>2. CASE wire = <<>> /\ ext_scancode = 0 /\ Agree(down, caps) /\ ShiftAgrees
    BY <1>1, <1>2, Zenon DEF KeyInv, Agree
<1>3. ASSUME NEW k \in Key, GoingDown(k) PROVE GoingDown(k)'
    BY <1>0, <1>1, <1>3, Zenon DEF GoingDown, Agree
<1>4. ASSUME NEW k \in Key, ComingUp(k) PROVE ComingUp(k)'
    BY <1>0, <1>1, <1>4, Zenon DEF ComingUp, Agree
<1> QED
    BY <1>2, <1>3, <1>4, Zenon DEF KeyInv

\* Every step keeps the invariant of the keyboard.
LEMMA KeyNextInv == KeyInv /\ [KeyboardNext]_keyVars => KeyInv'
<1> SUFFICES ASSUME KeyInv, [KeyboardNext]_keyVars PROVE KeyInv'
    OBVIOUS
<1>1. CASE \E k \in Key : KeyDown(k) \/ KeyUp(k)
    BY <1>1, KeyDownInv, KeyUpInv, Zenon
<1>2. CASE IntKeyboardHandler
    BY <1>2, HandlerInv, Zenon
<1>3. CASE GetChar
    <2>1. UNCHANGED <<ctrl_status, shift_status, alt_status, caps_lock_status, ext_scancode,
                      down, wire, caps, shifted>>
        BY <1>3, Zenon DEF GetChar, modifiers
    <2>2. queue' \in Seq((0..255) \X {0, 1})
        <3>1. \A S : \A q \in Seq(S) : q # <<>> => Tail(q) \in Seq(S)
            OBVIOUS
        <3> QED
            BY <1>3, <3>1, Zenon DEF GetChar, KeyInv, KeyTypeOK
    <2>3. KeyTypeOK'
        BY <2>1, <2>2, Zenon DEF KeyInv, KeyTypeOK
    <2> QED
        BY <2>1, <2>3, SameWire, Zenon
<1>4. CASE UNCHANGED keyVars
    <2>1. UNCHANGED <<ctrl_status, shift_status, alt_status, caps_lock_status, ext_scancode,
                      queue, down, wire, caps, shifted>>
        BY <1>4, Zenon DEF keyVars, modifiers
    <2>2. KeyTypeOK'
        BY <2>1, Zenon DEF KeyInv, KeyTypeOK
    <2> QED
        BY <2>1, <2>2, SameWire, Zenon
<1> QED
    BY <1>1, <1>2, <1>3, <1>4, Zenon DEF KeyboardNext

LEMMA KeyInvariant == KeyboardSpec => []KeyInv
    BY KeyInitInv, KeyNextInv, PTL DEF KeyboardSpec

\* No modifier sticks, whatever keys there are and in whatever order they are
\* pressed, repeated and released: IntKeyboardHandler has each status on only
\* while a key of it is held down, and its prefix flag is clear in between.
THEOREM ModifiersNotStuck == KeyboardSpec => []NotStuck
<1>1. KeyInv => NotStuck
    BY NothingArriving, Zenon DEF NotStuck, Agree, Held
<1> QED
    BY <1>1, KeyInvariant, PTL

\* Whatever keys there are and whenever their bytes are taken in, the character
\* that IntKeyboardHandler puts in the queue is the upper one if and only if a
\* shift key went down last, or, for a letter, if exactly one of that and caps
\* lock is in force.
THEOREM TypedCharacters == KeyboardSpec => TypedAsShifted
<1> DEFINE c == queue'[Len(queue')]
           Right == c[2] = IF c[1] \in TwoChars THEN shifted ELSE (shifted + caps) % 2
<1>1. ASSUME KeyInv, [KeyboardNext]_keyVars, Len(queue') > Len(queue) PROVE Right
    <2> USE <1>1
    <2>1. queue \in Seq((0..255) \X {0, 1}) /\ Len(queue) \in Nat
        BY DEF KeyInv, KeyTypeOK
    <2>2. queue' # queue
        BY <2>1
    <2>3. ~ GetChar
        BY <2>1 DEF GetChar
    <2>4. IntKeyboardHandler
        BY <2>2, <2>3, Zenon DEF KeyboardNext, KeyDown, KeyUp, keyVars
    <2>5. PICK k \in Key : GoingDown(k) \/ ComingUp(k)
        BY <2>4 DEF KeyInv, IntKeyboardHandler
    <2>6. Head(wire) # 224
        BY <2>2, <2>4 DEF IntKeyboardHandler
    <2>7. GoingDown(k)
        BY <2>2, <2>4, <2>5, <2>6, BreakInv, Zenon
    <2>8. Known(k) /\ k % 256 \notin Invisible /\ queue' = Append(queue, <<k, ShiftMode(k)>>)
        BY <2>2, <2>4, <2>6, <2>7, MakeInv, Zenon
    <2>9. k # caps_lock_make /\ k \notin shift_make
        BY <2>8, ModifierCodes
           DEF Invisible, shift_make, shift_l_make, shift_r_make, caps_lock_make
    <2>10. shift_status = shifted /\ caps_lock_status = caps
        BY <2>7, <2>9, Zenon DEF GoingDown, Agree, ShiftAgrees, KeyInv, KeyTypeOK
    <2>11. c = <<k, ShiftMode(k)>>
        BY <2>1, <2>8
    <2>12. ShiftMode(k) = IF k \in TwoChars THEN shifted ELSE (shifted + caps) % 2
        BY <2>10, Zenon DEF ShiftMode
    <2> QED
        BY <2>11, <2>12
<1> QED
    BY <1>1, KeyInvariant, PTL DEF KeyboardSpec, TypedAsShifted

=============================================================================
