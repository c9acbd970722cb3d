------------------------------ MODULE Keyboard ------------------------------
(***************************************************************************)
(* The keyboard interrupt handler (source/device/keyboard.c): how the scan *)
(* codes that arrive one byte per interrupt become modifier states and     *)
(* characters.  The keyboard itself is the environment: keys are pressed,  *)
(* held (it repeats their make code) and released, and it sends one or two *)
(* bytes for each.  The queue is the one that IoQueue promises.            *)
(***************************************************************************)
EXTENDS Naturals, Sequences

CONSTANTS
    Key,        \* the make codes of the keys in use; 16#E000 + c is sent as E0 c.
                \* None is 0x60: its break code would be the prefix E0
    MaxQueue    \* the characters that keyboard_IO_buf takes: bufsize - 1

ASSUME KeyboardAssumption ==
    /\ Key \subseteq {p + c : p \in {0, 57344}, c \in (1..127) \ {96}}
    /\ MaxQueue \in Nat \ {0}

shift_l_make == 42          \* 0x2a
shift_r_make == 54          \* 0x36
alt_l_make == 56            \* 0x38
alt_r_make == 57344 + 56    \* 0xe038
ctrl_l_make == 29           \* 0x1d
ctrl_r_make == 57344 + 29   \* 0xe01d
caps_lock_make == 58        \* 0x3a

ctrl_make == {ctrl_l_make, ctrl_r_make}
shift_make == {shift_l_make, shift_r_make}
alt_make == {alt_l_make, alt_r_make}

VARIABLES
    ctrl_status, shift_status, alt_status, caps_lock_status, ext_scancode,
    queue,      \* the characters in keyboard_IO_buf
    down,       \* the keys that are held down
    wire,       \* the bytes on their way from the keyboard
    caps,       \* how often caps lock was pressed, mod 2
    shifted     \* 1 if the last thing a shift key did was to go down, 0 if it
                \* came up, or if none was touched yet

modifiers == <<ctrl_status, shift_status, alt_status, caps_lock_status>>
keyVars == <<modifiers, ext_scancode, queue, down, wire, caps, shifted>>

\* The rows of keymap that hold no character, and the keys with two of them
\* that caps lock does not concern.
Invisible == {0, 29, 42, 54, 56, 58}
TwoChars == (0..13) \cup {26, 27, 39, 40, 41, 43, 51, 52, 53}

KeyboardInit ==
    /\ ctrl_status = 0 /\ shift_status = 0 /\ alt_status = 0 /\ caps_lock_status = 0
    /\ ext_scancode = 0
    /\ queue = <<>>
    /\ down = {}
    /\ wire = <<>>
    /\ caps = 0 /\ shifted = 0

-----------------------------------------------------------------------------
\* The bytes the keyboard sends when a key goes down, and when it comes up.
Bytes(code) == IF code >= 57344 THEN <<224, code % 256>> ELSE <<code>>

KeyDown(k) ==
    /\ wire = <<>>
    /\ wire' = Bytes(k)
    /\ down' = down \cup {k}
    /\ caps' = IF k = caps_lock_make THEN 1 - caps ELSE caps
    /\ shifted' = IF k \in shift_make THEN 1 ELSE shifted
    /\ UNCHANGED <<modifiers, ext_scancode, queue>>

KeyUp(k) ==
    /\ wire = <<>>
    /\ k \in down
    /\ wire' = Bytes(k + 128)
    /\ down' = down \ {k}
    /\ shifted' = IF k \in shift_make THEN 0 ELSE shifted
    /\ UNCHANGED <<modifiers, ext_scancode, queue, caps>>

\* scan_code &= 0xFF7F
MakeCode(code) == IF (code \div 128) % 2 = 1 THEN code - 128 ELSE code

IsBreak(code) == (code \div 128) % 2 = 1

Known(code) == (code > 0 /\ code < 59) \/ code \in {alt_r_make, ctrl_r_make}

\* Mutant: caps lock acts on every key.
ShiftMode_AllCaps(code) == (shift_status + caps_lock_status) % 2

\* The column of keymap.
ShiftMode(code) ==
    IF code \in TwoChars THEN shift_status ELSE (shift_status + caps_lock_status) % 2

\* A modifier key comes up.
BreakCode(code) ==
    /\ ctrl_status' = IF code \in ctrl_make THEN 0 ELSE ctrl_status
    /\ shift_status' = IF code \in shift_make THEN 0 ELSE shift_status
    /\ alt_status' = IF code \in alt_make THEN 0 ELSE alt_status
    /\ UNCHANGED <<caps_lock_status, queue>>

\* A key goes down: its character is queued, as the two indices into keymap,
\* dropped if the queue is full;
\* what the modifiers become is decided by idx, the code without its prefix.
MakeKey(code) ==
    LET idx == code % 256 IN
    /\ queue' = IF idx \notin Invisible /\ Len(queue) < MaxQueue
                THEN Append(queue, <<idx, ShiftMode(code)>>) ELSE queue
    /\ ctrl_status' = IF idx \in ctrl_make THEN 1 ELSE ctrl_status
    /\ shift_status' = IF idx \in shift_make THEN 1 ELSE shift_status
    /\ alt_status' = IF idx \in alt_make THEN 1 ELSE alt_status
    /\ caps_lock_status' = IF idx = caps_lock_make THEN 1 - caps_lock_status
                           ELSE caps_lock_status

\* Mutant: the prefix is remembered for good.
Prefixed_Kept == ext_scancode

\* ext_scancode once the byte after a prefix has been taken in.
Prefixed == 0

\* One interrupt takes in one byte.
IntKeyboardHandler ==
    /\ wire # <<>>
    /\ wire' = Tail(wire)
    /\ UNCHANGED <<down, caps, shifted>>
    /\ LET byte == Head(wire)
           code == IF ext_scancode = 1 THEN 57344 + byte ELSE byte
       IN  IF byte = 224
           THEN ext_scancode' = 1 /\ UNCHANGED <<modifiers, queue>>
           ELSE /\ ext_scancode' = Prefixed
                /\ IF IsBreak(code) THEN BreakCode(MakeCode(code))
                   ELSE IF Known(code) THEN MakeKey(code)
                   ELSE UNCHANGED <<modifiers, queue>>

\* KeyboardOutput takes a character out of the queue.
GetChar ==
    /\ queue # <<>>
    /\ queue' = Tail(queue)
    /\ UNCHANGED <<modifiers, ext_scancode, down, wire, caps, shifted>>

KeyboardNext ==
    \/ \E k \in Key : KeyDown(k) \/ KeyUp(k)
    \/ IntKeyboardHandler
    \/ GetChar

KeyboardSpec == KeyboardInit /\ [][KeyboardNext]_keyVars

-----------------------------------------------------------------------------
Held(codes) == down \cap codes # {}

(***************************************************************************)
(* No modifier sticks: when all bytes have been taken in, a modifier that  *)
(* the handler takes for pressed has a key that is held down, in whatever  *)
(* order the left and the right one were pressed, repeated and released.   *)
(* (The converse is false: a status is cleared when either key comes up.)  *)
(***************************************************************************)
NotStuck ==
    wire = <<>> =>
        /\ ctrl_status = 1 => Held(ctrl_make)
        /\ shift_status = 1 => Held(shift_make)
        /\ alt_status = 1 => Held(alt_make)
        /\ caps_lock_status = caps
        /\ ext_scancode = 0

(***************************************************************************)
(* What is typed is what the keys say, however late the bytes come: a key  *)
(* with two characters gives the upper one if and only if the last thing a *)
(* shift key did before it was to go down, a letter if exactly one of that *)
(* and caps lock is in force.  The two shift keys share shift_status, so   *)
(* what counts is the last of them to move: after one of them came up the  *)
(* other one, though held down, does not shift until it repeats.           *)
(***************************************************************************)
TypedAsShifted ==
    [][Len(queue') > Len(queue) =>
        LET c == queue'[Len(queue')] IN
        c[2] = IF c[1] \in TwoChars THEN shifted ELSE (shifted + caps) % 2]_keyVars
=============================================================================
