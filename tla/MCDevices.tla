----------------------------- MODULE MCDevices -----------------------------
(***************************************************************************)
(* The screen: three rows of three columns; registers of two octal digits, *)
(* of whose range the segment covers a quarter, as it does of 2^16.  A     *)
(* behaviour is followed until it is spoiled; CursorRecovers is about what *)
(* comes then.  The keyboard: both shift, control and alternate keys, caps *)
(* lock, the keys A and 1, F1 and the cursor key E0 48, which the handler  *)
(* does not know, at most five of them down at a time.  They share no      *)
(* state, so that a behaviour exercises one of them.                       *)
(***************************************************************************)
EXTENDS Screen, Keyboard, FiniteSets

VARIABLE part

MCKeys == {shift_l_make, shift_r_make, ctrl_l_make, ctrl_r_make, alt_l_make, alt_r_make,
           caps_lock_make, 30, 2, 59, 57344 + 72}

DevicesInit ==
    /\ ScreenInit /\ KeyboardInit
    /\ part = "screen" \/ (part = "keyboard" /\ cursor = 0)

DevicesNext ==
    /\ \/ part = "screen" /\ ScreenNext /\ UNCHANGED keyVars
       \/ part = "keyboard" /\ KeyboardNext /\ UNCHANGED screenVars
    /\ UNCHANGED part

DevicesSpec == DevicesInit /\ [][DevicesNext]_<<screenVars, keyVars, part>>

MaxDown == 5
Followed == ~ spoiled /\ Cardinality(down) <= MaxDown
=============================================================================
