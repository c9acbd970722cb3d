------------------------------- MODULE Format -------------------------------
(***************************************************************************)
(* sys_putint and sys_puthex of source/lib/kernel/print.c: the string that *)
(* each of them prints.  An int has the values -IntHalf..IntHalf - 1.  A   *)
(* character is the number that it is above '0'; letters are apart.  The   *)
(* caller prints a counter, which runs through all ints.                   *)
(***************************************************************************)
EXTENDS Integers, Sequences

CONSTANTS IntHalf   \* 2^31

ASSUME FormatAssumption == IntHalf \in Nat \ {0}

VARIABLE number     \* the caller's counter

CInt == -IntHalf..IntHalf - 1

Minus == -3             \* '-'
LetterGap == 7          \* from '9' + 1 to 'A'

\* Division and remainder of C.
Quot(n, d) == IF n < 0 THEN -((-n) \div d) ELSE n \div d
Rem(n, d) == n - d * Quot(n, d)

\* -num; that of the smallest number overflows, to itself.
Negate(num) == IF num = -IntHalf THEN num ELSE -num

\* The digits of n, lowest first: at least one.
Digits(n, base) ==
    LET loop[k \in -IntHalf..2 * IntHalf] ==
            IF Quot(k, base) = 0 THEN <<Rem(k, base)>>
            ELSE <<Rem(k, base)>> \o loop[Quot(k, base)]
    IN  loop[n]

\* Mutant: one swap too few.
Swapped_Short(str) ==
    [i \in DOMAIN str |->
        IF i <= (Len(str) - 1) \div 2 \/ i > Len(str) - (Len(str) - 1) \div 2
        THEN str[Len(str) + 1 - i] ELSE str[i]]

\* for (i = 0; i < cnt/2; i++): the i-th character from each end changes places.
Swapped(str) ==
    [i \in DOMAIN str |->
        IF i <= Len(str) \div 2 \/ i > Len(str) - Len(str) \div 2
        THEN str[Len(str) + 1 - i] ELSE str[i]]

sys_putint(num) ==
    LET n == IF num < 0 THEN Negate(num) ELSE num
    IN  Swapped(Digits(n, 10) \o (IF num < 0 THEN <<Minus>> ELSE <<>>))

HexDigit(d) == IF d > 9 THEN d + LetterGap ELSE d

\* num is unsigned; 0 is printed apart.
sys_puthex(num) ==
    IF num = 0 THEN <<0>>
    ELSE LET digits == Digits(num, 16) IN
         Swapped([i \in DOMAIN digits |-> HexDigit(digits[i])])

-----------------------------------------------------------------------------
FormatInit == number = 0

FormatNext == number' = IF number = IntHalf - 1 THEN -IntHalf ELSE number + 1

-----------------------------------------------------------------------------
\* The number that a string of digits denotes, read from the left.
Value(str, base) ==
    LET read[i \in 0..Len(str)] ==
            IF i = 0 THEN 0
            ELSE read[i - 1] * base + (IF str[i] > 9 THEN str[i] - LetterGap ELSE str[i])
    IN  read[Len(str)]

\* Only digits, and no zero in front of others.
Proper(str, base) ==
    /\ \A i \in DOMAIN str : str[i] \in {HexDigit(d) : d \in 0..base - 1}
    /\ Len(str) > 1 => str[1] # 0

(***************************************************************************)
(* What sys_putint and sys_puthex print denotes the number they are given, *)
(* puthex's taken as unsigned, for all numbers but the smallest one in     *)
(* sys_putint: its negation overflows, and its digits are none.            *)
(***************************************************************************)
NumbersRight ==
    number \in CInt =>
        LET str == sys_putint(number)
            digits == IF number < 0 THEN Tail(str) ELSE str
            hex == sys_puthex(number % (2 * IntHalf))
        IN  /\ number < 0 => Head(str) = Minus
            /\ Proper(digits, 10) <=> number # -IntHalf
            /\ Proper(digits, 10) =>
                  Value(digits, 10) = IF number < 0 THEN -number ELSE number
            /\ Proper(hex, 16) /\ Value(hex, 16) = number % (2 * IntHalf)
=============================================================================
