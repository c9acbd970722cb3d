------------------------------ MODULE Strings ------------------------------
(***************************************************************************)
(* The functions of source/lib/string.c, loop by loop, on a memory m of    *)
(* bytes.  char is signed: a byte of Bytes \div 2 or more compares as a    *)
(* negative number.  Address 0 is the null pointer, which the ASSERTs      *)
(* keep out.  Their callers fill the memory byte by byte.                  *)
(***************************************************************************)
EXTENDS Integers, Sequences, FiniteSetsExt

CONSTANTS
    Bytes,      \* 2^8
    Size        \* bound: the addresses are 1..Size

ASSUME StringsAssumption == Bytes \in Nat \ {0} /\ Bytes % 2 = 0 /\ Size \in Nat \ {0}

VARIABLE memory     \* what the callers have stored so far

Addr == 1..Size
Memory == [Addr -> 0..Bytes - 1]

char(b) == IF b < Bytes \div 2 THEN b ELSE b - Bytes

-----------------------------------------------------------------------------
memset(m, dst, value, size) ==
    LET loop[k \in 0..size] ==
            IF k = 0 THEN m ELSE [loop[k - 1] EXCEPT ![dst + k - 1] = value]
    IN  loop[size]

memcpy(m, dst, src, size) ==
    LET loop[k \in 0..size] ==
            IF k = 0 THEN m
            ELSE [loop[k - 1] EXCEPT ![dst + k - 1] = loop[k - 1][src + k - 1]]
    IN  loop[size]

Differ(x, y) == IF char(x) > char(y) THEN 1 ELSE -1

memcmp(m, a, b, size) ==
    LET loop[k \in 0..size] ==
            IF k = size THEN 0
            ELSE IF m[a + k] # m[b + k] THEN Differ(m[a + k], m[b + k])
            ELSE loop[k + 1]
    IN  loop[0]

\* The address of the first zero at or behind str.
Zero(m, str) ==
    LET loop[a \in Addr] == IF m[a] = 0 THEN a ELSE loop[a + 1] IN loop[str]

\* Mutant: the terminator is counted.
strlen_Counted(m, str) == Zero(m, str) - str + 1

strlen(m, str) == Zero(m, str) - str

\* while ((*dst++ = *src++)), which reads what it has written if they overlap.
CopyString(m, dst, src) ==
    LET copied[k \in 0..Size] == memcpy(m, dst, src, k)
        n == Min({k \in 1..Size - Max({dst, src}) + 1 : copied[k][dst + k - 1] = 0})
    IN  copied[n]

strcpy(m, dst, src) == CopyString(m, dst, src)

strcat(m, dst, src) == CopyString(m, Zero(m, dst), src)

strcmp(m, a, b) ==
    LET loop[k \in 0..Size] ==
            IF m[a + k] = 0 /\ m[b + k] = 0 THEN 0
            ELSE IF m[a + k] # m[b + k] THEN Differ(m[a + k], m[b + k])
            ELSE loop[k + 1]
    IN  loop[0]

\* ch is unsigned, *str is not.
strchr(m, str, ch) ==
    LET loop[a \in Addr] ==
            IF m[a] = 0 THEN 0 ELSE IF char(m[a]) = ch THEN a ELSE loop[a + 1]
    IN  loop[str]

\* The loop returns at the first match, not at the last.
strrchr(m, str, ch) == strchr(m, str, ch)

-----------------------------------------------------------------------------
StringsInit == memory = [a \in Addr |-> 0]

StringsNext == \E a \in Addr, b \in 0..Bytes - 1 : memory' = memset(memory, a, b, 1)

-----------------------------------------------------------------------------
\* The strings that begin at an address, and their characters.
Terminated(m) == {a \in Addr : \E z \in a..Size : m[z] = 0}
String(m, str) == SubSeq(m, str, Min({z \in str..Size : m[z] = 0}) - 1)

\* Whether the bytes from a to a + n - 1 and from b to b + k - 1 are apart.
Apart(a, n, b, k) == a + n <= b \/ b + k <= a

\* memset and memcpy change what they are asked to and nothing else.  A copy
\* delivers the old bytes, also in place if it goes to lower addresses.
BlocksRight(m) ==
    \A dst, src \in Addr, size \in 0..Size :
        dst + size <= Size + 1 /\ src + size <= Size + 1 =>
        LET asked == dst..dst + size - 1 IN
        /\ \A x \in Addr : memset(m, dst, 1, size)[x] = IF x \in asked THEN 1 ELSE m[x]
        /\ dst <= src \/ src + size <= dst =>
            \A x \in Addr :
                memcpy(m, dst, src, size)[x] = IF x \in asked THEN m[src + x - dst] ELSE m[x]
        /\ memcmp(m, dst, src, size) = 0
             <=> \A k \in 0..size - 1 : m[dst + k] = m[src + k]

\* Lengths, copies and concatenations, with source and destination apart.
CopiesRight(m, a, b) ==
    LET s == String(m, a)
        u == String(m, b)
        n == Len(s) + Len(u) + 1
        r == strcat(m, a, b)
    IN  /\ strlen(m, a) = Len(s)
        /\ Apart(a, Len(u) + 1, b, Len(u) + 1) /\ a + Len(u) <= Size =>
               String(strcpy(m, a, b), a) = u
        /\ Apart(a, n, b, Len(u) + 1) /\ a + n <= Size + 1 =>
               /\ String(r, a) = s \o u
               /\ \A x \in Addr : x \notin a..a + n - 1 => r[x] = m[x]

\* strcmp is an order in which only equal strings compare as equal.
ComparisonRight(m, a, b) ==
    /\ strcmp(m, a, b) = -strcmp(m, b, a)
    /\ strcmp(m, a, b) = 0 <=> String(m, a) = String(m, b)
    /\ \A c \in Terminated(m) :
           strcmp(m, a, b) = 1 /\ strcmp(m, b, c) = 1 => strcmp(m, a, c) = 1

\* strchr finds the first occurrence, but never that of a byte that is negative
\* as a char; strrchr, whose name promises the last one, does the same.
SearchRight(m, a) ==
    \A ch \in 1..Bytes - 1 :
        LET found == {x \in a..Zero(m, a) : m[x] = ch} IN
        /\ strchr(m, a, ch) = IF found = {} \/ ch >= Bytes \div 2 THEN 0 ELSE Min(found)
        /\ strrchr(m, a, ch) = strchr(m, a, ch)

(***************************************************************************)
(* The functions of string.c do, on every memory, what the sequences of    *)
(* bytes call for: exactly the bytes asked for change, a string is copied  *)
(* or appended whole and terminated, strcmp is an order although its chars *)
(* are signed, and a search finds the first occurrence of a byte that is   *)
(* positive as a char.                                                     *)
(***************************************************************************)
StringsRight ==
    memory \in Memory =>
        /\ BlocksRight(memory)
        /\ \A a \in Terminated(memory) :
            /\ SearchRight(memory, a)
            /\ \A b \in Terminated(memory) :
                CopiesRight(memory, a, b) /\ ComparisonRight(memory, a, b)
=============================================================================
