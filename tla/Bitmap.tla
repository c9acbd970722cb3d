------------------------------- MODULE Bitmap -------------------------------
(***************************************************************************)
(* The bitmaps of source/lib/kernel/bitmap.c.  A bitmap is a stretch of    *)
(* whole bytes in memory; m is that memory bit by bit, base the first bit  *)
(* of the bitmap and len its length in bytes (bitmap_bytes_len).  What is  *)
(* behind the last byte belongs to somebody else.                          *)
(***************************************************************************)
EXTENDS Integers, FiniteSetsExt

CONSTANT ByteBits   \* 8

ASSUME BitmapAssumption == ByteBits \in Nat \ {0}

BitmapTestBit(m, base, i) == m[base + i] = 1

\* The first byte that is not 0xFF, or len.
FirstByte(m, base, len) ==
    Min({len} \cup {b \in 0..len - 1 :
            \E i \in b * ByteBits..(b + 1) * ByteBits - 1 : ~ BitmapTestBit(m, base, i)})

\* ASSERT(byte_idx < btmp->bitmap_bytes_len) fails: no bit is clear.
ScanAsserts(m, base, len) == FirstByte(m, base, len) = len

\* Mutant: a bit that is set does not start the count anew.
BitmapScan_NoReset(m, base, len, cnt) ==
    LET byte == FirstByte(m, base, len)
        start == Min({i \in byte * ByteBits..(byte + 1) * ByteBits - 1 :
                        ~ BitmapTestBit(m, base, i)})
        avl_bits_count[k \in start..len * ByteBits] ==
            IF k = start THEN 1
            ELSE avl_bits_count[k - 1] + (IF BitmapTestBit(m, base, k) THEN 0 ELSE 1)
        found == {k \in start + 1..len * ByteBits : avl_bits_count[k] = cnt}
    IN  IF cnt = 1 THEN start ELSE IF found = {} THEN -1 ELSE Min(found) - cnt + 1

(***************************************************************************)
(* BitmapScan once its ASSERT has held: the first of cnt clear bits in a   *)
(* row, or -1.  avl_bits_count[k] is the counter after bit k was tested;   *)
(* the loop starts with bit start + 1 and runs bits_left times, so the     *)
(* last bit it tests is the one behind the bitmap.                         *)
(***************************************************************************)
BitmapScan(m, base, len, cnt) ==
    LET byte == FirstByte(m, base, len)
        start == Min({i \in byte * ByteBits..(byte + 1) * ByteBits - 1 :
                        ~ BitmapTestBit(m, base, i)})
        avl_bits_count[k \in start..len * ByteBits] ==
            IF k = start THEN 1
            ELSE IF BitmapTestBit(m, base, k) THEN 0
            ELSE avl_bits_count[k - 1] + 1
        found == {k \in start + 1..len * ByteBits : avl_bits_count[k] = cnt}
    IN  IF cnt = 1 THEN start ELSE IF found = {} THEN -1 ELSE Min(found) - cnt + 1
-----------------------------------------------------------------------------
\* What the scan is for: the lowest place for cnt bits in the bitmap, or -1.
FirstFit(m, base, len, cnt) ==
    LET fits == {r \in 0..len * ByteBits - cnt :
                    \A i \in r..r + cnt - 1 : ~ BitmapTestBit(m, base, i)}
    IN  IF fits = {} THEN -1 ELSE Min(fits)

\* The scan is first fit; when nothing fits inside and the bit behind the
\* bitmap is clear, the place it returns may reach one bit too far.
ScanFits(m, base, len) ==
    LET last == len * ByteBits IN
    IF ScanAsserts(m, base, len)
    THEN \A i \in 0..last - 1 : BitmapTestBit(m, base, i)
    ELSE \A cnt \in 1..last :
            LET r == BitmapScan(m, base, len, cnt) IN
            \/ r = FirstFit(m, base, len, cnt)
            \/ /\ FirstFit(m, base, len, cnt) = -1 /\ cnt > 1
               /\ r = last - cnt + 1
               /\ \A i \in r..last : ~ BitmapTestBit(m, base, i)
=============================================================================
