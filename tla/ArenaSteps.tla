---------------------------- MODULE ArenaSteps -----------------------------
(***************************************************************************)
(* The invariant of the heap of Arena, and each thing sys_malloc and       *)
(* sys_free do to the free lists, the arenas and the allocations (take     *)
(* pages, cut an arena, take a block, give it back, return an arena, free  *)
(* the pages), which keeps it: for every page size, header, range of block *)
(* sizes and pool.  ArenaProofs composes them to the actions.              *)
(***************************************************************************)
EXTENDS Arena, FiniteSetTheorems, TLAPS

-----------------------------------------------------------------------------
\* What the three list operations do to the blocks of a free list.

\* sys_free puts a block at the end of its free list.
LEMMA GivenBack ==
    ASSUME NEW S, NEW s \in Seq(S), NEW e \in S
    PROVE  /\ Append(s, e) \in Seq(S)
           /\ Append(s, e) # <<>>
           /\ Range(Append(s, e)) = Range(s) \cup {e}
           /\ IsInjective(s) /\ e \notin Range(s) => IsInjective(Append(s, e))
<1>1. Append(s, e) \in Seq(S) /\ Len(Append(s, e)) = Len(s) + 1
    OBVIOUS
<1>2. \A i \in 1..Len(s) : Append(s, e)[i] = s[i]
    OBVIOUS
<1>3. Append(s, e)[Len(s) + 1] = e
    OBVIOUS
<1>4. DOMAIN s = 1..Len(s) /\ DOMAIN Append(s, e) = 1..(Len(s) + 1) /\ Len(s) \in Nat
    OBVIOUS
<1>5. Range(Append(s, e)) = Range(s) \cup {e}
    BY <1>2, <1>3, <1>4 DEF Range
<1>6. ASSUME IsInjective(s), e \notin Range(s)
      PROVE  IsInjective(Append(s, e))
    BY <1>2, <1>3, <1>4, <1>6 DEF IsInjective, Range
<1>7. Append(s, e) # <<>>
    <2>1. Len(<<>>) = 0
        OBVIOUS
    <2> QED
        BY <1>1, <1>4, <2>1
<1> QED
    BY <1>1, <1>5, <1>6, <1>7, Zenon

\* sys_malloc takes the first block off the free list, and only that one.
LEMMA TakenOff ==
    ASSUME NEW S, NEW s \in Seq(S), s # <<>>
    PROVE  /\ Head(s) \in S
           /\ Head(s) \in Range(s)
           /\ Tail(s) \in Seq(S)
           /\ IsInjective(s) => /\ IsInjective(Tail(s))
                                /\ Range(Tail(s)) = Range(s) \ {Head(s)}
<1>1. /\ Len(s) \in Nat /\ Len(s) > 0 /\ DOMAIN s = 1..Len(s)
      /\ Tail(s) \in Seq(S) /\ Len(Tail(s)) = Len(s) - 1
      /\ DOMAIN Tail(s) = 1..(Len(s) - 1)
    OBVIOUS
<1>2. Head(s) = s[1] /\ \A i \in 1..(Len(s) - 1) : Tail(s)[i] = s[i + 1]
    OBVIOUS
<1>3. Head(s) \in S /\ Head(s) \in Range(s)
    BY <1>1, <1>2 DEF Range
<1>4. ASSUME IsInjective(s)
      PROVE  IsInjective(Tail(s)) /\ Range(Tail(s)) = Range(s) \ {Head(s)}
    <2>1. IsInjective(Tail(s))
        BY <1>1, <1>2, <1>4 DEF IsInjective
    <2>2. ASSUME NEW x \in Range(Tail(s)) PROVE x \in Range(s) \ {Head(s)}
        <3>1. PICK i \in 1..(Len(s) - 1) : x = s[i + 1]
            BY <1>1, <1>2, <2>2, Zenon DEF Range
        <3> QED
            BY <1>1, <1>2, <1>4, <3>1 DEF Range, IsInjective
    <2>3. ASSUME NEW x \in Range(s) \ {Head(s)} PROVE x \in Range(Tail(s))
        <3>1. PICK i \in 1..Len(s) : x = s[i] /\ i # 1
            BY <1>1, <1>2, <2>3, Zenon DEF Range
        <3>2. i - 1 \in 1..(Len(s) - 1) /\ Tail(s)[i - 1] = x
            BY <1>1, <1>2, <3>1
        <3> QED
            BY <1>1, <3>2, Zenon DEF Range
    <2> QED
        BY <2>1, <2>2, <2>3, Zenon
<1> QED
    BY <1>1, <1>3, <1>4, Zenon

\* A list without its element at k.
Removed(s, k) == SubSeq(s, 1, k - 1) \o SubSeq(s, k + 1, Len(s))

\* The elements from m to n.
LEMMA Part ==
    ASSUME NEW S, NEW s, NEW m \in Int, NEW n \in Int, \A i \in m..n : s[i] \in S
    PROVE  /\ SubSeq(s, m, n) \in Seq(S)
           /\ m <= n + 1 => Len(SubSeq(s, m, n)) = n - m + 1
OBVIOUS

\* Two lists one behind the other.
LEMMA Joined ==
    ASSUME NEW S, NEW s \in Seq(S), NEW t \in Seq(S)
    PROVE  /\ s \o t \in Seq(S) /\ Len(s \o t) = Len(s) + Len(t)
           /\ \A i \in 1..(Len(s) + Len(t)) :
                (s \o t)[i] = IF i <= Len(s) THEN s[i] ELSE t[i - Len(s)]
OBVIOUS

\* list_remove takes one block out of the middle of the list, and only that one.
LEMMA RemoveFacts ==
    ASSUME NEW S, NEW s \in Seq(S), NEW k \in 1..Len(s)
    PROVE  /\ Removed(s, k) \in Seq(S)
           /\ Len(Removed(s, k)) = Len(s) - 1
           /\ \A i \in 1..(Len(s) - 1) :
                Removed(s, k)[i] = IF i < k THEN s[i] ELSE s[i + 1]
           /\ IsInjective(s) => /\ IsInjective(Removed(s, k))
                                /\ Range(Removed(s, k)) = Range(s) \ {s[k]}
<1> DEFINE r == Removed(s, k)
<1>1. /\ Len(s) \in Nat /\ DOMAIN s = 1..Len(s) /\ k \in Nat
      /\ r \in Seq(S) /\ Len(r) = Len(s) - 1
      /\ \A i \in 1..(Len(s) - 1) : r[i] = IF i < k THEN s[i] ELSE s[i + 1]
    <2> DEFINE a == SubSeq(s, 1, k - 1)
               c == SubSeq(s, k + 1, Len(s))
    <2>1. Len(s) \in Nat /\ DOMAIN s = 1..Len(s) /\ k \in Nat /\ k - 1 \in Nat
        OBVIOUS
    <2>2. \A i \in 1..(k - 1) : s[i] \in S
        BY <2>1
    <2>3. \A i \in (k + 1)..Len(s) : s[i] \in S
        BY <2>1
    <2>4. /\ a \in Seq(S) /\ Len(a) = k - 1
          /\ \A i \in 1..(k - 1) : a[i] = s[i]
        BY <2>1, <2>2
    <2>5. c \in Seq(S) /\ Len(c) = Len(s) - k
        <3>1. k + 1 \in Int /\ Len(s) \in Int /\ k + 1 <= Len(s) + 1
            BY <2>1
        <3>2. c \in Seq(S) /\ Len(c) = Len(s) - (k + 1) + 1
            BY <2>3, <3>1, Part
        <3>3. Len(s) - (k + 1) + 1 = Len(s) - k
            BY <2>1
        <3> QED
            BY <3>2, <3>3, Zenon
    <2>6. \A i \in 1..(Len(s) - k) : c[i] = s[k + i]
        <3>1. \A i \in 1..(Len(s) - (k + 1) + 1) : c[i] = s[(k + 1) + i - 1]
            BY <2>1, <2>3
        <3> HIDE DEF c
        <3> QED
            BY <2>1, <3>1
    <2>7. r = a \o c
        BY Zenon DEF Removed
    <2> HIDE DEF a, c
    <2>8. /\ r \in Seq(S) /\ Len(r) = Len(s) - 1
          /\ \A i \in 1..(Len(s) - 1) :
                r[i] = IF i <= k - 1 THEN a[i] ELSE c[i - (k - 1)]
        <3>1. /\ r \in Seq(S) /\ Len(r) = Len(a) + Len(c)
              /\ \A i \in 1..(Len(a) + Len(c)) :
                    r[i] = IF i <= Len(a) THEN a[i] ELSE c[i - Len(a)]
            <4>1. /\ a \o c \in Seq(S) /\ Len(a \o c) = Len(a) + Len(c)
                  /\ \A i \in 1..(Len(a) + Len(c)) :
                        (a \o c)[i] = IF i <= Len(a) THEN a[i] ELSE c[i - Len(a)]
                BY <2>4, <2>5, Joined, Zenon
            <4> QED
                BY <2>7, <4>1, Zenon
        <3>2. Len(a) + Len(c) = Len(s) - 1
            BY <2>1, <2>4, <2>5
        <3> HIDE DEF r
        <3> QED
            BY <2>4, <3>1, <3>2, Zenon
    <2> HIDE DEF r
    <2>9. ASSUME NEW i \in 1..(Len(s) - 1)
          PROVE  r[i] = IF i < k THEN s[i] ELSE s[i + 1]
        <3>1. CASE i < k
            <4>1. i <= k - 1 /\ i \in 1..(k - 1)
                BY <2>1, <3>1
            <4>2. r[i] = a[i]
                BY <2>8, <4>1, Zenon
            <4> QED
                BY <2>4, <3>1, <4>1, <4>2, Zenon
        <3>2. CASE i >= k
            <4>1. i - (k - 1) \in 1..(Len(s) - k) /\ k + (i - (k - 1)) = i + 1
                BY <2>1, <3>2
            <4>2. c[i - (k - 1)] = s[i + 1]
                BY <2>6, <4>1, Zenon
            <4> QED
                BY <2>1, <2>8, <3>2, <4>2
        <3> QED
            BY <2>1, <3>1, <3>2
    <2> QED
        BY <2>1, <2>8, <2>9, Zenon
<1>2. DOMAIN r = 1..(Len(s) - 1)
    BY <1>1
<1> HIDE DEF r
<1>3. ASSUME IsInjective(s)
      PROVE  IsInjective(r) /\ Range(r) = Range(s) \ {s[k]}
    <2>1. IsInjective(r)
        <3> SUFFICES ASSUME NEW i \in 1..(Len(s) - 1), NEW j \in 1..(Len(s) - 1), r[i] = r[j]
                     PROVE  i = j
            BY <1>2, Zenon DEF IsInjective
        <3>1. /\ i \in 1..Len(s) /\ j \in 1..Len(s)
              /\ i + 1 \in 1..Len(s) /\ j + 1 \in 1..Len(s)
            BY <1>1
        <3>2. \A a, c \in 1..Len(s) : s[a] = s[c] => a = c
            BY <1>1, <1>3, Zenon DEF IsInjective
        <3>3. /\ r[i] = IF i < k THEN s[i] ELSE s[i + 1]
              /\ r[j] = IF j < k THEN s[j] ELSE s[j + 1]
            BY <1>1, Zenon
        <3>4. CASE i < k /\ j < k
            <4>1. s[i] = s[j]
                BY <3>3, <3>4, Zenon
            <4> QED
                BY <3>1, <3>2, <4>1, Zenon
        <3>5. CASE i < k /\ ~ j < k
            <4>1. s[i] = s[j + 1]
                BY <3>3, <3>5, Zenon
            <4>2. i = j + 1
                BY <3>1, <3>2, <4>1, Zenon
            <4> QED
                BY <1>1, <3>5, <4>2
        <3>6. CASE ~ i < k /\ j < k
            <4>1. s[i + 1] = s[j]
                BY <3>3, <3>6, Zenon
            <4>2. i + 1 = j
                BY <3>1, <3>2, <4>1, Zenon
            <4> QED
                BY <1>1, <3>6, <4>2
        <3>7. CASE ~ i < k /\ ~ j < k
            <4>1. s[i + 1] = s[j + 1]
                BY <3>3, <3>7, Zenon
            <4>2. i + 1 = j + 1
                BY <3>1, <3>2, <4>1, Zenon
            <4> QED
                BY <1>1, <4>2
        <3> QED
            BY <3>4, <3>5, <3>6, <3>7, Zenon
    <2>2. ASSUME NEW x \in Range(r) PROVE x \in Range(s) \ {s[k]}
        <3>1. PICK i \in 1..(Len(s) - 1) : x = r[i]
            BY <1>2, <2>2, Zenon DEF Range
        <3>2. i \in 1..Len(s) /\ i + 1 \in 1..Len(s)
            BY <1>1
        <3> QED
            BY <1>1, <1>3, <3>1, <3>2, SMTT(30) DEF Range, IsInjective
    <2>3. ASSUME NEW x \in Range(s) \ {s[k]} PROVE x \in Range(r)
        <3>1. PICK i \in 1..Len(s) : x = s[i] /\ i # k
            BY <1>1, <2>3, Zenon DEF Range
        <3>2. CASE i < k
            <4>1. i \in 1..(Len(s) - 1) /\ r[i] = x
                BY <1>1, <3>1, <3>2
            <4> QED
                BY <1>2, <4>1, Zenon DEF Range
        <3>3. CASE i > k
            <4>1. i - 1 \in 1..(Len(s) - 1) /\ r[i - 1] = x
                BY <1>1, <3>1, <3>3
            <4> QED
                BY <1>2, <4>1, Zenon DEF Range
        <3> QED
            BY <1>1, <3>1, <3>2, <3>3
    <2> QED
        BY <2>1, <2>2, <2>3, Zenon
<1> QED
    BY <1>1, <1>3, Zenon DEF r

-----------------------------------------------------------------------------
\* The inductive invariant.

\* The addresses of the blocks of page n when it is cut for desc d.
BlockSet(n, d) == {arena2block(n, d, i) : i \in 0..memory_blocks_sum(d) - 1}

\* The address that sys_malloc returns for a large allocation on page n.
LargeAddress(n) == n * PageSize + HeaderSize

Page == 0..Pages - 1

SmallHeader == [large_request : {0}, desc : desc, cnt : Nat]
LargeHeader == [large_request : {1}, desc : {-1}, cnt : Nat \ {0}]
Headers == {NoArena, Inner} \cup SmallHeader \cup LargeHeader

\* The parts of the invariant are stated for free lists fl, headers ar and
\* allocations lv, as sys_malloc passes through a state between two steps: an
\* arena that is cut and of which no block is taken yet.
IsSmall(ar, n) == ar[n].large_request = 0
IsLarge(ar, n) == ar[n].large_request = 1

\* The blocks of page n on the free list of its desc.
FreeOf(fl, ar, n) == {b \in Range(fl[ar[n].desc]) : block2arena(b) = n}

HeapType(fl, ar, lv) ==
    /\ fl \in [desc -> Seq(Nat)]
    /\ ar \in [Page -> Headers]
    /\ lv \in [DOMAIN lv -> Nat \ {0}]
    /\ DOMAIN lv \subseteq Nat

\* A large allocation has the pages its header says, and no page is the later
\* page of a large allocation that is gone.
LargeOK(ar, lv) ==
    /\ \A n \in Page : IsLarge(ar, n) =>
        /\ n + ar[n].cnt <= Pages
        /\ \A i \in (n + 1)..(n + ar[n].cnt - 1) : ar[i] = Inner
        /\ LargeAddress(n) \in DOMAIN lv
    /\ \A i \in Page : ar[i] = Inner =>
        \E n \in Page : IsLarge(ar, n) /\ i \in (n + 1)..(n + ar[n].cnt - 1)

\* What a caller has is a block of a cut page, or the pages of a large one.
HasBlock(ar, lv, p) ==
    /\ IsSmall(ar, block2arena(p))
    /\ p \in BlockSet(block2arena(p), ar[block2arena(p)].desc)
    /\ lv[p] <= block_size(ar[block2arena(p)].desc)

HasPages(ar, lv, p) ==
    /\ IsLarge(ar, block2arena(p))
    /\ p = LargeAddress(block2arena(p))
    /\ lv[p] + HeaderSize <= ar[block2arena(p)].cnt * PageSize

LiveOK(ar, lv) ==
    \A p \in DOMAIN lv :
        block2arena(p) \in Page /\ (HasBlock(ar, lv, p) \/ HasPages(ar, lv, p))

\* A free list has each of its blocks once, and only blocks of its desc.
OnList(ar, d, b) ==
    /\ block2arena(b) \in Page
    /\ IsSmall(ar, block2arena(b))
    /\ ar[block2arena(b)].desc = d
    /\ b \in BlockSet(block2arena(b), d)

FreeOK(fl, ar) ==
    \A d \in desc : IsInjective(fl[d]) /\ \A b \in Range(fl[d]) : OnList(ar, d, b)

\* A block of a cut page is with a caller or on the free list, and the header
\* counts those on the list.
CutPage(fl, ar, lv, n) ==
    /\ \A b \in BlockSet(n, ar[n].desc) :
        b \in DOMAIN lv <=> b \notin Range(fl[ar[n].desc])
    /\ ar[n].cnt = Cardinality(FreeOf(fl, ar, n))

CutOK(fl, ar, lv) == \A n \in Page : IsSmall(ar, n) => CutPage(fl, ar, lv, n)

Heap(fl, ar, lv) ==
    /\ HeapType(fl, ar, lv)
    /\ LargeOK(ar, lv)
    /\ LiveOK(ar, lv)
    /\ FreeOK(fl, ar)
    /\ CutOK(fl, ar, lv)

\* Some block of a cut page is with a caller.
InUse(ar, n) == IsSmall(ar, n) => ar[n].cnt < memory_blocks_sum(ar[n].desc)

HeapInv ==
    /\ Heap(free_list, arena, live)
    /\ \A n \in Page : InUse(arena, n)

-----------------------------------------------------------------------------
\* The first index of a search: a set of naturals has a least element, which
\* is its Min.
LEMMA Least ==
    ASSUME NEW S \in SUBSET Nat, S # {}
    PROVE  Min(S) \in S /\ \A y \in S : Min(S) <= y
<1>1. PICK x \in S : \A y \in S : ~ (<<y, x>> \in OpToRel(<, Nat))
    BY NatLessThanWellFounded, WFMin, Zenon
<1>2. ASSUME NEW y \in S PROVE x <= y
    <2>1. ~ (<<y, x>> \in {ss \in Nat \X Nat : ss[1] < ss[2]})
        BY <1>1, Zenon DEF OpToRel
    <2> QED
        BY <2>1
<1> QED
    BY <1>2, Zenon DEF Min

\* A loop from 0 upwards: what holds at 0 and is passed on holds everywhere.
LEMMA SetInduction ==
    ASSUME NEW S \in SUBSET Nat, 0 \in S, \A n \in S : n + 1 \in S
    PROVE  S = Nat
<1>1. SUFFICES ASSUME Nat \ S # {} PROVE FALSE
    BY Zenon
<1>2. PICK x \in Nat \ S : \A y \in Nat \ S : x <= y
    BY <1>1, Least, Zenon
<1>3. x # 0 /\ x - 1 \in Nat
    BY <1>2
<1>4. x - 1 \in S
    BY <1>2, <1>3
<1> QED
    BY <1>2, <1>3, <1>4

-----------------------------------------------------------------------------
\* Blocks and pages: the arithmetic of arena2block and block2arena.

\* Multiples of a size are that size apart.
LEMMA Multiples ==
    ASSUME NEW s \in Nat, NEW x \in Nat, NEW y \in Nat
    PROVE  /\ x * s \in Nat
           /\ x < y => x * s + s <= y * s
           /\ x <= y => x * s <= y * s
<1>1. ASSUME NEW z \in Nat
      PROVE  z * s \in Nat /\ (x + z) * s = x * s + z * s
    OBVIOUS
<1>2. x * s \in Nat
    OBVIOUS
<1>3. ASSUME x < y PROVE x * s + s <= y * s
    <2>1. PICK z \in Nat : y = x + (1 + z)
        BY <1>3
    <2>2. y * s = x * s + (1 + z) * s /\ (1 + z) * s = s + z * s /\ z * s \in Nat
        BY <2>1
    <2> QED
        BY <1>2, <2>2
<1>4. ASSUME x <= y PROVE x * s <= y * s
    <2>1. PICK z \in Nat : y = x + z
        BY <1>4
    <2> QED
        BY <1>1, <1>2, <2>1
<1> QED
    BY <1>2, <1>3, <1>4, Zenon

\* Powers of two are positive and do not fall.
LEMMA Power ==
    ASSUME NEW d \in Nat
    PROVE  /\ 2 ^ d \in Nat \ {0}
           /\ \A e \in Nat : d <= e => 2 ^ d <= 2 ^ e
<1>1. ASSUME NEW e \in Nat
      PROVE  IsFiniteSet(SUBSET (1..e)) /\ Cardinality(SUBSET (1..e)) = 2 ^ e
    <2>1. IsFiniteSet(1..e) /\ Cardinality(1..e) = e
        BY FS_Interval
    <2> QED
        BY <2>1, FS_SUBSET, Zenon
<1>2. 2 ^ d \in Nat \ {0}
    <2>1. IsFiniteSet(SUBSET (1..d)) /\ SUBSET (1..d) # {}
        BY <1>1, Zenon
    <2>2. Cardinality(SUBSET (1..d)) \in Nat /\ Cardinality(SUBSET (1..d)) # 0
        BY <2>1, FS_CardinalityType, FS_EmptySet, Zenon
    <2> QED
        BY <1>1, <2>2, Zenon
<1>3. ASSUME NEW e \in Nat, d <= e PROVE 2 ^ d <= 2 ^ e
    <2>1. SUBSET (1..d) \in SUBSET (SUBSET (1..e))
        BY <1>3
    <2>2. IsFiniteSet(SUBSET (1..e))
        BY <1>1, Zenon
    <2>3. Cardinality(SUBSET (1..d)) <= Cardinality(SUBSET (1..e))
        BY <2>1, <2>2, FS_Subset, Zenon
    <2> QED
        BY <1>1, <2>3, Zenon
<1> QED
    BY <1>2, <1>3, Zenon

LEMMA Constants ==
    /\ PageSize \in Nat /\ PageSize > 0 /\ HeaderSize \in Nat /\ HeaderSize > 0
    /\ MinBlock \in Nat /\ MinBlock > 0 /\ ArenaSum \in Nat /\ ArenaSum > 0
    /\ Pages \in Nat /\ Pages > 0
    /\ HeaderSize < PageSize
    /\ Largest \in Nat /\ Largest + HeaderSize <= PageSize
<1>1. /\ PageSize \in Nat /\ PageSize > 0 /\ HeaderSize \in Nat /\ HeaderSize > 0
      /\ MinBlock \in Nat /\ MinBlock > 0 /\ ArenaSum \in Nat /\ ArenaSum > 0
      /\ Pages \in Nat /\ Pages > 0
    BY ArenaAssumption
<1>2. 2 ^ (ArenaSum - 1) \in Nat \ {0}
    BY <1>1, Power
<1>3. ASSUME NEW x \in Nat \ {0}
      PROVE  MinBlock * x \in Nat /\ MinBlock * x > 0
    BY <1>1
<1>4. Largest \in Nat /\ Largest > 0
    BY <1>2, <1>3, Zenon DEF Largest, block_size
<1> QED
    BY <1>1, <1>4, ArenaAssumption

\* The blocks of a page are not empty, and fit behind its header.
LEMMA BlockSizes ==
    ASSUME NEW d \in desc
    PROVE  /\ block_size(d) \in Nat /\ block_size(d) > 0
           /\ block_size(d) <= Largest
           /\ memory_blocks_sum(d) \in Nat /\ memory_blocks_sum(d) > 0
           /\ memory_blocks_sum(d) * block_size(d) <= PageSize - HeaderSize
<1>1. d \in Nat /\ ArenaSum - 1 \in Nat /\ d <= ArenaSum - 1
    BY Constants DEF desc
<1>2. 2 ^ d \in Nat \ {0} /\ 2 ^ d <= 2 ^ (ArenaSum - 1) /\ 2 ^ (ArenaSum - 1) \in Nat
    BY <1>1, Power, Zenon
<1>3. ASSUME NEW x \in Nat \ {0}, NEW y \in Nat, x <= y
      PROVE  MinBlock * x \in Nat /\ MinBlock * x > 0 /\ MinBlock * x <= MinBlock * y
    <2>1. x * MinBlock <= y * MinBlock
        BY <1>3, Constants, Multiples, Zenon
    <2>2. x * MinBlock = MinBlock * x /\ y * MinBlock = MinBlock * y
        BY Constants
    <2>3. MinBlock * x \in Nat /\ MinBlock * x > 0
        BY Constants
    <2> QED
        BY <2>1, <2>2, <2>3, Zenon
<1>4. block_size(d) \in Nat /\ block_size(d) > 0 /\ block_size(d) <= Largest
    BY <1>2, <1>3, Zenon DEF block_size, Largest
<1>5. ASSUME NEW s \in Nat, NEW b \in Nat, b > 0, b <= s
      PROVE  s \div b \in Nat /\ s \div b > 0 /\ (s \div b) * b <= s
    <2>1. /\ s \div b \in Int
          /\ s = b * (s \div b) + (s % b) /\ s % b \in 0..(b - 1)
        BY <1>5
    <2>2. ASSUME NEW q \in Int, NEW r \in 0..(b - 1), s = b * q + r
          PROVE  q \in Nat /\ q > 0 /\ q * b <= s
        <3>1. CASE q <= 0
            <4>1. b * q <= 0
                BY <1>5, <3>1
            <4> QED
                BY <1>5, <2>2, <4>1
        <3>2. CASE q > 0
            BY <1>5, <2>2, <3>2
        <3> QED
            BY <3>1, <3>2
    <2> QED
        BY <2>1, <2>2, Zenon
<1>6. PageSize - HeaderSize \in Nat /\ block_size(d) <= PageSize - HeaderSize
    BY <1>4, Constants
<1> QED
    BY <1>4, <1>5, <1>6, Zenon DEF memory_blocks_sum

\* A byte is on the page that block2arena finds.
LEMMA PageOf ==
    ASSUME NEW n \in Nat, NEW x \in Nat,
           n * PageSize <= x, x < n * PageSize + PageSize
    PROVE  x \div PageSize = n /\ x % PageSize = x - n * PageSize
<1>1. PageSize \in Nat /\ PageSize > 0 /\ n * PageSize \in Nat
    BY Constants
<1> QED
    BY <1>1

\* Each block lies within its page, behind the header.
LEMMA BlockPlace ==
    ASSUME NEW n \in Nat, NEW d \in desc, NEW b \in BlockSet(n, d)
    PROVE  /\ b \in Nat
           /\ n * PageSize + HeaderSize <= b
           /\ b + block_size(d) <= n * PageSize + PageSize
           /\ block2arena(b) = n
<1>1. PICK i \in 0..memory_blocks_sum(d) - 1 : b = arena2block(n, d, i)
    BY Zenon DEF BlockSet
<1> DEFINE s == block_size(d)
           m == memory_blocks_sum(d)
<1>2. /\ s \in Nat /\ s > 0 /\ m \in Nat /\ m > 0 /\ m * s <= PageSize - HeaderSize
    BY BlockSizes, Zenon
<1>3. b = n * PageSize + HeaderSize + i * s /\ i \in 0..(m - 1)
    BY <1>1, Zenon DEF arena2block
<1> HIDE DEF s, m
<1>4. n * PageSize \in Nat /\ i * s \in Nat /\ m * s \in Nat
    BY <1>2, Constants
<1>5. i * s + s <= m * s
    <2>1. i \in Nat /\ i < m
        BY <1>2, <1>3
    <2> QED
        BY <1>2, <2>1, Multiples, Zenon
<1>6. /\ b \in Nat /\ n * PageSize + HeaderSize <= b
      /\ b + s <= n * PageSize + PageSize
    BY <1>2, <1>3, <1>4, <1>5, Constants
<1>7. block2arena(b) = n
    BY <1>2, <1>4, <1>6, PageOf, Constants DEF block2arena
<1> QED
    BY <1>6, <1>7, Zenon DEF s

LEMMA LargePlace ==
    ASSUME NEW n \in Nat
    PROVE  LargeAddress(n) \in Nat /\ block2arena(LargeAddress(n)) = n
<1> DEFINE a == LargeAddress(n)
<1>1. n * PageSize \in Nat
    BY Constants
<1>2. a \in Nat /\ n * PageSize <= a /\ a < n * PageSize + PageSize
    BY <1>1, Constants DEF LargeAddress
<1> HIDE DEF a
<1>3. a \div PageSize = n
    BY <1>2, PageOf, Zenon
<1> QED
    BY <1>2, <1>3, Zenon DEF a, block2arena

\* Two blocks of a page do not overlap.
LEMMA BlocksApart ==
    ASSUME NEW n \in Nat, NEW d \in desc,
           NEW b \in BlockSet(n, d), NEW c \in BlockSet(n, d), b # c
    PROVE  b + block_size(d) <= c \/ c + block_size(d) <= b
<1> DEFINE s == block_size(d)
<1>1. PICK i \in 0..memory_blocks_sum(d) - 1 : b = arena2block(n, d, i)
    BY Zenon DEF BlockSet
<1>2. PICK j \in 0..memory_blocks_sum(d) - 1 : c = arena2block(n, d, j)
    BY Zenon DEF BlockSet
<1>3. s \in Nat /\ memory_blocks_sum(d) \in Nat
    BY BlockSizes, Zenon
<1>4. /\ b = n * PageSize + HeaderSize + i * s /\ c = n * PageSize + HeaderSize + j * s
      /\ i \in Nat /\ j \in Nat
    BY <1>1, <1>2, <1>3 DEF arena2block
<1> HIDE DEF s
<1>5. i # j /\ n * PageSize \in Nat /\ i * s \in Nat /\ j * s \in Nat
    BY <1>3, <1>4, Constants
<1>6. i * s + s <= j * s \/ j * s + s <= i * s
    <2>1. i < j \/ j < i
        BY <1>4, <1>5
    <2> QED
        BY <1>3, <1>4, <2>1, Multiples, Zenon
<1>7. b + s <= c \/ c + s <= b
    BY <1>3, <1>4, <1>5, <1>6, Constants
<1> QED
    BY <1>7, Zenon DEF s

\* A new arena: its blocks, in order, without repetition.
LEMMA BlockList ==
    ASSUME NEW n \in Nat, NEW d \in desc
    PROVE  /\ Blocks(n, d) \in Seq(Nat)
           /\ Blocks(n, d) # <<>>
           /\ Len(Blocks(n, d)) = memory_blocks_sum(d)
           /\ IsInjective(Blocks(n, d))
           /\ Range(Blocks(n, d)) = BlockSet(n, d)
<1> DEFINE m == memory_blocks_sum(d)
           s == block_size(d)
           B == Blocks(n, d)
<1>1. /\ m \in Nat /\ m > 0 /\ s \in Nat /\ s > 0 /\ n * PageSize \in Nat
      /\ HeaderSize \in Nat
    BY BlockSizes, Constants
<1>2. DOMAIN B = 1..m
    BY Zenon DEF Blocks
<1>3. ASSUME NEW i \in 1..m
      PROVE  /\ B[i] = arena2block(n, d, i - 1) /\ B[i] \in BlockSet(n, d)
             /\ B[i] = n * PageSize + HeaderSize + (i - 1) * s
             /\ B[i] \in Nat
    <2>1. B[i] = arena2block(n, d, i - 1)
        BY Zenon DEF Blocks
    <2>2. i - 1 \in 0..m - 1
        BY <1>1
    <2>3. B[i] \in BlockSet(n, d)
        BY <2>1, <2>2, Zenon DEF BlockSet
    <2> QED
        BY <2>1, <2>3, BlockPlace, Zenon DEF arena2block
<1>4. B \in [1..m -> Nat]
    <2>1. B = [i \in 1..m |-> B[i]]
        BY Zenon DEF Blocks
    <2> HIDE DEF B, m
    <2> QED
        BY <1>3, <2>1, Zenon
<1>5. B \in Seq(Nat) /\ Len(B) = m /\ B # <<>>
    <2> HIDE DEF B, m
    <2> QED
        BY <1>1, <1>4
<1>6. IsInjective(B)
    <2> HIDE DEF B, m, s
    <2> SUFFICES ASSUME NEW i \in 1..m, NEW j \in 1..m, B[i] = B[j]
                 PROVE  i = j
        BY <1>2, Zenon DEF IsInjective
    <2>1. i - 1 \in Nat /\ j - 1 \in Nat
        BY <1>1
    <2>2. (i - 1) * s \in Nat /\ (j - 1) * s \in Nat
        BY <1>1, <2>1, Multiples, Zenon
    <2>a. \A x, y, z, h \in Nat : z + h + x = z + h + y => x = y
        OBVIOUS
    <2>b. n * PageSize + HeaderSize + (i - 1) * s = n * PageSize + HeaderSize + (j - 1) * s
        BY <1>3, Zenon
    <2>3. (i - 1) * s = (j - 1) * s
        BY <1>1, <2>2, <2>a, <2>b, Zenon
    <2>4. ~ (i - 1 < j - 1) /\ ~ (j - 1 < i - 1)
        BY <1>1, <2>1, <2>2, <2>3, Multiples
    <2> QED
        BY <1>1, <2>1, <2>4
<1>7. Range(B) = BlockSet(n, d)
    <2>1. ASSUME NEW b \in BlockSet(n, d) PROVE b \in Range(B)
        <3>1. PICK i \in 0..m - 1 : b = arena2block(n, d, i)
            BY Zenon DEF BlockSet
        <3>2. i + 1 \in 1..m /\ (i + 1) - 1 = i
            BY <1>1
        <3> HIDE DEF B, m
        <3>3. B[i + 1] = b
            BY <1>3, <3>1, <3>2, Zenon
        <3> QED
            BY <1>2, <3>2, <3>3, Zenon DEF Range
    <2> HIDE DEF B, m
    <2> QED
        BY <1>2, <1>3, <2>1, Zenon DEF Range
<1> QED
    BY <1>5, <1>6, <1>7, Zenon

\* As many as memory_blocks_sum says.
LEMMA BlockCount ==
    ASSUME NEW n \in Nat, NEW d \in desc
    PROVE  /\ IsFiniteSet(BlockSet(n, d))
           /\ Cardinality(BlockSet(n, d)) = memory_blocks_sum(d)
<1> DEFINE m == memory_blocks_sum(d)
           B == Blocks(n, d)
<1>1. m \in Nat /\ B \in [1..m -> BlockSet(n, d)]
    <2>1. B \in Seq(Nat) /\ Len(B) = m /\ Range(B) = BlockSet(n, d) /\ m \in Nat
        BY BlockList, BlockSizes, Zenon
    <2> HIDE DEF B, m
    <2> QED
        BY <2>1 DEF Range
<1>2. B \in Bijection(1..m, BlockSet(n, d))
    <2>1. IsInjective(B) /\ Range(B) = BlockSet(n, d)
        BY BlockList, Zenon
    <2> HIDE DEF B, m
    <2>2. DOMAIN B = 1..m
        BY <1>1, Zenon
    <2> QED
        BY <1>1, <2>1, <2>2, Zenon
        DEF Bijection, Injection, Surjection, IsInjective, Range
<1>3. IsFiniteSet(1..m) /\ Cardinality(1..m) = m
    BY <1>1, FS_Interval
<1>4. ExistsBijection(1..m, BlockSet(n, d))
    BY <1>2, Zenon DEF ExistsBijection
<1> QED
    BY <1>3, <1>4, FS_Bijection, Zenon

\* The same, of a sequence without repetitions.
LEMMA RemoveSet ==
    ASSUME NEW S, NEW s \in Seq(S), NEW k \in 1..Len(s), IsInjective(s)
    PROVE  /\ Removed(s, k) \in Seq(S)
           /\ IsInjective(Removed(s, k))
           /\ Range(Removed(s, k)) = Range(s) \ {s[k]}
BY RemoveFacts, ZenonT(60)

\* list_remove of an element of a free list.
LEMMA ListRemove ==
    ASSUME NEW l \in Seq(Nat), IsInjective(l), NEW b \in Range(l)
    PROVE  /\ list_remove(l, b) \in Seq(Nat)
           /\ IsInjective(list_remove(l, b))
           /\ Range(list_remove(l, b)) = Range(l) \ {b}
<1> DEFINE k == CHOOSE j \in DOMAIN l : l[j] = b
<1>1. k \in 1..Len(l) /\ l[k] = b
    <2>1. \E j \in DOMAIN l : l[j] = b
        BY Zenon DEF Range
    <2>2. k \in DOMAIN l /\ l[k] = b
        BY <2>1, Zenon
    <2> QED
        BY <2>2
<1>2. list_remove(l, b) = Removed(l, k)
    BY Zenon DEF list_remove, Removed
<1> HIDE DEF k
<1> QED
    <2>1. /\ Removed(l, k) \in Seq(Nat)
          /\ IsInjective(Removed(l, k))
          /\ Range(Removed(l, k)) = Range(l) \ {l[k]}
        BY <1>1, RemoveSet, Zenon
    <2> QED
        BY <1>1, <1>2, <2>1, Zenon

\* The loop in sys_free that takes the blocks of a free arena off the list: it
\* takes all of them, and nothing else.
LEMMA ReturnedList ==
    ASSUME NEW n \in Nat, NEW d \in desc, NEW l \in Seq(Nat), IsInjective(l),
           BlockSet(n, d) \subseteq Range(l), ReturnArena(n, d, l)
    PROVE  \E rest \in Seq(Nat) :
            /\ IsInjective(rest)
            /\ Range(rest) = Range(l) \ BlockSet(n, d)
            /\ free_list' = [free_list EXCEPT ![d] = rest]
<1> DEFINE m == memory_blocks_sum(d)
           B == Blocks(n, d)
           Loop(k, f) ==
             f = [i \in 0..k |-> IF i = 0 THEN l ELSE list_remove(f[i - 1], B[i])]
           left == CHOOSE f : Loop(m, f)
<1>1. /\ m \in Nat /\ B \in Seq(Nat) /\ Len(B) = m /\ IsInjective(B)
      /\ Range(B) = BlockSet(n, d)
    BY BlockSizes, BlockList, Zenon
<1>2. free_list' = [free_list EXCEPT ![d] = left[m]]
    BY Zenon DEF ReturnArena
<1>3. ASSUME NEW k \in Nat PROVE \E f : Loop(k, f)
    <2> DEFINE K == {j \in Nat : \E f : Loop(j, f)}
    <2> HIDE DEF B
    <2>1. 0 \in K
        <3>1. Loop(0, [i \in 0..0 |-> l])
            OBVIOUS
        <3> QED
            BY <3>1, Zenon
    <2>2. ASSUME NEW j \in K PROVE j + 1 \in K
        <3>1. PICK f : Loop(j, f)
            BY <2>2, Zenon
        <3> DEFINE g == [i \in 0..(j + 1) |->
                            IF i = j + 1 THEN list_remove(f[j], B[j + 1]) ELSE f[i]]
        <3>2. ASSUME NEW i \in 0..(j + 1)
              PROVE  g[i] = IF i = 0 THEN l ELSE list_remove(g[i - 1], B[i])
            <4>1. j \in Nat
                BY <2>2, Zenon
            <4>2. CASE i = j + 1
                BY <4>1, <4>2
            <4>3. CASE i # j + 1
                <5>1. i \in 0..j /\ g[i] = f[i]
                    BY <4>1, <4>3
                <5>2. i # 0 => i - 1 \in 0..j /\ g[i - 1] = f[i - 1]
                    BY <4>1, <5>1
                <5>3. f[i] = IF i = 0 THEN l ELSE list_remove(f[i - 1], B[i])
                    BY <3>1, <5>1, Zenon
                <5> QED
                    BY <5>1, <5>2, <5>3, Zenon
            <4> QED
                BY <4>2, <4>3, Zenon
        <3>3. g = [i \in 0..(j + 1) |-> g[i]]
            OBVIOUS
        <3> HIDE DEF g
        <3>4. Loop(j + 1, g)
            BY <3>2, <3>3, Zenon
        <3>5. j + 1 \in Nat
            <4>1. j \in Nat
                BY <2>2, Zenon
            <4> QED
                BY <4>1
        <3>6. \E f2 : Loop(j + 1, f2)
            BY <3>4, Zenon
        <3> QED
            BY <3>5, <3>6, Zenon
    <2>3. K = Nat
        <3> HIDE DEF K
        <3>1. K \in SUBSET Nat
            BY Zenon DEF K
        <3> QED
            BY <2>1, <2>2, <3>1, SetInduction, Zenon
    <2> QED
        BY <2>3, Zenon
<1>4. Loop(m, left)
    BY <1>1, <1>3, Zenon
<1> HIDE DEF left, B, m
<1>5. left[0] = l /\ \A i \in 1..m : left[i] = list_remove(left[i - 1], B[i])
    BY <1>1, <1>4
<1> DEFINE Taken(i) == {B[j] : j \in 1..i}
           Done(i) == /\ left[i] \in Seq(Nat)
                      /\ IsInjective(left[i])
                      /\ Range(left[i]) = Range(l) \ Taken(i)
           K == {i \in Nat : i <= m => Done(i)}
<1>6. /\ DOMAIN B = 1..m
      /\ \A i \in 1..m : B[i] \in BlockSet(n, d) /\ B[i] \in Range(l)
      /\ \A i, j \in 1..m : B[i] = B[j] => i = j
      /\ \A b \in BlockSet(n, d) : \E i \in 1..m : b = B[i]
    <2>1. DOMAIN B = 1..m
        BY <1>1
    <2>2. \A i \in 1..m : B[i] \in BlockSet(n, d)
        BY <1>1, <2>1, Zenon DEF Range
    <2>3. \A b \in BlockSet(n, d) : \E i \in 1..m : b = B[i]
        BY <1>1, <2>1, Zenon DEF Range
    <2>4. \A i, j \in 1..m : B[i] = B[j] => i = j
        BY <1>1, <2>1, Zenon DEF IsInjective
    <2> QED
        BY <2>1, <2>2, <2>3, <2>4, Zenon
<1>7. Taken(m) = BlockSet(n, d) /\ Taken(0) = {}
    <2>1. Taken(0) = {}
        OBVIOUS
    <2>2. \A b \in BlockSet(n, d) : b \in Taken(m)
        BY <1>6, Zenon
    <2>3. \A b \in Taken(m) : b \in BlockSet(n, d)
        BY <1>6
    <2> QED
        BY <2>1, <2>2, <2>3, Zenon
<1>8. ASSUME NEW i \in Nat, i + 1 <= m
      PROVE  /\ i + 1 \in 1..m /\ B[i + 1] \notin Taken(i)
             /\ Taken(i + 1) = Taken(i) \cup {B[i + 1]}
    <2>1. i + 1 \in 1..m /\ \A j \in 1..i : j \in 1..m /\ j # i + 1
        BY <1>1, <1>8
    <2>2. B[i + 1] \notin Taken(i)
        BY <1>6, <2>1, Zenon
    <2>3. 1..(i + 1) = 1..i \cup {i + 1}
        OBVIOUS
    <2>4. Taken(i + 1) = Taken(i) \cup {B[i + 1]}
        BY <2>3, Zenon
    <2> QED
        BY <2>1, <2>2, <2>4, Zenon
<1> HIDE DEF Taken
<1>9. 0 \in K
    BY <1>5, <1>7, Zenon
<1>10. ASSUME NEW i \in Nat, i <= m => Done(i), i + 1 <= m PROVE Done(i + 1)
    <2>1. i <= m
        BY <1>1, <1>10
    <2>2. Done(i)
        BY <1>10, <2>1, Zenon
    <2>3. /\ i + 1 \in 1..m /\ B[i + 1] \notin Taken(i)
          /\ Taken(i + 1) = Taken(i) \cup {B[i + 1]}
        BY <1>8, <1>10, Zenon
    <2>4. left[i + 1] = list_remove(left[i], B[i + 1])
        BY <1>5, <2>3
    <2>5. B[i + 1] \in Range(left[i])
        BY <1>6, <2>2, <2>3, Zenon
    <2>6. /\ left[i + 1] \in Seq(Nat) /\ IsInjective(left[i + 1])
          /\ Range(left[i + 1]) = Range(left[i]) \ {B[i + 1]}
        BY <2>2, <2>4, <2>5, ListRemove
    <2> QED
        BY <2>2, <2>3, <2>6, Zenon
<1> HIDE DEF Done
<1>11. \A i \in K : i + 1 \in K
    BY <1>10
<1>12. Done(m)
    <2>1. K = Nat
        <3>1. K \in SUBSET Nat
            OBVIOUS
        <3> HIDE DEF K
        <3> QED
            BY <1>9, <1>11, <3>1, SetInduction, Zenon
    <2> QED
        BY <1>1, <2>1
<1> QED
    BY <1>2, <1>7, <1>12, Zenon DEF Done

-----------------------------------------------------------------------------
\* The steps of sys_malloc and sys_free keep the heap in order.

\* What the parts of sys_malloc and sys_free make of the free lists, of the
\* headers and of what callers have.
With(lv, p, size) == [q \in DOMAIN lv \cup {p} |-> IF q = p THEN size ELSE lv[q]]
Without(lv, p) == [q \in DOMAIN lv \ {p} |-> lv[q]]
LargeArenas(ar, av, cnt) ==
    [n \in Page |->
        IF n = av THEN [large_request |-> 1, desc |-> -1, cnt |-> cnt]
        ELSE IF n \in av..(av + cnt - 1) THEN Inner ELSE ar[n]]
CutLists(fl, av, d) == [fl EXCEPT ![d] = Blocks(av, d)]
CutArenas(ar, av, d) ==
    [ar EXCEPT ![av] = [large_request |-> 0, desc |-> d, cnt |-> memory_blocks_sum(d)]]
TakeLists(fl, d) == [fl EXCEPT ![d] = Tail(fl[d])]
GiveLists(fl, d, p) == [fl EXCEPT ![d] = Append(fl[d], p)]
GiveArenas(ar, av) == [ar EXCEPT ![av].cnt = @ + 1]
SetList(fl, d, rest) == [fl EXCEPT ![d] = rest]
ReturnArenas(ar, av) == [ar EXCEPT ![av] = NoArena]
LargeFreeArenas(ar, av) ==
    [n \in Page |-> IF n \in av..(av + ar[av].cnt - 1) THEN NoArena ELSE ar[n]]

LEMMA HeaderKinds ==
    ASSUME NEW fl, NEW ar, NEW lv, HeapType(fl, ar, lv), NEW n \in Page
    PROVE  /\ n \in Nat /\ n < Pages
           /\ ar[n] = NoArena \/ ar[n] = Inner \/ IsSmall(ar, n) \/ IsLarge(ar, n)
           /\ IsSmall(ar, n) => /\ ar[n].desc \in desc /\ ar[n].cnt \in Nat
                                /\ ar[n] = [large_request |-> 0, desc |-> ar[n].desc,
                                            cnt |-> ar[n].cnt]
           /\ IsLarge(ar, n) => /\ ar[n].cnt \in Nat /\ ar[n].cnt > 0
                                /\ ~ IsSmall(ar, n)
           /\ ar[n] = NoArena \/ ar[n] = Inner => ~ IsSmall(ar, n) /\ ~ IsLarge(ar, n)
           /\ NoArena # Inner
<1>1. n \in Nat /\ n < Pages
    BY Constants DEF Page
<1>2. ar[n] \in Headers
    BY Zenon DEF HeapType
<1>3. /\ NoArena.large_request = -1 /\ Inner.large_request = -2
    BY Zenon DEF NoArena, Inner
<1>4. NoArena # Inner
    BY <1>3
<1>5. ASSUME ar[n] \in SmallHeader
      PROVE  /\ IsSmall(ar, n) /\ ~ IsLarge(ar, n)
             /\ ar[n].desc \in desc /\ ar[n].cnt \in Nat
             /\ ar[n] = [large_request |-> 0, desc |-> ar[n].desc, cnt |-> ar[n].cnt]
             /\ ar[n] # NoArena /\ ar[n] # Inner
    BY <1>3, <1>5 DEF SmallHeader, IsSmall, IsLarge
<1>6. ASSUME ar[n] \in LargeHeader
      PROVE  /\ IsLarge(ar, n) /\ ~ IsSmall(ar, n)
             /\ ar[n].cnt \in Nat /\ ar[n].cnt > 0
             /\ ar[n] # NoArena /\ ar[n] # Inner
    BY <1>3, <1>6 DEF LargeHeader, IsSmall, IsLarge
<1>7. ASSUME ar[n] = NoArena \/ ar[n] = Inner
      PROVE  ~ IsSmall(ar, n) /\ ~ IsLarge(ar, n)
    BY <1>3, <1>7 DEF IsSmall, IsLarge
<1> QED
    BY <1>1, <1>2, <1>4, <1>5, <1>6, <1>7, Zenon DEF Headers

\* The blocks of a page on a free list are among the blocks of the page.
LEMMA FreeBlocks ==
    ASSUME NEW fl, NEW ar, NEW lv, HeapType(fl, ar, lv), FreeOK(fl, ar),
           NEW n \in Page, IsSmall(ar, n)
    PROVE  /\ FreeOf(fl, ar, n) \subseteq BlockSet(n, ar[n].desc)
           /\ IsFiniteSet(FreeOf(fl, ar, n))
           /\ Cardinality(FreeOf(fl, ar, n)) \in Nat
           /\ Cardinality(FreeOf(fl, ar, n)) <= memory_blocks_sum(ar[n].desc)
           /\ Cardinality(FreeOf(fl, ar, n)) = memory_blocks_sum(ar[n].desc)
                => FreeOf(fl, ar, n) = BlockSet(n, ar[n].desc)
<1>1. n \in Nat /\ ar[n].desc \in desc
    BY HeaderKinds, Zenon
<1>2. FreeOf(fl, ar, n) \subseteq BlockSet(n, ar[n].desc)
    BY <1>1, Zenon DEF FreeOK, OnList, FreeOf
<1>3. /\ IsFiniteSet(BlockSet(n, ar[n].desc))
      /\ Cardinality(BlockSet(n, ar[n].desc)) = memory_blocks_sum(ar[n].desc)
    BY <1>1, BlockCount, Zenon
<1>4. /\ IsFiniteSet(FreeOf(fl, ar, n))
      /\ Cardinality(FreeOf(fl, ar, n)) <= memory_blocks_sum(ar[n].desc)
      /\ Cardinality(FreeOf(fl, ar, n)) = memory_blocks_sum(ar[n].desc)
            => FreeOf(fl, ar, n) = BlockSet(n, ar[n].desc)
    BY <1>2, <1>3, FS_Subset, Zenon
<1>5. Cardinality(FreeOf(fl, ar, n)) \in Nat
    BY <1>4, FS_CardinalityType, Zenon
<1> QED
    BY <1>2, <1>4, <1>5, Zenon

LEMMA LaterPages ==
    ASSUME NEW fl, NEW ar, NEW lv, HeapType(fl, ar, lv), LargeOK(ar, lv),
           NEW n \in Page, IsLarge(ar, n), NEW i \in (n + 1)..(n + ar[n].cnt - 1)
    PROVE  i \in Page /\ ar[i] = Inner
<1>1. ar[n].cnt \in Nat /\ n \in Nat
    BY HeaderKinds, Zenon
<1>2. n + ar[n].cnt <= Pages /\ ar[i] = Inner
    BY Zenon DEF LargeOK
<1>3. ASSUME NEW c \in Nat, n + c <= Pages, NEW j \in (n + 1)..(n + c - 1)
      PROVE  j \in Page
    BY <1>1, <1>3, Constants DEF Page
<1> QED
    BY <1>1, <1>2, <1>3, Zenon

\* A step that leaves the headers of the large allocations, their addresses and
\* their later pages alone.
SameLarge(ar, ar2, lv2) ==
    \A n \in Page : /\ IsLarge(ar2, n) <=> IsLarge(ar, n)
                    /\ IsLarge(ar, n) => /\ ar2[n] = ar[n]
                                         /\ LargeAddress(n) \in DOMAIN lv2
                    /\ ar2[n] = Inner <=> ar[n] = Inner

LEMMA LargeKept ==
    ASSUME NEW fl, NEW ar, NEW lv, HeapType(fl, ar, lv), LargeOK(ar, lv),
           NEW ar2, NEW lv2, SameLarge(ar, ar2, lv2)
    PROVE  LargeOK(ar2, lv2)
<1> USE DEF SameLarge
<1>1. ASSUME NEW n \in Page, IsLarge(ar2, n)
      PROVE  /\ n + ar2[n].cnt <= Pages
             /\ \A i \in (n + 1)..(n + ar2[n].cnt - 1) : ar2[i] = Inner
             /\ LargeAddress(n) \in DOMAIN lv2
    <2>1. ar2[n] = ar[n] /\ IsLarge(ar, n) /\ LargeAddress(n) \in DOMAIN lv2
        BY <1>1, Zenon
    <2>2. n + ar[n].cnt <= Pages
        BY <2>1, Zenon DEF LargeOK
    <2>3. ASSUME NEW i \in (n + 1)..(n + ar[n].cnt - 1) PROVE ar2[i] = Inner
        BY <2>1, LaterPages, Zenon
    <2> QED
        BY <2>1, <2>2, <2>3, Zenon
<1>2. ASSUME NEW i \in Page, ar2[i] = Inner
      PROVE  \E n \in Page : IsLarge(ar2, n) /\ i \in (n + 1)..(n + ar2[n].cnt - 1)
    <2>1. PICK n \in Page : IsLarge(ar, n) /\ i \in (n + 1)..(n + ar[n].cnt - 1)
        BY <1>2, Zenon DEF LargeOK
    <2> QED
        BY <2>1, Zenon
<1> QED
    BY <1>1, <1>2, Zenon DEF LargeOK

\* A step that leaves a cut page and what lies on it alone.
LEMMA CutKept ==
    ASSUME NEW fl, NEW ar, NEW lv, HeapType(fl, ar, lv), CutOK(fl, ar, lv),
           NEW n \in Page, IsSmall(ar, n),
           NEW fl2, NEW ar2, NEW lv2, ar2[n] = ar[n],
           \A b : block2arena(b) = n =>
                /\ \A d \in desc : b \in Range(fl2[d]) <=> b \in Range(fl[d])
                /\ b \in DOMAIN lv2 <=> b \in DOMAIN lv
    PROVE  CutPage(fl2, ar2, lv2, n)
<1>1. n \in Nat /\ ar[n].desc \in desc /\ CutPage(fl, ar, lv, n)
    BY HeaderKinds, Zenon DEF CutOK
<1>2. \A b \in BlockSet(n, ar[n].desc) : block2arena(b) = n
    BY <1>1, BlockPlace, Zenon
<1>3. FreeOf(fl2, ar2, n) = FreeOf(fl, ar, n)
    BY <1>1, Zenon DEF FreeOf
<1> QED
    BY <1>1, <1>2, <1>3, Zenon DEF CutPage

\* A large allocation on pages that were unmapped (MallocLarge).
LEMMA LargeStep ==
    ASSUME NEW fl, NEW ar, NEW lv, Heap(fl, ar, lv),
           NEW av \in Nat, NEW cnt \in Nat, cnt > 0, av + cnt <= Pages,
           \A i \in av..(av + cnt - 1) : ar[i] = NoArena,
           NEW size \in Nat, size > 0, size + HeaderSize <= cnt * PageSize
    PROVE  Heap(fl, LargeArenas(ar, av, cnt), With(lv, LargeAddress(av), size))
<1> DEFINE ar2 == LargeArenas(ar, av, cnt)
           lv2 == With(lv, LargeAddress(av), size)
<1>a. /\ ar2 = [n \in Page |->
                IF n = av THEN [large_request |-> 1, desc |-> -1, cnt |-> cnt]
                ELSE IF n \in av..(av + cnt - 1) THEN Inner ELSE ar[n]]
      /\ lv2 = [q \in DOMAIN lv \cup {LargeAddress(av)} |->
                IF q = LargeAddress(av) THEN size ELSE lv[q]]
    BY Zenon DEF LargeArenas, With
<1> HIDE DEF ar2, lv2
<1> USE <1>a
<1> DEFINE a == LargeAddress(av)
           new == [large_request |-> 1, desc |-> -1, cnt |-> cnt]
<1>1. /\ HeapType(fl, ar, lv) /\ LargeOK(ar, lv) /\ LiveOK(ar, lv)
      /\ FreeOK(fl, ar) /\ CutOK(fl, ar, lv)
    BY Zenon DEF Heap
<1>2. av \in Page /\ \A i \in av..(av + cnt - 1) : i \in Page /\ i \in Nat
    BY Constants DEF Page
<1>3. /\ ar2[av] = new /\ IsLarge(ar2, av) /\ ar2[av].cnt = cnt
      /\ \A i \in (av + 1)..(av + cnt - 1) : ar2[i] = Inner
      /\ \A n \in Page : n \notin av..(av + cnt - 1) => ar2[n] = ar[n]
    <2>1. ar2[av] = new /\ new.large_request = 1 /\ new.cnt = cnt
        BY <1>2, Zenon
    <2>2. ASSUME NEW i \in (av + 1)..(av + cnt - 1) PROVE ar2[i] = Inner
        BY <1>2
    <2>3. \A n \in Page : n \notin av..(av + cnt - 1) => ar2[n] = ar[n]
        BY <1>2
    <2> QED
        BY <2>1, <2>2, <2>3, Zenon DEF IsLarge
<1>4. \A n \in Page : ar[n] # NoArena => ar2[n] = ar[n]
    BY <1>3, Zenon
<1>5. \A n \in Page : IsSmall(ar, n) \/ IsLarge(ar, n) => ar2[n] = ar[n]
    BY <1>1, <1>4, HeaderKinds, Zenon
<1>6. ASSUME NEW n \in Page
      PROVE  /\ IsSmall(ar2, n) => IsSmall(ar, n) /\ ar2[n] = ar[n]
             /\ IsLarge(ar2, n) => n = av \/ (IsLarge(ar, n) /\ ar2[n] = ar[n])
    <2>1. Inner.large_request = -2 /\ new.large_request = 1
        BY Zenon DEF Inner
    <2>2. CASE n = av
        BY <1>3, <2>1, <2>2 DEF IsSmall
    <2>3. CASE n \in (av + 1)..(av + cnt - 1)
        BY <1>3, <2>1, <2>3 DEF IsSmall, IsLarge
    <2>4. CASE n \notin av..(av + cnt - 1)
        BY <1>3, <2>4, Zenon DEF IsSmall, IsLarge
    <2> QED
        BY <1>2, <2>2, <2>3, <2>4, Constants DEF Page
<1>7. a \in Nat /\ block2arena(a) = av
    BY LargePlace, Zenon
<1>8. /\ DOMAIN lv2 = DOMAIN lv \cup {a}
      /\ lv2[a] = size
      /\ \A q \in DOMAIN lv \ {a} : lv2[q] = lv[q]
    OBVIOUS
<1>9. a \notin DOMAIN lv
    <2>1. ar[av] = NoArena
        OBVIOUS
    <2> QED
        BY <1>1, <1>2, <1>7, <2>1, HeaderKinds, Zenon DEF LiveOK, HasBlock, HasPages
<1>10. HeapType(fl, ar2, lv2)
    <2>1. new \in LargeHeader
        BY DEF LargeHeader
    <2>2. \A n \in Page : ar2[n] \in Headers
        BY <1>1, <2>1, Zenon DEF HeapType, Headers
    <2>3. ar2 \in [Page -> Headers]
        BY <2>2, Zenon
    <2> HIDE DEF a, new
    <2>4. lv2 \in [DOMAIN lv2 -> Nat \ {0}] /\ DOMAIN lv2 \subseteq Nat
        <3>1. \A q \in DOMAIN lv : q \in Nat /\ lv[q] \in Nat \ {0}
            BY <1>1, Zenon DEF HeapType
        <3>2. \A q \in DOMAIN lv2 : q \in Nat /\ lv2[q] \in Nat \ {0}
            BY <1>7, <1>8, <3>1
        <3>3. lv2 = [q \in DOMAIN lv2 |-> lv2[q]]
            OBVIOUS
        <3> QED
            BY <3>2, <3>3, Zenon
    <2> QED
        BY <1>1, <2>3, <2>4, Zenon DEF HeapType
<1> HIDE DEF a, new
<1>11. LargeOK(ar2, lv2)
    <2>1. ASSUME NEW n \in Page, IsLarge(ar2, n)
          PROVE  /\ n + ar2[n].cnt <= Pages
                 /\ \A i \in (n + 1)..(n + ar2[n].cnt - 1) : ar2[i] = Inner
                 /\ LargeAddress(n) \in DOMAIN lv2
        <3>1. CASE n = av
            BY <1>3, <1>8, <3>1, Zenon DEF a
        <3>2. CASE IsLarge(ar, n) /\ ar2[n] = ar[n]
            <4>1. /\ n + ar[n].cnt <= Pages
                  /\ \A i \in (n + 1)..(n + ar[n].cnt - 1) : ar[i] = Inner
                  /\ LargeAddress(n) \in DOMAIN lv
                BY <1>1, <3>2, Zenon DEF LargeOK
            <4>2. NoArena # Inner
                BY <1>1, HeaderKinds, Zenon
            <4>3. ASSUME NEW i \in (n + 1)..(n + ar[n].cnt - 1)
                  PROVE  ar2[i] = Inner
                <5>1. i \in Page /\ ar[i] = Inner
                    BY <1>1, <3>2, LaterPages, Zenon
                <5> QED
                    BY <1>4, <4>2, <5>1, Zenon
            <4> QED
                BY <1>8, <3>2, <4>1, <4>3, Zenon
        <3> QED
            BY <1>6, <2>1, <3>1, <3>2, Zenon
    <2>2. ASSUME NEW i \in Page, ar2[i] = Inner
          PROVE  \E n \in Page : IsLarge(ar2, n) /\ i \in (n + 1)..(n + ar2[n].cnt - 1)
        <3>1. CASE i \in av..(av + cnt - 1)
            <4>1. i # av
                <5>1. new # Inner
                    BY DEF new, Inner
                <5> QED
                    BY <1>3, <2>2, <5>1, Zenon
            <4>2. i \in (av + 1)..(av + cnt - 1)
                BY <1>2, <3>1, <4>1
            <4> QED
                BY <1>2, <1>3, <4>2, Zenon
        <3>2. CASE i \notin av..(av + cnt - 1)
            <4>1. ar[i] = Inner
                BY <1>3, <2>2, <3>2, Zenon
            <4>2. PICK n \in Page : /\ IsLarge(ar, n)
                                     /\ i \in (n + 1)..(n + ar[n].cnt - 1)
                BY <1>1, <4>1, Zenon DEF LargeOK
            <4>3. ar2[n] = ar[n] /\ IsLarge(ar2, n)
                BY <1>5, <4>2, Zenon DEF IsLarge
            <4> QED
                BY <4>2, <4>3, Zenon
        <3> QED
            BY <3>1, <3>2, Zenon
    <2> QED
        BY <2>1, <2>2, Zenon DEF LargeOK
<1>12. LiveOK(ar2, lv2)
    <2>1. HasPages(ar2, lv2, a)
        BY <1>3, <1>7, <1>8, Zenon DEF HasPages, a
    <2>2. ASSUME NEW p \in DOMAIN lv
          PROVE  /\ block2arena(p) \in Page
                 /\ (HasBlock(ar2, lv2, p) \/ HasPages(ar2, lv2, p))
        <3>1. block2arena(p) \in Page /\ (HasBlock(ar, lv, p) \/ HasPages(ar, lv, p))
            BY <1>1, Zenon DEF LiveOK
        <3>2. lv2[p] = lv[p]
            BY <1>8, <1>9, Zenon
        <3>3. ar2[block2arena(p)] = ar[block2arena(p)]
            BY <1>5, <3>1, Zenon DEF HasBlock, HasPages
        <3> QED
            BY <3>1, <3>2, <3>3, Zenon DEF HasBlock, HasPages, IsSmall, IsLarge
    <2> QED
        BY <1>2, <1>7, <1>8, <2>1, <2>2, Zenon DEF LiveOK
<1>13. FreeOK(fl, ar2)
    <2>1. ASSUME NEW d \in desc, NEW b \in Range(fl[d]) PROVE OnList(ar2, d, b)
        <3>1. OnList(ar, d, b)
            BY <1>1, <2>1, Zenon DEF FreeOK
        <3>2. ar2[block2arena(b)] = ar[block2arena(b)]
            BY <1>5, <3>1, Zenon DEF OnList, IsSmall
        <3> QED
            BY <3>1, <3>2, Zenon DEF OnList, IsSmall
    <2> QED
        BY <1>1, <2>1, Zenon DEF FreeOK
<1>14. CutOK(fl, ar2, lv2)
    <2> SUFFICES ASSUME NEW n \in Page, IsSmall(ar2, n)
                 PROVE  CutPage(fl, ar2, lv2, n)
        BY Zenon DEF CutOK
    <2>1. IsSmall(ar, n) /\ ar2[n] = ar[n] /\ n # av
        BY <1>2, <1>3, <1>6, HeaderKinds, <1>10, ZenonT(30)
    <2>2. \A b : block2arena(b) = n => (b \in DOMAIN lv2 <=> b \in DOMAIN lv)
        BY <1>7, <1>8, <2>1, Zenon
    <2> QED
        BY <1>1, <2>1, <2>2, CutKept, Zenon
<1>z. Heap(fl, ar2, lv2)
    BY <1>10, <1>11, <1>12, <1>13, <1>14, Zenon DEF Heap
<1> QED
    BY <1>z, Zenon DEF ar2, lv2

\* An unmapped page has nothing that is live or free.
LEMMA UnmappedPage ==
    ASSUME NEW fl, NEW ar, NEW lv, Heap(fl, ar, lv), NEW av \in Page, ar[av] = NoArena
    PROVE  /\ \A p \in DOMAIN lv : block2arena(p) # av
           /\ \A d \in desc : \A b \in Range(fl[d]) : block2arena(b) # av
<1>1. ~ IsSmall(ar, av) /\ ~ IsLarge(ar, av)
    BY HeaderKinds, Zenon DEF Heap
<1> QED
    BY <1>1, Zenon DEF Heap, LiveOK, HasBlock, HasPages, FreeOK, OnList

\* sys_malloc cuts an unmapped page into blocks for an empty free list.
LEMMA CutStep ==
    ASSUME NEW fl, NEW ar, NEW lv, Heap(fl, ar, lv),
           NEW av \in Page, ar[av] = NoArena, NEW d \in desc, fl[d] = <<>>
    PROVE  /\ Heap(CutLists(fl, av, d), CutArenas(ar, av, d), lv)
           /\ CutLists(fl, av, d)[d] # <<>>
           /\ block2arena(Head(CutLists(fl, av, d)[d])) = av
           /\ \A n \in Page \ {av} : CutArenas(ar, av, d)[n] = ar[n]
<1> DEFINE fl2 == CutLists(fl, av, d)
           ar2 == CutArenas(ar, av, d)
<1>a. /\ fl2 = [fl EXCEPT ![d] = Blocks(av, d)]
      /\ ar2 = [ar EXCEPT ![av] =
                [large_request |-> 0, desc |-> d, cnt |-> memory_blocks_sum(d)]]
    BY Zenon DEF CutArenas, CutLists
<1> HIDE DEF fl2, ar2
<1> USE <1>a
<1> DEFINE new == [large_request |-> 0, desc |-> d, cnt |-> memory_blocks_sum(d)]
<1>1. /\ HeapType(fl, ar, lv) /\ LargeOK(ar, lv) /\ LiveOK(ar, lv)
      /\ FreeOK(fl, ar) /\ CutOK(fl, ar, lv)
    BY Zenon DEF Heap
<1>2. DOMAIN ar = Page /\ DOMAIN fl = desc /\ av \in Nat
    BY <1>1, HeaderKinds, Zenon DEF HeapType
<1>3. ar2[av] = new /\ \A n \in Page \ {av} : ar2[n] = ar[n]
    BY <1>2, Zenon
<1>4. /\ IsSmall(ar2, av) /\ ~ IsLarge(ar2, av) /\ ar2[av].desc = d
      /\ ar2[av].cnt = memory_blocks_sum(d) /\ ar2[av] # Inner
    BY <1>3 DEF IsSmall, IsLarge, Inner
<1>5. ~ IsSmall(ar, av) /\ ~ IsLarge(ar, av) /\ ar[av] # Inner
    BY <1>1, HeaderKinds, Zenon
<1>6. /\ Blocks(av, d) \in Seq(Nat) /\ Blocks(av, d) # <<>>
      /\ IsInjective(Blocks(av, d)) /\ Range(Blocks(av, d)) = BlockSet(av, d)
    BY <1>2, BlockList, Zenon
<1>7. fl2[d] = Blocks(av, d) /\ \A e \in desc \ {d} : fl2[e] = fl[e]
    BY <1>2, Zenon
<1>8. Range(fl[d]) = {}
    BY DEF Range
<1>9. \A b \in BlockSet(av, d) : block2arena(b) = av
    BY <1>2, BlockPlace, Zenon
<1>10. HeapType(fl2, ar2, lv)
    <2>1. new \in Headers
        BY BlockSizes, Zenon DEF Headers, SmallHeader
    <2>2. ar2 \in [Page -> Headers]
        BY <1>1, <2>1, Zenon DEF HeapType
    <2>3. fl2 \in [desc -> Seq(Nat)]
        BY <1>1, <1>6, Zenon DEF HeapType
    <2> QED
        BY <1>1, <2>2, <2>3, Zenon DEF HeapType
<1> HIDE DEF new
<1>11. LargeOK(ar2, lv)
    <2>1. \A n \in Page : IsLarge(ar, n) => LargeAddress(n) \in DOMAIN lv
        BY <1>1, Zenon DEF LargeOK
    <2>2. \A n \in Page : /\ IsLarge(ar2, n) <=> IsLarge(ar, n)
                          /\ IsLarge(ar, n) => ar2[n] = ar[n]
                          /\ ar2[n] = Inner <=> ar[n] = Inner
        BY <1>3, <1>4, <1>5, Zenon DEF IsLarge
    <2>3. SameLarge(ar, ar2, lv)
        BY <2>1, <2>2, Zenon DEF SameLarge
    <2> QED
        BY <1>1, <2>3, LargeKept, Zenon
<1>12. LiveOK(ar2, lv)
    BY <1>1, <1>3, <1>5, Zenon DEF LiveOK, HasBlock, HasPages, IsSmall, IsLarge
<1>13. FreeOK(fl2, ar2)
    <2> SUFFICES ASSUME NEW e \in desc
                 PROVE  /\ IsInjective(fl2[e])
                        /\ \A b \in Range(fl2[e]) : OnList(ar2, e, b)
        BY Zenon DEF FreeOK
    <2>1. CASE e = d
        <3>1. \A b \in BlockSet(av, d) : OnList(ar2, d, b)
            BY <1>4, <1>9, Zenon DEF OnList
        <3> QED
            BY <1>6, <1>7, <2>1, <3>1, Zenon
    <2>2. CASE e # d
        <3>1. IsInjective(fl[e]) /\ \A b \in Range(fl[e]) : OnList(ar, e, b)
            BY <1>1, Zenon DEF FreeOK
        <3>2. \A b \in Range(fl[e]) : OnList(ar2, e, b)
            BY <1>3, <1>5, <3>1, Zenon DEF OnList, IsSmall
        <3> QED
            BY <1>7, <2>2, <3>1, <3>2, Zenon
    <2> QED
        BY <2>1, <2>2, Zenon
<1>14. CutOK(fl2, ar2, lv)
    <2> SUFFICES ASSUME NEW n \in Page, IsSmall(ar2, n)
                 PROVE  CutPage(fl2, ar2, lv, n)
        BY Zenon DEF CutOK
    <2>1. CASE n = av
        <3>1. FreeOf(fl2, ar2, av) = BlockSet(av, d)
            BY <1>4, <1>6, <1>7, <1>9, Zenon DEF FreeOf
        <3>2. Cardinality(BlockSet(av, d)) = memory_blocks_sum(d)
            BY <1>2, BlockCount, Zenon
        <3>3. \A b \in BlockSet(av, d) : b \notin DOMAIN lv
            BY <1>9, UnmappedPage, Zenon
        <3> QED
            BY <1>4, <1>6, <1>7, <2>1, <3>1, <3>2, <3>3, Zenon DEF CutPage
    <2>2. CASE n # av
        <3>1. IsSmall(ar, n) /\ ar2[n] = ar[n]
            BY <1>3, <2>2, Zenon DEF IsSmall
        <3>2. ASSUME NEW b, block2arena(b) = n, NEW e \in desc
              PROVE  b \in Range(fl2[e]) <=> b \in Range(fl[e])
            BY <1>6, <1>7, <1>8, <1>9, <2>2, <3>2, Zenon
        <3> QED
            BY <1>1, <3>1, <3>2, CutKept, Zenon
    <2> QED
        BY <2>1, <2>2, Zenon
<1>15. fl2[d] # <<>> /\ block2arena(Head(fl2[d])) = av
    BY <1>6, <1>7, <1>9, TakenOff
<1>z. /\ Heap(fl2, ar2, lv)
      /\ fl2[d] # <<>> /\ block2arena(Head(fl2[d])) = av
      /\ \A n \in Page \ {av} : ar2[n] = ar[n]
    BY <1>3, <1>10, <1>11, <1>12, <1>13, <1>14, <1>15, Zenon DEF Heap
<1> QED
    BY <1>z, Zenon DEF fl2, ar2

\* sys_malloc takes the first block of a free list, and counts.
LEMMA TakeStep ==
    ASSUME NEW fl, NEW ar, NEW lv, Heap(fl, ar, lv),
           NEW d \in desc, fl[d] # <<>>,
           NEW size \in Nat, size > 0, size <= block_size(d),
           NEW p, p = Head(fl[d]), NEW av, av = block2arena(p)
    PROVE  /\ Heap(TakeLists(fl, d), TakeBlock(av, ar), With(lv, p, size))
           /\ av \in Page /\ InUse(TakeBlock(av, ar), av)
           /\ \A n \in Page \ {av} : TakeBlock(av, ar)[n] = ar[n]
<1> DEFINE fl2 == TakeLists(fl, d)
           ar2 == TakeBlock(av, ar)
           lv2 == With(lv, p, size)
<1>a. /\ fl2 = [fl EXCEPT ![d] = Tail(fl[d])]
      /\ ar2 = [ar EXCEPT ![av].cnt = @ - 1]
      /\ lv2 = [q \in DOMAIN lv \cup {p} |-> IF q = p THEN size ELSE lv[q]]
    BY Zenon DEF TakeBlock, TakeLists, With
<1> HIDE DEF fl2, ar2, lv2
<1> USE <1>a
<1>1. /\ HeapType(fl, ar, lv) /\ LargeOK(ar, lv) /\ LiveOK(ar, lv)
      /\ FreeOK(fl, ar) /\ CutOK(fl, ar, lv)
    BY Zenon DEF Heap
<1>2. DOMAIN ar = Page /\ DOMAIN fl = desc /\ fl[d] \in Seq(Nat) /\ IsInjective(fl[d])
    BY <1>1, Zenon DEF HeapType, FreeOK
<1>3. /\ p \in Nat /\ p \in Range(fl[d])
      /\ Tail(fl[d]) \in Seq(Nat) /\ IsInjective(Tail(fl[d]))
      /\ Range(Tail(fl[d])) = Range(fl[d]) \ {p}
    BY <1>2, TakenOff, Zenon
<1>4. /\ av \in Page /\ IsSmall(ar, av) /\ ar[av].desc = d /\ p \in BlockSet(av, d)
    BY <1>1, <1>3, Zenon DEF FreeOK, OnList
<1>5. /\ av \in Nat /\ ar[av].cnt \in Nat
      /\ ar[av] = [large_request |-> 0, desc |-> d, cnt |-> ar[av].cnt]
    BY <1>1, <1>4, HeaderKinds, Zenon
<1>6. /\ ar[av].cnt = Cardinality(FreeOf(fl, ar, av))
      /\ p \notin DOMAIN lv
    BY <1>1, <1>3, <1>4, Zenon DEF CutOK, CutPage
<1>7. /\ IsFiniteSet(FreeOf(fl, ar, av)) /\ Cardinality(FreeOf(fl, ar, av)) \in Nat
      /\ Cardinality(FreeOf(fl, ar, av)) <= memory_blocks_sum(d)
    BY <1>1, <1>4, FreeBlocks, Zenon
<1>8. p \in FreeOf(fl, ar, av)
    BY <1>3, <1>4, Zenon DEF FreeOf
<1>9. ar[av].cnt > 0
    BY <1>6, <1>7, <1>8, FS_EmptySet
<1>10. /\ ar2[av] = [large_request |-> 0, desc |-> d, cnt |-> ar[av].cnt - 1]
       /\ \A n \in Page \ {av} : ar2[n] = ar[n]
    BY <1>2, <1>4, <1>5, SMTT(30)
<1>11. /\ IsSmall(ar2, av) /\ ~ IsLarge(ar2, av) /\ ar2[av] # Inner
       /\ ar2[av].desc = d /\ ar2[av].cnt = ar[av].cnt - 1
    BY <1>10 DEF IsSmall, IsLarge, Inner
<1>12. ~ IsLarge(ar, av) /\ ar[av] # Inner
    BY <1>5 DEF IsLarge, Inner
<1>13. \A n \in Page : /\ ar2[n].desc = ar[n].desc
                       /\ IsSmall(ar2, n) <=> IsSmall(ar, n)
                       /\ IsLarge(ar2, n) <=> IsLarge(ar, n)
                       /\ IsLarge(ar, n) => ar2[n] = ar[n]
                       /\ ar[n] = Inner <=> ar2[n] = Inner
    <2>1. ar2[av].desc = ar[av].desc /\ IsSmall(ar, av)
        BY <1>5, <1>11 DEF IsSmall
    <2>2. ASSUME NEW n \in Page, n # av PROVE ar2[n] = ar[n]
        BY <1>10, <2>2, Zenon
    <2> QED
        BY <1>11, <1>12, <2>1, <2>2, Zenon DEF IsSmall, IsLarge
<1>14. fl2[d] = Tail(fl[d]) /\ \A e \in desc \ {d} : fl2[e] = fl[e]
    BY <1>2, Zenon
<1>15. /\ DOMAIN lv2 = DOMAIN lv \cup {p}
       /\ lv2[p] = size
       /\ \A q \in DOMAIN lv \ {p} : lv2[q] = lv[q]
    OBVIOUS
<1>16. HeapType(fl2, ar2, lv2)
    <2>1. ar2[av] \in Headers
        BY <1>5, <1>9, <1>10 DEF Headers, SmallHeader
    <2>2. ar2 = [n \in Page |-> ar2[n]]
        BY <1>2, Zenon
    <2>3. \A n \in Page : ar2[n] \in Headers
        BY <1>1, <1>10, <2>1, Zenon DEF HeapType
    <2>4. ar2 \in [Page -> Headers]
        BY <2>2, <2>3, Zenon
    <2>5. fl2 \in [desc -> Seq(Nat)]
        BY <1>1, <1>3, Zenon DEF HeapType
    <2>6. \A q \in DOMAIN lv : q \in Nat /\ lv[q] \in Nat \ {0}
        BY <1>1, Zenon DEF HeapType
    <2>7. \A q \in DOMAIN lv2 : q \in Nat /\ lv2[q] \in Nat \ {0}
        BY <1>3, <1>15, <2>6
    <2>8. lv2 = [q \in DOMAIN lv2 |-> lv2[q]]
        OBVIOUS
    <2> QED
        BY <2>4, <2>5, <2>7, <2>8, Zenon DEF HeapType
<1>17. LargeOK(ar2, lv2)
    <2>1. \A n \in Page : IsLarge(ar, n) => LargeAddress(n) \in DOMAIN lv2
        BY <1>1, <1>15, Zenon DEF LargeOK
    <2>2. SameLarge(ar, ar2, lv2)
        BY <1>13, <2>1, Zenon DEF SameLarge
    <2> QED
        BY <1>1, <2>2, LargeKept, Zenon
<1>18. LiveOK(ar2, lv2)
    <2>1. HasBlock(ar2, lv2, p)
        BY <1>4, <1>11, <1>15, Zenon DEF HasBlock
    <2>2. ASSUME NEW q \in DOMAIN lv
          PROVE  /\ block2arena(q) \in Page
                 /\ (HasBlock(ar2, lv2, q) \/ HasPages(ar2, lv2, q))
        <3>1. block2arena(q) \in Page /\ (HasBlock(ar, lv, q) \/ HasPages(ar, lv, q))
            BY <1>1, Zenon DEF LiveOK
        <3>2. lv2[q] = lv[q]
            BY <1>6, <1>15, Zenon
        <3> QED
            BY <1>13, <3>1, <3>2, Zenon DEF HasBlock, HasPages
    <2> QED
        BY <1>4, <1>15, <2>1, <2>2, Zenon DEF LiveOK
<1>19. FreeOK(fl2, ar2)
    <2> SUFFICES ASSUME NEW e \in desc
                 PROVE  /\ IsInjective(fl2[e])
                        /\ \A b \in Range(fl2[e]) : OnList(ar2, e, b)
        BY Zenon DEF FreeOK
    <2>1. IsInjective(fl[e]) /\ \A b \in Range(fl[e]) : OnList(ar, e, b)
        BY <1>1, Zenon DEF FreeOK
    <2>2. \A b \in Range(fl[e]) : OnList(ar2, e, b)
        BY <1>13, <2>1, Zenon DEF OnList
    <2> QED
        BY <1>3, <1>14, <2>1, <2>2, Zenon
<1>20. CutOK(fl2, ar2, lv2)
    <2> SUFFICES ASSUME NEW n \in Page, IsSmall(ar2, n)
                 PROVE  CutPage(fl2, ar2, lv2, n)
        BY Zenon DEF CutOK
    <2>1. IsSmall(ar, n) /\ ar2[n].desc = ar[n].desc
        BY <1>13, Zenon
    <2>2. CASE n = av
        <3>1. CutPage(fl, ar, lv, av)
            BY <1>1, <1>4, Zenon DEF CutOK
        <3>2. FreeOf(fl2, ar2, av) = FreeOf(fl, ar, av) \ {p}
            BY <1>3, <1>4, <1>11, <1>14, Zenon DEF FreeOf
        <3>3. Cardinality(FreeOf(fl, ar, av) \ {p}) = Cardinality(FreeOf(fl, ar, av)) - 1
            BY <1>7, <1>8, FS_RemoveElement, Zenon
        <3>4. \A b \in BlockSet(av, d) : b \in DOMAIN lv2 <=> b \notin Range(fl2[d])
            BY <1>3, <1>4, <1>14, <1>15, <3>1, Zenon DEF CutPage
        <3> QED
            BY <1>6, <1>11, <2>2, <3>2, <3>3, <3>4, Zenon DEF CutPage
    <2>3. CASE n # av
        <3>1. ar2[n] = ar[n]
            BY <1>10, <2>3, Zenon
        <3>2. ASSUME NEW b, block2arena(b) = n, NEW e \in desc
              PROVE  b \in Range(fl2[e]) <=> b \in Range(fl[e])
            BY <1>3, <1>14, <2>3, <3>2, Zenon
        <3>3. \A b : block2arena(b) = n => (b \in DOMAIN lv2 <=> b \in DOMAIN lv)
            BY <1>15, <2>3, Zenon
        <3> QED
            BY <1>1, <2>1, <3>1, <3>2, <3>3, CutKept, Zenon
    <2> QED
        BY <2>2, <2>3, Zenon
<1>21. InUse(ar2, av)
    <2>1. memory_blocks_sum(d) \in Nat
        BY BlockSizes, Zenon
    <2>2. ar[av].cnt - 1 < memory_blocks_sum(d)
        BY <1>5, <1>6, <1>7, <2>1
    <2> QED
        BY <1>11, <2>2, Zenon DEF InUse
<1>z. /\ Heap(fl2, ar2, lv2)
      /\ av \in Page /\ InUse(ar2, av)
      /\ \A n \in Page \ {av} : ar2[n] = ar[n]
    BY <1>4, <1>10, <1>16, <1>17, <1>18, <1>19, <1>20, <1>21, Zenon DEF Heap
<1> QED
    BY <1>z, Zenon DEF fl2, ar2, lv2

\* sys_free puts a block on the free list of its arena, and counts.
LEMMA GiveStep ==
    ASSUME NEW fl, NEW ar, NEW lv, Heap(fl, ar, lv),
           NEW p \in DOMAIN lv, NEW av, av = block2arena(p), IsSmall(ar, av),
           NEW d, d = ar[av].desc
    PROVE  /\ Heap(GiveLists(fl, d, p), GiveArenas(ar, av), Without(lv, p))
           /\ av \in Page /\ d \in desc /\ IsSmall(GiveArenas(ar, av), av)
           /\ GiveArenas(ar, av)[av].desc = d
           /\ GiveArenas(ar, av)[av].cnt = ar[av].cnt + 1
           /\ \A n \in Page \ {av} : GiveArenas(ar, av)[n] = ar[n]
<1> DEFINE fl2 == GiveLists(fl, d, p)
           ar2 == GiveArenas(ar, av)
           lv2 == Without(lv, p)
<1>a. /\ fl2 = [fl EXCEPT ![d] = Append(fl[d], p)]
      /\ ar2 = [ar EXCEPT ![av].cnt = @ + 1]
      /\ lv2 = [q \in DOMAIN lv \ {p} |-> lv[q]]
    BY Zenon DEF GiveArenas, GiveLists, Without
<1> HIDE DEF fl2, ar2, lv2
<1> USE <1>a
<1>1. /\ HeapType(fl, ar, lv) /\ LargeOK(ar, lv) /\ LiveOK(ar, lv)
      /\ FreeOK(fl, ar) /\ CutOK(fl, ar, lv)
    BY Zenon DEF Heap
<1>2. av \in Page /\ (HasBlock(ar, lv, p) \/ HasPages(ar, lv, p))
    BY <1>1, Zenon DEF LiveOK
<1>3. /\ av \in Nat /\ ar[av].cnt \in Nat /\ d \in desc /\ ~ IsLarge(ar, av)
      /\ ar[av] = [large_request |-> 0, desc |-> d, cnt |-> ar[av].cnt]
    <2>1. /\ av \in Nat /\ ar[av].cnt \in Nat /\ d \in desc
          /\ ar[av] = [large_request |-> 0, desc |-> d, cnt |-> ar[av].cnt]
        BY <1>1, <1>2, HeaderKinds, Zenon
    <2> QED
        BY <2>1 DEF IsLarge
<1>4. p \in BlockSet(av, d)
    BY <1>2, <1>3, Zenon DEF HasBlock, HasPages
<1>5. /\ DOMAIN ar = Page /\ DOMAIN fl = desc /\ fl[d] \in Seq(Nat)
      /\ IsInjective(fl[d]) /\ p \in Nat
    BY <1>1, <1>3, Zenon DEF HeapType, FreeOK
<1>6. /\ ar[av].cnt = Cardinality(FreeOf(fl, ar, av))
      /\ p \notin Range(fl[d])
    BY <1>1, <1>2, <1>4, Zenon DEF CutOK, CutPage
<1>7. /\ Append(fl[d], p) \in Seq(Nat) /\ IsInjective(Append(fl[d], p))
      /\ Range(Append(fl[d], p)) = Range(fl[d]) \cup {p}
    BY <1>5, <1>6, GivenBack
<1>8. IsFiniteSet(FreeOf(fl, ar, av)) /\ p \notin FreeOf(fl, ar, av)
    <2>1. IsFiniteSet(FreeOf(fl, ar, av))
        BY <1>1, <1>2, FreeBlocks, Zenon
    <2> QED
        BY <1>6, <2>1, Zenon DEF FreeOf
<1>9. /\ ar2[av] = [large_request |-> 0, desc |-> d, cnt |-> ar[av].cnt + 1]
      /\ \A n \in Page \ {av} : ar2[n] = ar[n]
    BY <1>2, <1>3, <1>5
<1>10. /\ IsSmall(ar2, av) /\ ~ IsLarge(ar2, av) /\ ar2[av] # Inner
       /\ ar2[av].desc = d /\ ar2[av].cnt = ar[av].cnt + 1
    BY <1>9 DEF IsSmall, IsLarge, Inner
<1>11. ar[av] # Inner
    BY <1>3 DEF Inner
<1>12. \A n \in Page : /\ ar2[n].desc = ar[n].desc
                       /\ IsSmall(ar2, n) <=> IsSmall(ar, n)
                       /\ IsLarge(ar2, n) <=> IsLarge(ar, n)
                       /\ IsLarge(ar, n) => ar2[n] = ar[n] /\ n # av
                       /\ ar[n] = Inner <=> ar2[n] = Inner
    BY <1>3, <1>9, <1>10, <1>11, ZenonT(30) DEF IsSmall, IsLarge
<1>13. fl2[d] = Append(fl[d], p) /\ \A e \in desc \ {d} : fl2[e] = fl[e]
    BY <1>3, <1>5, Zenon
<1>14. DOMAIN lv2 = DOMAIN lv \ {p} /\ \A q \in DOMAIN lv2 : lv2[q] = lv[q]
    OBVIOUS
<1>15. HeapType(fl2, ar2, lv2)
    <2>1. ar2[av] \in Headers
        BY <1>3, <1>9 DEF Headers, SmallHeader
    <2>2. ar2 = [n \in Page |-> ar2[n]]
        BY <1>5, Zenon
    <2>3. \A n \in Page : ar2[n] \in Headers
        BY <1>1, <1>9, <2>1, Zenon DEF HeapType
    <2>4. ar2 \in [Page -> Headers]
        BY <2>2, <2>3, Zenon
    <2>5. fl2 \in [desc -> Seq(Nat)]
        BY <1>1, <1>7, Zenon DEF HeapType
    <2>6. lv2 \in [DOMAIN lv2 -> Nat \ {0}] /\ DOMAIN lv2 \subseteq Nat
        BY <1>1, <1>14, Zenon DEF HeapType
    <2> QED
        BY <2>4, <2>5, <2>6, Zenon DEF HeapType
<1>16. LargeOK(ar2, lv2)
    <2>1. ASSUME NEW n \in Page, IsLarge(ar, n) PROVE LargeAddress(n) \in DOMAIN lv2
        <3>1. n \in Nat /\ n # av /\ LargeAddress(n) \in DOMAIN lv
            BY <1>1, <1>12, <2>1, HeaderKinds, Zenon DEF LargeOK
        <3>2. LargeAddress(n) # p
            BY <3>1, LargePlace, Zenon
        <3> QED
            BY <1>14, <3>1, <3>2, Zenon
    <2>2. SameLarge(ar, ar2, lv2)
        BY <1>12, <2>1, Zenon DEF SameLarge
    <2> QED
        BY <1>1, <2>2, LargeKept, Zenon
<1>17. LiveOK(ar2, lv2)
    <2> SUFFICES ASSUME NEW q \in DOMAIN lv2
                 PROVE  /\ block2arena(q) \in Page
                        /\ (HasBlock(ar2, lv2, q) \/ HasPages(ar2, lv2, q))
        BY Zenon DEF LiveOK
    <2>1. block2arena(q) \in Page /\ (HasBlock(ar, lv, q) \/ HasPages(ar, lv, q))
        BY <1>1, <1>14, Zenon DEF LiveOK
    <2>2. lv2[q] = lv[q]
        BY <1>14, Zenon
    <2> QED
        BY <1>12, <2>1, <2>2, Zenon DEF HasBlock, HasPages
<1>18. FreeOK(fl2, ar2)
    <2> SUFFICES ASSUME NEW e \in desc
                 PROVE  /\ IsInjective(fl2[e])
                        /\ \A b \in Range(fl2[e]) : OnList(ar2, e, b)
        BY Zenon DEF FreeOK
    <2>1. IsInjective(fl[e]) /\ \A b \in Range(fl[e]) : OnList(ar, e, b)
        BY <1>1, Zenon DEF FreeOK
    <2>2. \A b \in Range(fl[e]) : OnList(ar2, e, b)
        BY <1>12, <2>1, Zenon DEF OnList
    <2>3. OnList(ar2, d, p)
        BY <1>2, <1>4, <1>10, Zenon DEF OnList
    <2> QED
        BY <1>7, <1>13, <2>1, <2>2, <2>3, Zenon
<1>19. CutOK(fl2, ar2, lv2)
    <2> SUFFICES ASSUME NEW n \in Page, IsSmall(ar2, n)
                 PROVE  CutPage(fl2, ar2, lv2, n)
        BY Zenon DEF CutOK
    <2>1. IsSmall(ar, n) /\ ar2[n].desc = ar[n].desc
        BY <1>12, Zenon
    <2>2. CASE n = av
        <3>1. CutPage(fl, ar, lv, av)
            BY <1>1, <1>2, Zenon DEF CutOK
        <3>2. FreeOf(fl2, ar2, av) = FreeOf(fl, ar, av) \cup {p}
            BY <1>7, <1>10, <1>13, Zenon DEF FreeOf
        <3>3. Cardinality(FreeOf(fl, ar, av) \cup {p}) = Cardinality(FreeOf(fl, ar, av)) + 1
            BY <1>8, FS_AddElement, Zenon
        <3>4. \A b \in BlockSet(av, d) : b \in DOMAIN lv2 <=> b \notin Range(fl2[d])
            BY <1>7, <1>13, <1>14, <3>1, Zenon DEF CutPage
        <3> QED
            BY <1>6, <1>10, <2>2, <3>2, <3>3, <3>4, Zenon DEF CutPage
    <2>3. CASE n # av
        <3>1. ar2[n] = ar[n]
            BY <1>9, <2>3, Zenon
        <3>2. ASSUME NEW b, block2arena(b) = n, NEW e \in desc
              PROVE  b \in Range(fl2[e]) <=> b \in Range(fl[e])
            <4>1. b # p
                BY <2>3, <3>2, Zenon
            <4>2. CASE e = d
                <5>1. Range(fl2[e]) = Range(fl[e]) \cup {p}
                    BY <1>7, <1>13, <4>2, Zenon
                <5> QED
                    BY <4>1, <5>1, Zenon
            <4>3. CASE e # d
                BY <1>13, <4>3, Zenon
            <4> QED
                BY <4>2, <4>3, Zenon
        <3>3. \A b : block2arena(b) = n => (b \in DOMAIN lv2 <=> b \in DOMAIN lv)
            BY <1>14, <2>3, Zenon
        <3> QED
            BY <1>1, <2>1, <3>1, <3>2, <3>3, CutKept, Zenon
    <2> QED
        BY <2>2, <2>3, Zenon
<1>z. /\ Heap(fl2, ar2, lv2)
      /\ av \in Page /\ d \in desc /\ IsSmall(ar2, av)
      /\ ar2[av].desc = d /\ ar2[av].cnt = ar[av].cnt + 1
      /\ \A n \in Page \ {av} : ar2[n] = ar[n]
    BY <1>2, <1>3, <1>9, <1>10, <1>15, <1>16, <1>17, <1>18, <1>19, Zenon DEF Heap
<1> QED
    BY <1>z, Zenon DEF fl2, ar2, lv2

\* All blocks of an arena are free: sys_free takes them off the list and gives
\* the page back.
LEMMA ReturnStep ==
    ASSUME NEW fl, NEW ar, NEW lv, Heap(fl, ar, lv),
           NEW av \in Page, IsSmall(ar, av), NEW d, d = ar[av].desc,
           ar[av].cnt = memory_blocks_sum(d),
           NEW rest \in Seq(Nat), IsInjective(rest),
           Range(rest) = Range(fl[d]) \ BlockSet(av, d)
    PROVE  /\ Heap(SetList(fl, d, rest), ReturnArenas(ar, av), lv)
           /\ \A n \in Page \ {av} : ReturnArenas(ar, av)[n] = ar[n]
<1> DEFINE fl2 == SetList(fl, d, rest)
           ar2 == ReturnArenas(ar, av)
<1>a. /\ fl2 = [fl EXCEPT ![d] = rest]
      /\ ar2 = [ar EXCEPT ![av] = NoArena]
    BY Zenon DEF ReturnArenas, SetList
<1> HIDE DEF fl2, ar2
<1> USE <1>a
<1>1. /\ HeapType(fl, ar, lv) /\ LargeOK(ar, lv) /\ LiveOK(ar, lv)
      /\ FreeOK(fl, ar) /\ CutOK(fl, ar, lv)
    BY Zenon DEF Heap
<1>2. av \in Nat /\ d \in desc /\ DOMAIN ar = Page /\ DOMAIN fl = desc
    BY <1>1, HeaderKinds, Zenon DEF HeapType
<1>3. ~ IsLarge(ar, av) /\ ar[av] # Inner
    BY <1>1, HeaderKinds, Zenon
<1>4. ar2[av] = NoArena /\ \A n \in Page \ {av} : ar2[n] = ar[n]
    BY <1>2, Zenon
<1>5. ~ IsSmall(ar2, av) /\ ~ IsLarge(ar2, av) /\ ar2[av] # Inner
    BY <1>4 DEF NoArena, Inner, IsSmall, IsLarge
<1>6. fl2[d] = rest /\ \A e \in desc \ {d} : fl2[e] = fl[e]
    BY <1>2, Zenon
<1>7. \A p \in DOMAIN lv : block2arena(p) # av
    <2>1. FreeOf(fl, ar, av) = BlockSet(av, d)
        BY <1>1, FreeBlocks, Zenon DEF CutOK, CutPage
    <2>2. \A b \in BlockSet(av, d) : b \in Range(fl[d])
        BY <2>1, Zenon DEF FreeOf
    <2>3. \A b \in BlockSet(av, d) : b \notin DOMAIN lv
        BY <1>1, <2>2, Zenon DEF CutOK, CutPage
    <2> QED
        BY <1>1, <1>3, <2>3, Zenon DEF LiveOK, HasBlock, HasPages
<1>8. HeapType(fl2, ar2, lv)
    <2>1. ar2 \in [Page -> Headers]
        BY <1>1, Zenon DEF HeapType, Headers
    <2>2. fl2 \in [desc -> Seq(Nat)]
        BY <1>1, Zenon DEF HeapType
    <2> QED
        BY <1>1, <2>1, <2>2, Zenon DEF HeapType
<1>9. LargeOK(ar2, lv)
    <2>1. \A n \in Page : IsLarge(ar, n) => LargeAddress(n) \in DOMAIN lv
        BY <1>1, Zenon DEF LargeOK
    <2>2. \A n \in Page : /\ IsLarge(ar2, n) <=> IsLarge(ar, n)
                          /\ IsLarge(ar, n) => ar2[n] = ar[n]
                          /\ ar2[n] = Inner <=> ar[n] = Inner
        BY <1>3, <1>4, <1>5, Zenon DEF IsLarge
    <2>3. SameLarge(ar, ar2, lv)
        BY <2>1, <2>2, Zenon DEF SameLarge
    <2> QED
        BY <1>1, <2>3, LargeKept, Zenon
<1>10. LiveOK(ar2, lv)
    BY <1>1, <1>4, <1>7, Zenon DEF LiveOK, HasBlock, HasPages, IsSmall, IsLarge
<1>11. ASSUME NEW e \in desc
       PROVE  /\ IsInjective(fl2[e])
              /\ \A b \in Range(fl2[e]) :
                    b \in Range(fl[e]) /\ block2arena(b) # av /\ OnList(ar, e, b)
              /\ \A b \in Range(fl[e]) : block2arena(b) # av => b \in Range(fl2[e])
    <2>1. IsInjective(fl[e]) /\ \A b \in Range(fl[e]) : OnList(ar, e, b)
        BY <1>1, Zenon DEF FreeOK
    <2>2. \A b \in BlockSet(av, d) : block2arena(b) = av
        BY <1>2, BlockPlace, Zenon
    <2>3. CASE e = d
        BY <1>6, <2>1, <2>2, <2>3, Zenon DEF OnList
    <2>4. CASE e # d
        BY <1>6, <2>1, <2>4, Zenon DEF OnList
    <2> QED
        BY <2>3, <2>4, Zenon
<1>12. FreeOK(fl2, ar2)
    <2>1. ASSUME NEW e \in desc, NEW b \in Range(fl2[e]) PROVE OnList(ar2, e, b)
        <3>1. block2arena(b) # av /\ OnList(ar, e, b)
            BY <1>11, Zenon
        <3> QED
            BY <1>4, <3>1, Zenon DEF OnList, IsSmall
    <2> QED
        BY <1>11, <2>1, Zenon DEF FreeOK
<1>13. CutOK(fl2, ar2, lv)
    <2> SUFFICES ASSUME NEW n \in Page, IsSmall(ar2, n)
                 PROVE  CutPage(fl2, ar2, lv, n)
        BY Zenon DEF CutOK
    <2>1. n # av /\ IsSmall(ar, n) /\ ar2[n] = ar[n]
        BY <1>4, <1>5, Zenon DEF IsSmall
    <2>2. \A b : block2arena(b) = n =>
            \A e \in desc : b \in Range(fl2[e]) <=> b \in Range(fl[e])
        BY <1>11, <2>1, Zenon
    <2> QED
        BY <1>1, <2>1, <2>2, CutKept, Zenon
<1>z. Heap(fl2, ar2, lv) /\ \A n \in Page \ {av} : ar2[n] = ar[n]
    BY <1>4, <1>8, <1>9, <1>10, <1>12, <1>13, Zenon DEF Heap
<1> QED
    BY <1>z, Zenon DEF fl2, ar2

\* Two large allocations do not share pages.
LEMMA LargeApart ==
    ASSUME NEW fl, NEW ar, NEW lv, HeapType(fl, ar, lv), LargeOK(ar, lv),
           NEW n \in Page, NEW m \in Page, IsLarge(ar, n), IsLarge(ar, m), n < m
    PROVE  n + ar[n].cnt <= m
<1>1. n \in Nat /\ m \in Nat /\ ar[n].cnt \in Nat /\ ar[m] # Inner
    BY HeaderKinds, Zenon
<1>2. m \notin (n + 1)..(n + ar[n].cnt - 1)
    BY <1>1, LaterPages, Zenon
<1> QED
    BY <1>1, <1>2

\* sys_free of a large allocation: all its pages go.
LEMMA LargeFreeStep ==
    ASSUME NEW fl, NEW ar, NEW lv, Heap(fl, ar, lv),
           NEW p \in DOMAIN lv, NEW av, av = block2arena(p), IsLarge(ar, av)
    PROVE  /\ Heap(fl, LargeFreeArenas(ar, av), Without(lv, p))
           /\ \A n \in Page :
                IsSmall(LargeFreeArenas(ar, av), n) =>
                    LargeFreeArenas(ar, av)[n] = ar[n]
<1> DEFINE ar2 == LargeFreeArenas(ar, av)
           lv2 == Without(lv, p)
<1>a. /\ ar2 = [n \in Page |->
                IF n \in av..(av + ar[av].cnt - 1) THEN NoArena ELSE ar[n]]
      /\ lv2 = [q \in DOMAIN lv \ {p} |-> lv[q]]
    BY Zenon DEF LargeFreeArenas, Without
<1> HIDE DEF ar2, lv2
<1> USE <1>a
<1> DEFINE pages == av..(av + ar[av].cnt - 1)
<1>1. /\ HeapType(fl, ar, lv) /\ LargeOK(ar, lv) /\ LiveOK(ar, lv)
      /\ FreeOK(fl, ar) /\ CutOK(fl, ar, lv)
    BY Zenon DEF Heap
<1>2. av \in Page /\ (HasBlock(ar, lv, p) \/ HasPages(ar, lv, p))
    BY <1>1, Zenon DEF LiveOK
<1>3. /\ av \in Nat /\ ar[av].cnt \in Nat /\ ar[av].cnt > 0 /\ ~ IsSmall(ar, av)
      /\ ar[av] # Inner
    BY <1>1, <1>2, HeaderKinds, Zenon
<1>4. p = LargeAddress(av)
    BY <1>2, <1>3, Zenon DEF HasBlock, HasPages
<1>5. av \in pages /\ \A i \in pages : i \in Page /\ (i = av \/ ar[i] = Inner)
    <2>1. \A i \in pages : i = av \/ i \in (av + 1)..(av + ar[av].cnt - 1)
        BY <1>3
    <2>2. av \in pages
        BY <1>3
    <2> QED
        BY <1>1, <1>2, <2>1, <2>2, LaterPages, Zenon
<1>6. /\ \A n \in Page : n \notin pages => ar2[n] = ar[n]
      /\ \A n \in Page : n \in pages => ar2[n] = NoArena
    OBVIOUS
<1>7. DOMAIN lv2 = DOMAIN lv \ {p} /\ \A q \in DOMAIN lv2 : lv2[q] = lv[q]
    OBVIOUS
<1>8. NoArena # Inner /\ NoArena.large_request = -1
    BY DEF NoArena, Inner
<1>9. HeapType(fl, ar2, lv2)
    <2>1. ar2 \in [Page -> Headers]
        BY <1>1, Zenon DEF HeapType, Headers
    <2>2. lv2 \in [DOMAIN lv2 -> Nat \ {0}] /\ DOMAIN lv2 \subseteq Nat
        BY <1>1, <1>7, Zenon DEF HeapType
    <2> QED
        BY <1>1, <2>1, <2>2, Zenon DEF HeapType
<1>10. ASSUME NEW n \in Page, ~ n \in pages, NEW i \in pages, IsLarge(ar, n)
       PROVE  i \notin (n + 1)..(n + ar[n].cnt - 1)
    <2>1. n \in Nat /\ ar[n].cnt \in Nat /\ n # av
        <3>1. n # av
            BY <1>5, <1>10, Zenon
        <3> QED
            BY <1>1, <1>10, <3>1, HeaderKinds, Zenon
    <2>2. i \in Nat /\ av <= i /\ i <= av + ar[av].cnt - 1
        BY <1>3
    <2>3. CASE n < av
        <3>1. n + ar[n].cnt <= av
            BY <1>1, <1>2, <1>10, <2>3, LargeApart, Zenon
        <3> QED
            BY <1>3, <2>1, <2>2, <3>1
    <2>4. CASE av < n
        <3>1. av + ar[av].cnt <= n
            BY <1>1, <1>2, <1>10, <2>4, LargeApart, Zenon
        <3> QED
            BY <1>3, <2>1, <2>2, <3>1
    <2> QED
        BY <1>3, <2>1, <2>3, <2>4
<1> HIDE DEF pages
<1>11. LargeOK(ar2, lv2)
    <2>1. ASSUME NEW n \in Page, IsLarge(ar2, n)
          PROVE  /\ n + ar2[n].cnt <= Pages
                 /\ \A i \in (n + 1)..(n + ar2[n].cnt - 1) : ar2[i] = Inner
                 /\ LargeAddress(n) \in DOMAIN lv2
        <3>1. n \notin pages /\ ar2[n] = ar[n] /\ IsLarge(ar, n) /\ n # av
            BY <1>5, <1>6, <1>8, <2>1 DEF IsLarge
        <3>2. n + ar[n].cnt <= Pages /\ LargeAddress(n) \in DOMAIN lv
            BY <1>1, <3>1, Zenon DEF LargeOK
        <3>3. LargeAddress(n) # p
            <4>1. n \in Nat
                BY <1>1, HeaderKinds, Zenon
            <4> QED
                BY <3>1, <4>1, LargePlace, Zenon
        <3>4. ASSUME NEW i \in (n + 1)..(n + ar[n].cnt - 1) PROVE ar2[i] = Inner
            <4>1. i \in Page /\ ar[i] = Inner
                BY <1>1, <3>1, LaterPages, Zenon
            <4>2. i \notin pages
                BY <1>10, <3>1, Zenon
            <4> QED
                BY <1>6, <4>1, <4>2, Zenon
        <3> QED
            BY <1>7, <3>1, <3>2, <3>3, <3>4, Zenon
    <2>2. ASSUME NEW i \in Page, ar2[i] = Inner
          PROVE  \E n \in Page : IsLarge(ar2, n) /\ i \in (n + 1)..(n + ar2[n].cnt - 1)
        <3>1. i \notin pages /\ ar[i] = Inner
            BY <1>6, <1>8, <2>2, Zenon
        <3>2. PICK n \in Page : IsLarge(ar, n) /\ i \in (n + 1)..(n + ar[n].cnt - 1)
            BY <1>1, <3>1, Zenon DEF LargeOK
        <3>3. n # av
            BY <1>3, <3>1, <3>2 DEF pages
        <3>4. n \notin pages
            BY <1>1, <1>5, <3>2, <3>3, HeaderKinds, Zenon
        <3>5. ar2[n] = ar[n] /\ IsLarge(ar2, n)
            BY <1>6, <3>2, <3>4, Zenon DEF IsLarge
        <3> QED
            BY <3>2, <3>5, Zenon
    <2> QED
        BY <2>1, <2>2, Zenon DEF LargeOK
<1>12. \A n \in Page : IsSmall(ar, n) => n \notin pages /\ ar2[n] = ar[n]
    BY <1>1, <1>3, <1>5, <1>6, HeaderKinds, Zenon
<1>13. LiveOK(ar2, lv2)
    <2> SUFFICES ASSUME NEW q \in DOMAIN lv2
                 PROVE  /\ block2arena(q) \in Page
                        /\ (HasBlock(ar2, lv2, q) \/ HasPages(ar2, lv2, q))
        BY Zenon DEF LiveOK
    <2>1. /\ block2arena(q) \in Page /\ (HasBlock(ar, lv, q) \/ HasPages(ar, lv, q))
          /\ q # p
        BY <1>1, <1>7, Zenon DEF LiveOK
    <2>2. lv2[q] = lv[q]
        BY <1>7, Zenon
    <2>3. CASE HasBlock(ar, lv, q)
        BY <1>12, <2>1, <2>2, <2>3, Zenon DEF HasBlock, IsSmall
    <2>4. CASE HasPages(ar, lv, q)
        <3>1. block2arena(q) # av /\ IsLarge(ar, block2arena(q))
            BY <1>4, <2>1, <2>4, Zenon DEF HasPages
        <3>2. block2arena(q) \notin pages
            BY <1>1, <1>5, <2>1, <3>1, HeaderKinds, Zenon
        <3>3. ar2[block2arena(q)] = ar[block2arena(q)]
            BY <1>6, <2>1, <3>2, Zenon
        <3> QED
            BY <2>1, <2>2, <2>4, <3>3, Zenon DEF HasPages, IsLarge
    <2> QED
        BY <2>1, <2>3, <2>4, Zenon
<1>14. FreeOK(fl, ar2)
    BY <1>1, <1>12, Zenon DEF FreeOK, OnList, IsSmall
<1>15. \A n \in Page : IsSmall(ar2, n) => ar2[n] = ar[n] /\ IsSmall(ar, n) /\ n # av
    BY <1>5, <1>6, <1>8 DEF IsSmall
<1>16. CutOK(fl, ar2, lv2)
    <2> SUFFICES ASSUME NEW n \in Page, IsSmall(ar2, n)
                 PROVE  CutPage(fl, ar2, lv2, n)
        BY Zenon DEF CutOK
    <2>1. IsSmall(ar, n) /\ ar2[n] = ar[n] /\ n # av
        BY <1>15, Zenon
    <2>2. \A b : block2arena(b) = n => (b \in DOMAIN lv2 <=> b \in DOMAIN lv)
        BY <1>7, <2>1, Zenon
    <2> QED
        BY <1>1, <2>1, <2>2, CutKept, Zenon
<1>z. Heap(fl, ar2, lv2) /\ \A n \in Page : IsSmall(ar2, n) => ar2[n] = ar[n]
    BY <1>9, <1>11, <1>13, <1>14, <1>15, <1>16, Zenon DEF Heap
<1> QED
    BY <1>z, Zenon DEF ar2, lv2

=============================================================================
