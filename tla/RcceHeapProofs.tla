--------------------------- MODULE RcceHeapProofs ---------------------------
(***************************************************************************)
(* Theorems about the allocator of RcceMalloc, alone and with RcceFlagAlloc*)
(* taking lines from it, about the flags that RcceFlagAlloc keeps in these *)
(* lines, for any amount of memory and any line size, and, at the end, of  *)
(* RcceFlagBits about the writes to flags of one bit.                      *)
(***************************************************************************)
EXTENDS RcceFlagAlloc, RcceFlagBits, SequenceTheorems, FiniteSetTheorems, WellFoundedInduction, TLAPS

Blocks == [space : Nat, free : Nat]

\* The list b covers the memory in order, and free space is never kept apart.
Tiles(b) ==
  /\ b \in Seq(Blocks) /\ Len(b) >= 1 /\ b[1].space = 0
  /\ \A i, j \in 1 .. Len(b) : i < j => b[i].space < b[j].space
  /\ \A i \in 1 .. Len(b) - 1 : b[i].free \in {0, b[i + 1].space - b[i].space}
  /\ b[Len(b)].free = SIZE - b[Len(b)].space
  /\ \A i \in 1 .. Len(b) - 1 : b[i].free > 0 => b[i + 1].free = 0 /\ i + 1 # Len(b)
  /\ \A i \in 1 .. Len(b) : b[i].space % LINE_SIZE = 0

\* The pieces that it has handed out.
Piece(b, i) == [addr |-> b[i].space, size |-> b[i + 1].space - b[i].space]
Used(b)     == {Piece(b, i) : i \in {k \in 1 .. Len(b) - 1 : b[k].free = 0}}

\* What is left of them when the one at ptr is freed.
Without(b, ptr) == {p \in Used(b) : p.addr # ptr}

\* The inductive invariant.
HeapInv == /\ Tiles(blocks) /\ pieces = Used(blocks)
           /\ chunk \in {-1} \cup 0 .. 2 * SIZE

-----------------------------------------------------------------------------
(***************************************************************************)
(* Arithmetic, and sequences.                                              *)
(***************************************************************************)
LEMMA Multiple ==
  ASSUME NEW a \in Nat, NEW n \in Nat, n > 0, a % n = 0
  PROVE  \E q \in Nat : a = n * q
BY SMT

LEMMA SumOfMultiples ==
  ASSUME NEW a \in Nat, NEW b \in Nat, NEW n \in Nat, n > 0, a % n = 0, b % n = 0
  PROVE  (a + b) % n = 0
<1>1. PICK q \in Nat : a = n * q
  BY Multiple
<1>2. PICK r \in Nat : b = n * r
  BY Multiple
<1>3. a + b = n * (q + r)
  BY <1>1, <1>2
<1>4. ASSUME NEW s \in Nat PROVE (n * s) % n = 0
  BY SMT
<1>5. q + r \in Nat
  OBVIOUS
<1>6. QED
  BY <1>3, <1>4, <1>5

\* A set of natural numbers has a least element.
LEMMA Least ==
  ASSUME NEW T, T \subseteq Nat, T # {}
  PROVE  \E x \in T : \A y \in T : x <= y
<1>1. PICK x \in T : \A y \in T : ~(<<y, x>> \in OpToRel(<, Nat))
  BY NatLessThanWellFounded, WFMin
<1>2. \A y \in T : ~(y < x)
  BY <1>1 DEF OpToRel
<1>3. QED
  BY <1>2

LEMMA Apart ==
  ASSUME NEW u \in Nat, NEW v \in Nat, u < v
  PROVE  u # v /\ v # u /\ v - u # 0 /\ v - u > 0
OBVIOUS

LEMMA PaddedIs ==
  ASSUME LINE_SIZE \in Nat, LINE_SIZE > 0, NEW n \in Nat
  PROVE  Padded(n) \in Nat /\ Padded(n) < n + LINE_SIZE
<1>1. n % LINE_SIZE \in 0 .. LINE_SIZE - 1
  BY SMT
<1> DEFINE r == n % LINE_SIZE
<1>2. Padded(n) = IF r = 0 THEN n ELSE (n + LINE_SIZE) - r
  BY DEF Padded
<1>3. r \in Nat /\ r < LINE_SIZE
  BY <1>1
<1> HIDE DEF r
<1>4. QED
  BY <1>2, <1>3

\* s is the sequence b with m in place of what is behind a and before z.
IsSpliced(s, S, b, m, a, z) ==
  /\ s \in Seq(S) /\ Len(s) = a + Len(m) + (Len(b) + 1 - z)
  /\ \A k \in 1 .. a : s[k] = b[k]
  /\ \A k \in 1 .. Len(m) : s[a + k] = m[k]
  /\ \A k \in a + Len(m) + 1 .. Len(s) : s[k] = b[k + (z - 1 - (a + Len(m)))]

LEMMA Spliced ==
  ASSUME NEW S, NEW b \in Seq(S), NEW m \in Seq(S), NEW a \in Nat, NEW z \in Nat,
         a < z, z <= Len(b) + 1
  PROVE  IsSpliced(SubSeq(b, 1, a) \o m \o SubSeq(b, z, Len(b)), S, b, m, a, z)
<1> DEFINE u == SubSeq(b, 1, a)
           v == SubSeq(b, z, Len(b))
           w == u \o m
           c == w \o v
<1>0. Len(b) \in Nat /\ Len(m) \in Nat
  OBVIOUS
<1>1. /\ u \in Seq(S) /\ Len(u) = a /\ \A k \in 1 .. a : u[k] = b[k]
  <2>1. \A k \in 1 .. a : b[k] \in S
    BY <1>0
  <2>2. /\ u \in Seq(S) /\ Len(u) = IF 1 <= a THEN a - 1 + 1 ELSE 0
        /\ \A k \in 1 .. a - 1 + 1 : u[k] = b[1 + k - 1]
    BY <2>1, SubSeqProperties
  <2> HIDE DEF u
  <2> QED BY <2>2
<1>2. /\ v \in Seq(S) /\ Len(v) = Len(b) + 1 - z
      /\ \A k \in 1 .. Len(b) + 1 - z : v[k] = b[z + k - 1]
  <2>1. \A k \in z .. Len(b) : b[k] \in S
    BY <1>0
  <2>2. /\ v \in Seq(S) /\ Len(v) = IF z <= Len(b) THEN Len(b) - z + 1 ELSE 0
        /\ \A k \in 1 .. Len(b) - z + 1 : v[k] = b[z + k - 1]
    BY <1>0, <2>1, SubSeqProperties
  <2> HIDE DEF v
  <2> QED BY <1>0, <2>2
<1> HIDE DEF u, v
<1>3. /\ w \in Seq(S) /\ Len(w) = a + Len(m)
      /\ \A k \in 1 .. a + Len(m) : w[k] = IF k <= a THEN u[k] ELSE m[k - a]
  BY <1>1, ConcatProperties
<1> HIDE DEF w
<1>4. /\ c \in Seq(S) /\ Len(c) = a + Len(m) + (Len(b) + 1 - z)
      /\ \A k \in 1 .. Len(c) : c[k] = IF k <= a + Len(m) THEN w[k] ELSE v[k - (a + Len(m))]
  <2>1. /\ c \in Seq(S) /\ Len(c) = Len(w) + Len(v)
        /\ \A k \in 1 .. Len(w) + Len(v) : c[k] = IF k <= Len(w) THEN w[k] ELSE v[k - Len(w)]
    BY <1>2, <1>3, ConcatProperties
  <2> HIDE DEF c
  <2> QED BY <1>2, <1>3, <2>1
<1> HIDE DEF c
<1>5. \A k \in 1 .. a : c[k] = b[k]
  BY <1>0, <1>1, <1>3, <1>4
<1>6. ASSUME NEW k \in 1 .. Len(m) PROVE c[a + k] = m[k]
  <2>1. a + k \in 1 .. Len(c) /\ a + k <= a + Len(m) /\ ~(a + k <= a) /\ a + k - a = k
    BY <1>0, <1>4
  <2> QED BY <1>0, <1>3, <1>4, <2>1
<1>7. ASSUME NEW k \in a + Len(m) + 1 .. Len(c)
      PROVE  c[k] = b[k + (z - 1 - (a + Len(m)))]
  <2> DEFINE j == k - (a + Len(m))
  <2>1. j \in 1 .. Len(b) + 1 - z /\ k \in 1 .. Len(c) /\ ~(k <= a + Len(m))
        /\ z + j - 1 = k + (z - 1 - (a + Len(m)))
    BY <1>0, <1>4
  <2>2. c[k] = v[j]
    BY <1>4, <2>1
  <2> QED BY <1>2, <2>1, <2>2
<1>8. QED
  BY <1>4, <1>5, <1>6, <1>7 DEF c, w, u, v, IsSpliced

-----------------------------------------------------------------------------
(***************************************************************************)
(* The lists of blocks.                                                    *)
(***************************************************************************)
LEMMA Facts ==
  ASSUME NEW b, Tiles(b)
  PROVE  /\ Len(b) \in Nat /\ Len(b) >= 1
         /\ \A k \in 1 .. Len(b) : /\ b[k] = [space |-> b[k].space, free |-> b[k].free]
                                   /\ b[k].space \in Nat /\ b[k].free \in Nat
<1>1. b \in Seq(Blocks) /\ Len(b) >= 1
  BY DEF Tiles
<1>2. Len(b) \in Nat /\ \A k \in 1 .. Len(b) : b[k] \in Blocks
  BY <1>1
<1>3. QED
  BY <1>1, <1>2 DEF Blocks

\* A piece is taken from the front of block i; the rest is a block of its own.
IsSplit(c, b, i, size) ==
  /\ i \in 1 .. Len(b) /\ size > 0 /\ size % LINE_SIZE = 0
  /\ b[i].free >= size /\ (i = Len(b) \/ b[i].free > size)
  /\ c \in Seq(Blocks) /\ Len(c) = Len(b) + 1
  /\ \A k \in 1 .. i - 1 : c[k] = b[k]
  /\ c[i] = Block(b[i].space, 0)
  /\ c[i + 1] = Block(b[i].space + size, b[i].free - size)
  /\ \A k \in i + 2 .. Len(c) : c[k] = b[k - 1]

LEMMA SplitTiles ==
  ASSUME NEW b, Tiles(b), NEW i, NEW size \in Nat, NEW c, IsSplit(c, b, i, size),
         LINE_SIZE \in Nat, LINE_SIZE > 0, SIZE \in Nat
  PROVE  Tiles(c) /\ Used(c) = Used(b) \cup {[addr |-> b[i].space, size |-> size]}
<1> SUFFICES ASSUME i \in 1 .. Len(b), size > 0, size % LINE_SIZE = 0,
                    b[i].free >= size, i = Len(b) \/ b[i].free > size,
                    c \in Seq(Blocks), Len(c) = Len(b) + 1,
                    \A k \in 1 .. i - 1 : c[k] = b[k],
                    c[i] = Block(b[i].space, 0),
                    c[i + 1] = Block(b[i].space + size, b[i].free - size),
                    \A k \in i + 2 .. Len(c) : c[k] = b[k - 1]
             PROVE  Tiles(c) /\ Used(c) = Used(b) \cup {[addr |-> b[i].space, size |-> size]}
  BY DEF IsSplit
<1> DEFINE n == Len(b)
           x == b[i].space
           f == b[i].free
<1>a. \A k \in 1 .. n : b[k].space \in Nat /\ b[k].free \in Nat
  BY Facts
<1>0. n \in Nat /\ n >= 1 /\ i \in Nat /\ 1 <= i /\ i <= n /\ x \in Nat /\ f \in Nat
  <2>1. n \in Nat /\ n >= 1
    BY Facts
  <2>2. i \in 1 .. n /\ x \in Nat /\ f \in Nat
    BY <1>a
  <2> HIDE DEF n, x, f
  <2> QED BY <2>1, <2>2
<1>1. /\ Len(c) = n + 1 /\ c[i].space = x /\ c[i].free = 0
      /\ c[i + 1].space = x + size /\ c[i + 1].free = f - size
  BY DEF Block
<1>2. /\ f >= size /\ f > 0
      /\ i < n => f = b[i + 1].space - x /\ f > size /\ b[i + 1].free = 0 /\ i + 1 # n
      /\ i = n => f = SIZE - x
  <2>1. f >= size /\ f > 0
    BY <1>0
  <2>2. ASSUME i < n
        PROVE  f = b[i + 1].space - x /\ f > size /\ b[i + 1].free = 0 /\ i + 1 # n
    <3>1. i \in 1 .. n - 1 /\ i # n
      BY <1>0, <2>2
    <3>2. f \in {0, b[i + 1].space - x} /\ (f > 0 => b[i + 1].free = 0 /\ i + 1 # n)
      BY <3>1 DEF Tiles
    <3> QED BY <1>0, <2>1, <3>1, <3>2
  <2>3. i = n => f = SIZE - x
    BY DEF Tiles
  <2> QED BY <2>1, <2>2, <2>3
<1>3. \A k \in 1 .. i : c[k].space = b[k].space
  <2> SUFFICES ASSUME NEW k \in 1 .. i PROVE c[k].space = b[k].space
    OBVIOUS
  <2>1. k \in 1 .. i - 1 \/ k = i
    BY <1>0
  <2> QED BY <1>1, <2>1
<1>4. \A k, l \in 1 .. n : k < l => b[k].space < b[l].space
  BY DEF Tiles
<1> HIDE DEF n, x, f
<1>5. ASSUME NEW k \in 1 .. Len(c), NEW l \in 1 .. Len(c), k < l
      PROVE  c[k].space < c[l].space
  <2>0. k \in Nat /\ l \in Nat /\ 1 <= k /\ l <= n + 1
    BY <1>0, <1>1
  <2>1. CASE l <= i
    <3>1. k \in 1 .. i /\ l \in 1 .. i /\ k \in 1 .. n /\ l \in 1 .. n
      BY <1>0, <1>5, <2>0, <2>1
    <3> QED BY <1>3, <1>4, <1>5, <3>1
  <2>2. CASE l = i + 1
    <3>1. k \in 1 .. i /\ i \in 1 .. n /\ k \in 1 .. n
      BY <1>0, <1>5, <2>0, <2>2
    <3>2. c[k].space = b[k].space /\ b[k].space \in Nat /\ (k < i => b[k].space < x)
      BY <1>a, <1>3, <1>4, <3>1 DEF x
    <3>3. k = i => b[k].space = x
      BY DEF x
    <3>4. b[k].space < x + size
      <4>1. k < i \/ k = i
        BY <3>1, <1>0
      <4> QED BY <1>0, <3>2, <3>3, <4>1
    <3> QED BY <1>1, <2>2, <3>2, <3>4
  <2>3. CASE l >= i + 2
    <3>1. l \in i + 2 .. Len(c) /\ l - 1 \in 1 .. n /\ i < n /\ i + 1 \in 1 .. n
      BY <1>0, <1>1, <2>0, <2>3
    <3>2. c[l].space = b[l - 1].space /\ b[l - 1].space \in Nat /\ b[i + 1].space \in Nat
      BY <1>a, <3>1
    <3>3. CASE k <= i
      <4>1. k \in 1 .. i /\ k \in 1 .. n /\ k < l - 1
        BY <1>0, <2>0, <2>3, <3>3
      <4> QED BY <1>3, <1>4, <3>1, <3>2, <4>1
    <3>4. CASE k = i + 1
      <4>1. x + size < b[i + 1].space
        BY <1>0, <1>2, <3>1, <3>2
      <4>2. i + 1 < l - 1 => b[i + 1].space < b[l - 1].space
        BY <1>4, <3>1
      <4>3. i + 1 < l - 1 \/ i + 1 = l - 1
        BY <1>0, <2>0, <2>3
      <4>4. x + size < b[l - 1].space
        BY <1>0, <3>2, <4>1, <4>2, <4>3
      <4> QED BY <1>1, <3>2, <3>4, <4>4
    <3>5. CASE k >= i + 2
      <4>1. k \in i + 2 .. Len(c) /\ k - 1 \in 1 .. n /\ k - 1 < l - 1
        BY <1>0, <1>1, <1>5, <2>0, <3>5
      <4>2. c[k].space = b[k - 1].space
        BY <4>1
      <4> QED BY <1>4, <3>1, <3>2, <4>1, <4>2
    <3> QED BY <1>0, <2>0, <3>3, <3>4, <3>5
  <2> QED BY <1>0, <2>0, <2>1, <2>2, <2>3
<1>6. \A k \in 1 .. n - 1 : /\ b[k].free \in {0, b[k + 1].space - b[k].space}
                            /\ b[k].free > 0 => b[k + 1].free = 0 /\ k + 1 # n
  BY DEF Tiles, n
\* Where a block of c comes from.
<1>7. ASSUME NEW k \in 1 .. n, k < i
      PROVE  k \in 1 .. n - 1 /\ c[k] = b[k] /\ c[k + 1].space = b[k + 1].space
             /\ (c[k + 1].free = 0 \/ c[k + 1].free = b[k + 1].free) /\ k + 1 # n + 1
  <2>1. k \in 1 .. i - 1 /\ k \in 1 .. n - 1 /\ k + 1 \in 1 .. i
    BY <1>0, <1>7
  <2>2. k + 1 \in 1 .. i - 1 \/ k + 1 = i
    BY <1>0, <2>1
  <2>3. c[k + 1].free = 0 \/ c[k + 1].free = b[k + 1].free
    BY <1>1, <2>2
  <2>4. k + 1 # n + 1
    BY <1>0, <1>7
  <2> QED BY <1>3, <2>1, <2>3, <2>4
<1>8. ASSUME NEW k \in 1 .. n, k >= i + 2
      PROVE  k - 1 \in 1 .. n - 1 /\ c[k] = b[k - 1] /\ c[k + 1] = b[k] /\ k - 1 + 1 = k
  <2>1. k \in i + 2 .. Len(c) /\ k + 1 \in i + 2 .. Len(c) /\ k - 1 \in 1 .. n - 1
        /\ k - 1 + 1 = k /\ k + 1 - 1 = k
    BY <1>0, <1>1, <1>8
  <2> QED BY <2>1
<1>9. i < n => /\ c[i + 2] = b[i + 1] /\ i + 2 # n + 1
               /\ f - size = c[i + 2].space - c[i + 1].space /\ f - size > 0 /\ c[i + 2].free = 0
  <2> SUFFICES ASSUME i < n PROVE /\ c[i + 2] = b[i + 1] /\ i + 2 # n + 1
               /\ f - size = c[i + 2].space - c[i + 1].space /\ f - size > 0 /\ c[i + 2].free = 0
    OBVIOUS
  <2>1. i + 2 \in i + 2 .. Len(c) /\ i + 2 - 1 = i + 1 /\ i + 1 \in 1 .. n
    BY <1>0, <1>1
  <2>2. c[i + 2] = b[i + 1]
    BY <2>1
  <2>3. b[i + 1].space \in Nat
    BY <1>a, <2>1
  <2>4. f - size = b[i + 1].space - (x + size) /\ f - size > 0
    <3>1. PICK y \in Nat : y = b[i + 1].space
      BY <2>3
    <3>2. f = y - x /\ f > size
      BY <1>2, <3>1
    <3>3. f - size = y - (x + size) /\ f - size > 0
      BY <1>0, <3>2
    <3> QED BY <3>1, <3>3
  <2>5. i + 2 # n + 1
    <3>1. i + 1 # n
      BY <1>2
    <3> QED BY <1>0, <3>1
  <2> QED BY <1>1, <1>2, <2>2, <2>4, <2>5
<1>10. ASSUME NEW k \in 1 .. n PROVE k < i \/ k = i \/ (k = i + 1 /\ i < n) \/ k >= i + 2
  BY <1>0
<1>11. ASSUME NEW k \in 1 .. Len(c) - 1
       PROVE  /\ c[k].free \in {0, c[k + 1].space - c[k].space}
              /\ c[k].free > 0 => c[k + 1].free = 0 /\ k + 1 # Len(c)
  <2>0. k \in 1 .. n
    BY <1>0, <1>1
  <2>1. CASE k < i
    BY <1>1, <1>6, <1>7, <2>0, <2>1
  <2>2. CASE k = i
    BY <1>1, <2>2
  <2>3. CASE k = i + 1 /\ i < n
    <3>1. k + 1 = i + 2
      BY <1>0, <2>3
    <3> QED BY <1>1, <1>9, <2>3, <3>1
  <2>4. CASE k >= i + 2
    <3>1. k - 1 \in 1 .. n - 1 /\ c[k] = b[k - 1] /\ c[k + 1] = b[k] /\ k - 1 + 1 = k
      BY <1>8, <2>0, <2>4
    <3>2. k # n => k + 1 # n + 1
      BY <1>0, <2>0
    <3> QED BY <1>1, <1>6, <3>1, <3>2
  <2> QED BY <1>10, <2>0, <2>1, <2>2, <2>3, <2>4
<1>12. c[Len(c)].free = SIZE - c[Len(c)].space
  <2>1. CASE i = n
    <3>1. f - size = SIZE - (x + size)
      BY <1>0, <1>2, <2>1
    <3> QED BY <1>1, <2>1, <3>1
  <2>2. CASE i < n
    <3>0. PICK l \in Nat : l = n + 1
      BY <1>0
    <3>1. l \in i + 2 .. Len(c) /\ l - 1 = n
      BY <1>0, <1>1, <2>2, <3>0
    <3>2. c[l] = b[n]
      BY <3>1
    <3>3. b[n].free = SIZE - b[n].space
      BY DEF Tiles, n
    <3> QED BY <1>1, <3>0, <3>2, <3>3
  <2> QED BY <1>0, <2>1, <2>2
<1>13. ASSUME NEW k \in 1 .. Len(c) PROVE c[k].space % LINE_SIZE = 0
  <2>0. \A j \in 1 .. n : b[j].space % LINE_SIZE = 0
    BY DEF Tiles, n
  <2>1. CASE k <= i
    <3>1. k \in 1 .. i /\ k \in 1 .. n
      BY <1>0, <2>1
    <3> QED BY <1>3, <2>0, <3>1
  <2>2. CASE k = i + 1
    <3>1. x % LINE_SIZE = 0
      BY <2>0 DEF x, n
    <3>2. (x + size) % LINE_SIZE = 0
      BY <1>0, <3>1, SumOfMultiples
    <3> QED BY <1>1, <2>2, <3>2
  <2>3. CASE k >= i + 2
    <3>1. k \in i + 2 .. Len(c) /\ k - 1 \in 1 .. n
      BY <1>0, <1>1, <2>3
    <3> QED BY <2>0, <3>1
  <2> QED BY <1>0, <2>1, <2>2, <2>3
<1>14. c[1].space = 0
  <2>1. 1 \in 1 .. i
    BY <1>0
  <2> QED BY <1>3, <2>1 DEF Tiles
<1>15. Tiles(c)
  <2>1. Len(c) >= 1
    BY <1>0, <1>1
  <2> QED BY <1>5, <1>11, <1>12, <1>13, <1>14, <2>1 DEF Tiles
<1>16. ASSUME NEW k \in 1 .. Len(c) - 1, c[k].free = 0
       PROVE  Piece(c, k) \in Used(b) \cup {[addr |-> x, size |-> size]}
  <2>0. k \in 1 .. n
    BY <1>0, <1>1
  <2>1. CASE k < i
    <3>1. k \in 1 .. n - 1 /\ b[k].free = 0 /\ Piece(c, k) = Piece(b, k)
      BY <1>7, <1>16, <2>0, <2>1 DEF Piece
    <3> QED BY <3>1 DEF Used, n
  <2>2. CASE k = i
    <3>1. c[i + 1].space - c[i].space = size
      BY <1>0, <1>1
    <3> QED BY <1>1, <2>2, <3>1 DEF Piece
  <2>3. CASE k = i + 1 /\ i < n
    <3>1. f - size # 0
      BY <1>0, <1>9, <2>3
    <3> QED BY <1>1, <1>16, <2>3, <3>1
  <2>4. CASE k >= i + 2
    <3>1. k - 1 \in 1 .. n - 1 /\ b[k - 1].free = 0 /\ Piece(c, k) = Piece(b, k - 1)
      BY <1>8, <1>16, <2>0, <2>4 DEF Piece
    <3> QED BY <3>1 DEF Used, n
  <2> QED BY <1>10, <2>0, <2>1, <2>2, <2>3, <2>4
<1>17. ASSUME NEW j \in 1 .. n - 1, b[j].free = 0 PROVE Piece(b, j) \in Used(c)
  <2>0. j \in 1 .. n /\ j \in Nat /\ (j < i \/ j > i)
    <3>1. j # i
      BY <1>0, <1>2, <1>17 DEF f
    <3> QED BY <1>0, <3>1
  <2>1. CASE j < i
    <3>1. j \in 1 .. Len(c) - 1
      BY <1>0, <1>1, <2>0
    <3>2. c[j].free = 0 /\ Piece(c, j) = Piece(b, j)
      BY <1>7, <1>17, <2>0, <2>1 DEF Piece
    <3> QED BY <3>1, <3>2 DEF Used
  <2>2. CASE j > i
    <3>1. j + 1 \in 1 .. n /\ j + 1 >= i + 2 /\ j + 1 - 1 = j /\ j + 1 \in 1 .. Len(c) - 1
      BY <1>0, <1>1, <2>0, <2>2
    <3>2. c[j + 1] = b[j] /\ c[j + 1 + 1] = b[j + 1]
      BY <1>8, <3>1
    <3>3. c[j + 1].free = 0 /\ Piece(c, j + 1) = Piece(b, j)
      BY <1>17, <3>2 DEF Piece
    <3> QED BY <3>1, <3>3 DEF Used
  <2> QED BY <2>0, <2>1, <2>2
<1>18. [addr |-> x, size |-> size] \in Used(c)
  <2>1. i \in 1 .. Len(c) - 1 /\ c[i + 1].space - c[i].space = size
    BY <1>0, <1>1
  <2>2. Piece(c, i) = [addr |-> x, size |-> size]
    BY <1>1, <2>1 DEF Piece
  <2> QED BY <1>1, <2>1, <2>2 DEF Used
<1>19. Used(c) = Used(b) \cup {[addr |-> x, size |-> size]}
  <2>1. Used(c) \subseteq Used(b) \cup {[addr |-> x, size |-> size]}
    BY <1>16 DEF Used
  <2>2. Used(b) \subseteq Used(c)
    BY <1>17 DEF Used, n
  <2> QED BY <1>18, <2>1, <2>2
<1>20. QED
  BY <1>15, <1>19 DEF x

\* A free block is taken as a whole.
LEMMA WholeTiles ==
  ASSUME NEW b, Tiles(b), NEW i \in 1 .. Len(b) - 1, b[i].free > 0,
         NEW c \in Seq(Blocks), Len(c) = Len(b),
         c[i] = Block(b[i].space, 0),
         \A k \in 1 .. Len(b) : k # i => c[k] = b[k]
  PROVE  Tiles(c) /\ Used(c) = Used(b) \cup {[addr |-> b[i].space, size |-> b[i].free]}
<1> DEFINE n == Len(b)
<1>0. n \in Nat /\ n >= 1 /\ i \in Nat /\ i \in 1 .. n /\ i # n /\ i + 1 \in 1 .. n
  <2>1. n \in Nat /\ n >= 1
    BY Facts
  <2> HIDE DEF n
  <2> QED BY <2>1 DEF n
<1>1. \A k \in 1 .. n : c[k].space = b[k].space
  BY DEF Block
<1>2. c[i].free = 0 /\ \A k \in 1 .. n : k # i => c[k].free = b[k].free
  BY DEF Block
<1>3. \A k \in 1 .. n - 1 : k \in 1 .. n /\ k + 1 \in 1 .. n /\ k # n
  BY <1>0
<1>4. \A k \in 1 .. n - 1 : /\ b[k].free \in {0, b[k + 1].space - b[k].space}
                            /\ b[k].free > 0 => b[k + 1].free = 0 /\ k + 1 # n
  BY DEF Tiles
<1> HIDE DEF n
<1>5. ASSUME NEW k \in 1 .. n - 1
      PROVE  /\ c[k].free \in {0, c[k + 1].space - c[k].space}
             /\ c[k].free > 0 => c[k + 1].free = 0 /\ k + 1 # n
  <2>1. CASE k = i
    BY <1>2, <2>1
  <2>2. CASE k # i
    BY <1>1, <1>2, <1>3, <1>4, <2>2
  <2> QED BY <2>1, <2>2
<1>6. Tiles(c)
  <2>1. n \in 1 .. n /\ 1 \in 1 .. n
    BY <1>0
  <2>2. c[n].free = SIZE - c[n].space
    BY <1>0, <1>1, <1>2, <2>1 DEF Tiles, n
  <2>3. \A k, l \in 1 .. n : k < l => c[k].space < c[l].space
    BY <1>1 DEF Tiles, n
  <2>4. c[1].space = 0 /\ \A k \in 1 .. n : c[k].space % LINE_SIZE = 0
    BY <1>1, <2>1 DEF Tiles, n
  <2> QED BY <1>0, <1>5, <2>2, <2>3, <2>4 DEF Tiles, n
<1>7. \A k \in 1 .. n - 1 : Piece(c, k) = Piece(b, k)
  BY <1>1, <1>3 DEF Piece
<1>8. i \in 1 .. n - 1 /\ Piece(c, i) = [addr |-> b[i].space, size |-> b[i].free]
  <2>1. b[i].free = b[i + 1].space - b[i].space /\ i \in 1 .. n - 1
    BY <1>4 DEF n
  <2> QED BY <1>7, <2>1 DEF Piece
<1>9. Used(c) = Used(b) \cup {[addr |-> b[i].space, size |-> b[i].free]}
  <2>1. \A k \in 1 .. n - 1 : c[k].free = 0 <=> k = i \/ b[k].free = 0
    BY <1>2, <1>3
  <2>2. Used(c) = {Piece(b, k) : k \in {l \in 1 .. n - 1 : l = i \/ b[l].free = 0}}
    BY <1>7, <2>1 DEF Used, n
  <2>3. Used(b) = {Piece(b, k) : k \in {l \in 1 .. n - 1 : b[l].free = 0}}
    BY DEF Used, n
  <2> QED BY <1>7, <1>8, <2>2, <2>3
<1>10. QED
  BY <1>6, <1>9

\* The used block i and the free ones from a to z become one.
IsMerged(c, b, a, i, z) ==
  /\ a \in 1 .. Len(b) /\ z \in a .. Len(b) /\ i \in a .. z /\ i # Len(b)
  /\ \A k \in a .. z : k # i => b[k].free > 0 \/ k = Len(b)
  /\ a > 1 => b[a - 1].free = 0
  /\ z # Len(b) => z + 1 # Len(b) /\ b[z + 1].free = 0
  /\ c \in Seq(Blocks) /\ Len(c) = Len(b) - (z - a)
  /\ \A k \in 1 .. a - 1 : c[k] = b[k]
  /\ c[a] = Block(b[a].space, (IF z = Len(b) THEN SIZE ELSE b[z + 1].space) - b[a].space)
  /\ \A k \in a + 1 .. Len(c) : c[k] = b[k + (z - a)]

LEMMA MergeTiles ==
  ASSUME NEW b, Tiles(b), SIZE \in Nat, NEW c, NEW a, NEW i, NEW z, IsMerged(c, b, a, i, z)
  PROVE  Tiles(c) /\ Used(c) = Without(b, b[i].space)
<1> DEFINE n == Len(b)
           d == z - a
<1>j. c \in Seq(Blocks)
  BY DEF IsMerged
<1>i. a \in 1 .. n /\ z \in a .. n /\ i \in a .. z /\ i # n /\ Len(c) = n - d
  BY DEF IsMerged
<1>a. \A k \in 1 .. n : b[k].space \in Nat /\ b[k].free \in Nat
  BY Facts
<1>0. /\ n \in Nat /\ a \in Nat /\ z \in Nat /\ d \in Nat /\ i \in Nat
      /\ 1 <= a /\ a <= i /\ i <= z /\ z <= n /\ i < n /\ a + d = z /\ Len(c) = n - d
  <2>1. n \in Nat
    BY Facts
  <2> HIDE DEF n, d
  <2> QED BY <1>i, <2>1 DEF d
<1>1. /\ \A k, l \in 1 .. n : k < l => b[k].space < b[l].space
      /\ \A k \in 1 .. n - 1 : /\ b[k].free \in {0, b[k + 1].space - b[k].space}
                               /\ b[k].free > 0 => b[k + 1].free = 0 /\ k + 1 # n
      /\ b[n].free = SIZE - b[n].space /\ b[1].space = 0
      /\ \A k \in 1 .. n : b[k].space % LINE_SIZE = 0
  BY DEF Tiles
<1>2. /\ c[a].space = b[a].space
      /\ c[a].free = (IF z = n THEN SIZE ELSE b[z + 1].space) - b[a].space
      /\ \A k \in 1 .. a - 1 : c[k] = b[k]
      /\ \A k \in a + 1 .. n - d : c[k] = b[k + d]
      /\ \A k \in a .. z : k # i => b[k].free > 0 \/ k = n
      /\ a > 1 => b[a - 1].free = 0
      /\ z # n => z + 1 # n /\ b[z + 1].free = 0
  BY <1>0 DEF Block, IsMerged
<1> HIDE DEF n, d
\* Where a block of c comes from: the block j of b, and what follows it.
<1>3. ASSUME NEW k \in 1 .. n - d
      PROVE  \E j \in 1 .. n : /\ j = (IF k <= a THEN k ELSE k + d) /\ c[k].space = b[j].space
                               /\ k # a => c[k] = b[j]
  <2>0. k \in Nat /\ 1 <= k /\ k <= n - d
    BY <1>0
  <2>1. CASE k < a
    <3>1. k \in 1 .. a - 1 /\ k \in 1 .. n
      BY <1>0, <2>0, <2>1, Z3
    <3> QED BY <1>0, <1>2, <2>0, <2>1, <3>1
  <2>2. CASE k = a
    <3>1. k \in 1 .. n
      BY <1>0, <2>2
    <3> QED BY <1>0, <1>2, <2>2, <3>1
  <2>3. CASE k > a
    <3>1. k \in a + 1 .. n - d /\ k + d \in 1 .. n /\ ~(k <= a)
      BY <1>0, <2>0, <2>3, Z3
    <3> QED BY <1>2, <3>1
  <2> QED BY <1>0, <2>0, <2>1, <2>2, <2>3
<1>4. ASSUME NEW k \in 1 .. n - d, NEW l \in 1 .. n - d, k < l
      PROVE  c[k].space < c[l].space
  <2>1. PICK j \in 1 .. n : j = (IF k <= a THEN k ELSE k + d) /\ c[k].space = b[j].space
    BY <1>3
  <2>2. PICK m \in 1 .. n : m = (IF l <= a THEN l ELSE l + d) /\ c[l].space = b[m].space
    BY <1>3
  <2>3. j < m
    BY <1>0, <1>4, <2>1, <2>2
  <2> QED BY <1>1, <2>1, <2>2, <2>3
<1>5. ASSUME NEW k \in 1 .. n - d - 1
      PROVE  /\ c[k].free \in {0, c[k + 1].space - c[k].space}
             /\ c[k].free > 0 => c[k + 1].free = 0 /\ k + 1 # n - d
  <2>0. k \in Nat /\ 1 <= k /\ k <= n - d - 1 /\ k \in 1 .. n - d /\ k + 1 \in 1 .. n - d
    BY <1>0
  <2>1. CASE k < a
    <3>1. k \in 1 .. a - 1 /\ k \in 1 .. n - 1 /\ k + 1 <= a
      BY <1>0, <2>0, <2>1
    <3>2. c[k] = b[k] /\ c[k + 1].space = b[k + 1].space
      BY <1>2, <1>3, <2>0, <3>1
    <3>3. CASE k + 1 = a
      <4>1. a > 1 /\ a - 1 = k
        BY <1>0, <2>0, <3>3
      <4>2. c[k].free = 0
        BY <1>2, <3>2, <4>1
      <4> QED BY <4>2
    <3>4. CASE k + 1 < a
      <4>1. k + 1 \in 1 .. a - 1 /\ k + 1 # n - d
        BY <1>0, <2>0, <3>4
      <4>2. c[k + 1] = b[k + 1]
        BY <1>2, <4>1
      <4> QED BY <1>1, <3>1, <3>2, <4>1, <4>2
    <3> QED BY <1>0, <2>0, <3>1, <3>3, <3>4
  <2>2. CASE k = a
    <3>1. z # n /\ k + 1 \in a + 1 .. n - d /\ k + 1 + d = z + 1
      BY <1>0, <2>0, <2>2, SMTT(40)
    <3>2. c[k + 1] = b[z + 1]
      BY <1>2, <3>1
    <3>3. k + 1 # n - d
      BY <1>0, <1>2, <2>2, <3>1
    <3> QED BY <1>2, <2>2, <3>1, <3>2, <3>3
  <2>3. CASE k > a
    <3>1. /\ k \in a + 1 .. n - d /\ k + 1 \in a + 1 .. n - d
          /\ k + d \in 1 .. n - 1 /\ k + 1 + d = k + d + 1 /\ (k + d + 1 # n => k + 1 # n - d)
      BY <1>0, <2>0, <2>3, Z3
    <3>2. c[k] = b[k + d] /\ c[k + 1] = b[k + d + 1]
      BY <1>2, <3>1
    <3> QED BY <1>1, <3>1, <3>2
  <2> QED BY <1>0, <2>0, <2>1, <2>2, <2>3
<1>6. c[n - d].free = SIZE - c[n - d].space
  <2>1. CASE z = n
    <3>1. n - d = a
      BY <1>0, <2>1
    <3> QED BY <1>2, <2>1, <3>1
  <2>2. CASE z # n
    <3>1. PICK l \in Nat : l = n - d
      BY <1>0
    <3>2. l \in a + 1 .. n - d /\ l + d = n
      BY <1>0, <2>2, <3>1
    <3>3. c[l] = b[n]
      BY <1>2, <3>2
    <3> QED BY <1>1, <3>1, <3>3
  <2> QED BY <2>1, <2>2
<1>7. Tiles(c)
  <2>1. 1 \in 1 .. n - d /\ n - d >= 1 /\ 1 <= a
    BY <1>0
  <2>2. c[1].space = 0
    BY <1>1, <1>3, <2>1
  <2>3. \A k \in 1 .. n - d : c[k].space % LINE_SIZE = 0
    BY <1>1, <1>3
  <2> QED BY <1>0, <1>j, <1>4, <1>5, <1>6, <2>1, <2>2, <2>3 DEF Tiles
<1>8. i \in 1 .. n
  BY <1>0
<1>9. ASSUME NEW k \in 1 .. n - d - 1, c[k].free = 0
      PROVE  Piece(c, k) \in Used(b) /\ Piece(c, k).addr # b[i].space
  <2>0. k \in Nat /\ 1 <= k /\ k <= n - d - 1 /\ k \in 1 .. n - d /\ k + 1 \in 1 .. n - d
    BY <1>0
  <2>1. CASE k < a
    <3>1. k \in 1 .. a - 1 /\ k \in 1 .. n - 1 /\ k \in 1 .. n /\ k + 1 <= a /\ k < i
      BY <1>0, <2>0, <2>1
    <3>2. c[k] = b[k] /\ c[k + 1].space = b[k + 1].space
      BY <1>2, <1>3, <2>0, <3>1
    <3>3. b[k].space # b[i].space
      <4>1. b[k].space < b[i].space /\ b[k].space \in Nat /\ b[i].space \in Nat
        BY <1>1, <1>8, <1>a, <3>1
      <4> QED BY <4>1, Apart
    <3>4. Piece(c, k) = Piece(b, k) /\ b[k].free = 0 /\ Piece(c, k).addr = b[k].space
      BY <1>9, <3>2 DEF Piece
    <3> QED BY <3>1, <3>3, <3>4 DEF Used, n
  <2>2. CASE k = a
    <3>1. z # n /\ z + 1 \in 1 .. n /\ a \in 1 .. n /\ a < z + 1
      BY <1>0, <2>0, <2>2, Z3
    <3>2. b[a].space < b[z + 1].space
      BY <1>1, <3>1
    <3>3. b[a].space \in Nat /\ b[z + 1].space \in Nat
      BY <1>a, <3>1
    <3>4. b[z + 1].space - b[a].space # 0
      BY <3>2, <3>3, Apart
    <3> QED BY <1>2, <1>9, <2>2, <3>1, <3>4
  <2>3. CASE k > a
    <3>1. /\ k \in a + 1 .. n - d /\ k + 1 \in a + 1 .. n - d
          /\ k + d \in 1 .. n - 1 /\ k + d \in 1 .. n /\ k + 1 + d = k + d + 1 /\ i < k + d
      BY <1>0, <2>0, <2>3
    <3>2. c[k] = b[k + d] /\ c[k + 1] = b[k + d + 1]
      BY <1>2, <3>1
    <3>3. b[k + d].space # b[i].space
      <4>1. b[i].space < b[k + d].space
        BY <1>1, <1>8, <3>1
      <4> QED BY <1>8, <1>a, <3>1, <4>1, Apart
    <3>4. Piece(c, k) = Piece(b, k + d) /\ b[k + d].free = 0
          /\ Piece(c, k).addr = b[k + d].space
      BY <1>9, <3>2 DEF Piece
    <3> QED BY <3>1, <3>3, <3>4 DEF Used, n
  <2> QED BY <1>0, <2>0, <2>1, <2>2, <2>3
<1>10. ASSUME NEW j \in 1 .. n - 1, b[j].free = 0, b[j].space # b[i].space
       PROVE  Piece(b, j) \in Used(c)
  <2>0. j \in Nat /\ 1 <= j /\ j <= n - 1 /\ j # i /\ j # n
    BY <1>0, <1>10
  <2>1. ~(j \in a .. z)
    BY <1>2, <1>10, <2>0
  <2>2. CASE j < a
    <3>1. j \in 1 .. a - 1 /\ j \in 1 .. n - d - 1 /\ j \in 1 .. n - d
          /\ j + 1 \in 1 .. n - d /\ j + 1 <= a
      BY <1>0, <2>0, <2>2
    <3>2. c[j] = b[j] /\ c[j + 1].space = b[j + 1].space
      BY <1>2, <1>3, <3>1
    <3>3. Piece(c, j) = Piece(b, j) /\ c[j].free = 0
      BY <1>10, <3>2 DEF Piece
    <3> QED BY <1>0, <3>1, <3>3 DEF Used
  <2>3. CASE j > z
    <3>1. PICK k \in Nat : k = j - d
      BY <1>0, <2>0, <2>3
    <3>2. /\ k \in a + 1 .. n - d /\ k + 1 \in a + 1 .. n - d /\ k \in 1 .. n - d - 1
          /\ k + d = j /\ k + 1 + d = j + 1
      BY <1>0, <2>0, <2>3, <3>1
    <3>3. c[k] = b[j] /\ c[k + 1] = b[j + 1]
      BY <1>2, <3>2
    <3>4. Piece(c, k) = Piece(b, j) /\ c[k].free = 0
      BY <1>10, <3>3 DEF Piece
    <3> QED BY <1>0, <3>2, <3>4 DEF Used
  <2> QED BY <1>0, <2>0, <2>1, <2>2, <2>3
<1>11. Used(c) = Without(b, b[i].space)
  <2>1. Used(c) \subseteq {p \in Used(b) : p.addr # b[i].space}
    BY <1>0, <1>9 DEF Used
  <2>2. \A j \in 1 .. n - 1 : Piece(b, j).addr = b[j].space
    BY DEF Piece
  <2>3. {p \in Used(b) : p.addr # b[i].space} \subseteq Used(c)
    <3> SUFFICES ASSUME NEW p \in Used(b), p.addr # b[i].space PROVE p \in Used(c)
      OBVIOUS
    <3>1. PICK j \in 1 .. n - 1 : b[j].free = 0 /\ p = Piece(b, j)
      BY DEF Used, n
    <3> QED BY <1>10, <2>2, <3>1
  <2> QED BY <2>1, <2>3 DEF Without
<1>12. QED
  BY <1>7, <1>11

-----------------------------------------------------------------------------
(***************************************************************************)
(* The operations.                                                         *)
(***************************************************************************)
LEMMA TakenKeeps ==
  ASSUME Tiles(blocks), NEW size \in Nat, ~Refused(size), NEW i \in Fits(size)
  PROVE  /\ Tiles(Taken(i, size))
         /\ Used(Taken(i, size)) = Used(blocks) \cup {[addr |-> blocks[i].space, size |-> size]}
<1> DEFINE n == Len(blocks)
           x == blocks[i].space
           f == blocks[i].free
           used == Block(x, 0)
           rest == Block(x + size, f - size)
           c == Taken(i, size)
<1>1. i \in 1 .. n /\ f >= size /\ size > 0 /\ size % LINE_SIZE = 0
  BY DEF Fits, Refused, tail
<1>2. n \in Nat /\ x \in Nat /\ f \in Nat /\ blocks \in Seq(Blocks)
  BY <1>1, Facts DEF Tiles
<1>3. used \in Blocks /\ rest \in Blocks
  <2>1. x + size \in Nat /\ f - size \in Nat
    BY <1>1, <1>2
  <2> HIDE DEF x, f
  <2> QED BY <1>2, <2>1 DEF Block, Blocks
<1>4. i - 1 \in Nat /\ i + 1 \in Nat /\ i - 1 < i + 1 /\ i + 1 <= n + 1 /\ i \in Nat /\ i <= n
  <2> HIDE DEF n
  <2> QED BY <1>1, <1>2
<1>5. CASE i = n \/ f > size
  <2> DEFINE m == <<used, rest>>
  <2>1. m \in Seq(Blocks) /\ Len(m) = 2 /\ m[1] = used /\ m[2] = rest
    BY <1>3
  <2>2. c = SubSeq(blocks, 1, i - 1) \o m \o SubSeq(blocks, i + 1, n)
    BY <1>5 DEF Taken, tail
  <2> HIDE DEF c, m
  <2>a. PICK a \in Nat : a = i - 1
    BY <1>4
  <2>b. PICK z \in Nat : z = i + 1
    BY <1>4
  <2>c. c = SubSeq(blocks, 1, a) \o m \o SubSeq(blocks, z, Len(blocks)) /\ a < z
        /\ z <= Len(blocks) + 1 /\ blocks \in Seq(Blocks) /\ m \in Seq(Blocks)
    BY <1>2, <1>4, <2>1, <2>2, <2>a, <2>b
  <2>3. /\ c \in Seq(Blocks) /\ Len(c) = a + 2 + (n + 1 - z)
        /\ \A k \in 1 .. a : c[k] = blocks[k]
        /\ \A k \in 1 .. 2 : c[a + k] = m[k]
        /\ \A k \in a + 2 + 1 .. Len(c) : c[k] = blocks[k + (z - 1 - (a + 2))]
    <3>1. IsSpliced(c, Blocks, blocks, m, a, z)
      BY <2>c, Spliced
    <3> QED BY <2>1, <3>1 DEF IsSpliced
  <2> HIDE DEF n, x, f, used, rest
  <2>4. a + 1 = i /\ a + 2 = i + 1 /\ a + 2 + (n + 1 - z) = n + 1
    BY <1>2, <1>4, <2>a, <2>b
  <2>5. Len(c) = n + 1 /\ c[i] = used /\ c[i + 1] = rest
    BY <2>1, <2>3, <2>4
  <2>6. ASSUME NEW k \in i + 2 .. Len(c) PROVE c[k] = blocks[k - 1]
    <3>1. k \in a + 2 + 1 .. Len(c) /\ k + (z - 1 - (a + 2)) = k - 1
      BY <1>2, <1>4, <2>5, <2>a, <2>b
    <3> QED BY <2>3, <3>1
  <2>7. Tiles(c) /\ Used(c) = Used(blocks) \cup {[addr |-> x, size |-> size]}
    <3>1. /\ i \in 1 .. Len(blocks) /\ size > 0 /\ size % LINE_SIZE = 0 /\ blocks[i].free >= size
          /\ i = Len(blocks) \/ blocks[i].free > size
          /\ LINE_SIZE \in Nat /\ LINE_SIZE > 0 /\ SIZE \in Nat
      BY <1>1, <1>5, HeapAssumption DEF n, f
    <3>2. /\ c \in Seq(Blocks) /\ Len(c) = Len(blocks) + 1 /\ c[i] = Block(blocks[i].space, 0)
          /\ c[i + 1] = Block(blocks[i].space + size, blocks[i].free - size)
      BY <2>3, <2>5 DEF n, x, f, used, rest
    <3>3. \A k \in 1 .. i - 1 : c[k] = blocks[k]
      BY <2>3, <2>a
    <3>4. \A k \in i + 2 .. Len(c) : c[k] = blocks[k - 1]
      BY <2>6
    <3>5. IsSplit(c, blocks, i, size)
      BY <3>1, <3>2, <3>3, <3>4 DEF IsSplit
    <3> QED BY <3>1, <3>5, SplitTiles DEF x
  <2> QED BY <2>7 DEF c, x
<1>6. CASE i # n /\ f = size
  <2> DEFINE m == <<used>>
  <2>1. m \in Seq(Blocks) /\ Len(m) = 1 /\ m[1] = used
    BY <1>3
  <2>2. c = SubSeq(blocks, 1, i - 1) \o m \o SubSeq(blocks, i + 1, n)
    <3>1. ~(i = tail \/ blocks[i].free > size)
      BY <1>2, <1>6 DEF tail
    <3> QED BY <3>1 DEF Taken, tail
  <2> HIDE DEF c, m
  <2>a. PICK a \in Nat : a = i - 1
    BY <1>4
  <2>b. PICK z \in Nat : z = i + 1
    BY <1>4
  <2>c. c = SubSeq(blocks, 1, a) \o m \o SubSeq(blocks, z, Len(blocks)) /\ a < z
        /\ z <= Len(blocks) + 1 /\ blocks \in Seq(Blocks) /\ m \in Seq(Blocks)
    BY <1>2, <1>4, <2>1, <2>2, <2>a, <2>b
  <2>3. /\ c \in Seq(Blocks) /\ Len(c) = a + 1 + (n + 1 - z)
        /\ \A k \in 1 .. a : c[k] = blocks[k]
        /\ \A k \in 1 .. 1 : c[a + k] = m[k]
        /\ \A k \in a + 1 + 1 .. Len(c) : c[k] = blocks[k + (z - 1 - (a + 1))]
    <3>1. IsSpliced(c, Blocks, blocks, m, a, z)
      BY <2>c, Spliced
    <3> QED BY <2>1, <3>1 DEF IsSpliced
  <2> HIDE DEF n, x, f, used, rest
  <2>4. a + 1 = i /\ a + 1 + (n + 1 - z) = n
    BY <1>2, <1>4, <2>a, <2>b
  <2>5. Len(c) = n /\ c[i] = used
    BY <2>1, <2>3, <2>4
  <2>6. ASSUME NEW k \in 1 .. n, k # i PROVE c[k] = blocks[k]
    <3>1. CASE k < i
      <4>1. k \in 1 .. a
        BY <1>4, <2>a, <3>1
      <4> QED BY <2>3, <4>1
    <3>2. CASE k > i
      <4>1. k \in a + 1 + 1 .. Len(c) /\ k + (z - 1 - (a + 1)) = k
        BY <1>2, <1>4, <2>5, <2>a, <2>b, <3>2
      <4> QED BY <2>3, <4>1
    <3> QED BY <1>4, <2>6, <3>1, <3>2
  <2>7. i \in 1 .. n - 1 /\ f > 0
    BY <1>1, <1>2, <1>4, <1>6
  <2>8. Tiles(c) /\ Used(c) = Used(blocks) \cup {[addr |-> x, size |-> f]}
    <3>1. /\ i \in 1 .. Len(blocks) - 1 /\ blocks[i].free > 0
          /\ c \in Seq(Blocks) /\ Len(c) = Len(blocks) /\ c[i] = Block(blocks[i].space, 0)
      BY <2>3, <2>5, <2>7 DEF n, x, f, used
    <3>2. \A k \in 1 .. Len(blocks) : k # i => c[k] = blocks[k]
      BY <2>6 DEF n
    <3> QED BY <3>1, <3>2, WholeTiles DEF x, f
  <2> QED BY <1>6, <2>8 DEF c, x
<1>7. QED
  <2> HIDE DEF n, f
  <2> QED BY <1>1, <1>2, <1>5, <1>6

LEMMA ChosenFits ==
  ASSUME NEW size \in Nat, Fits(size) # {}
  PROVE  Chosen(size) \in Fits(size)
<1>1. Fits(size) \subseteq Nat
  BY DEF Fits
<1>2. \E i \in Fits(size) : \A j \in Fits(size) : i <= j
  BY <1>1, Least
<1>3. QED
  BY <1>2 DEF Chosen

LEMMA FreedKeeps ==
  ASSUME SIZE \in Nat, Tiles(blocks), NEW i \in 1 .. tail - 1
  PROVE  /\ Tiles(Freed(i))
         /\ Used(Freed(i)) = Without(blocks, blocks[i].space)
<1> DEFINE n == Len(blocks)
           next == blocks[i + 1]
           j1 == i > 1 /\ blocks[i - 1].free > 0
           j2 == next.free > 0 \/ i + 1 = n
           c  == Freed(i)
<1>1. /\ n \in Nat /\ blocks \in Seq(Blocks) /\ SIZE \in Nat
      /\ \A k \in 1 .. n : blocks[k].space \in Nat /\ blocks[k].free \in Nat
  BY Facts DEF Tiles
<1>2. /\ \A k, l \in 1 .. n : k < l => blocks[k].space < blocks[l].space
      /\ \A k \in 1 .. n - 1 : /\ blocks[k].free \in {0, blocks[k + 1].space - blocks[k].space}
                               /\ blocks[k].free > 0 => blocks[k + 1].free = 0 /\ k + 1 # n
      /\ blocks[n].free = SIZE - blocks[n].space
  BY DEF Tiles
<1>3. i \in Nat /\ 1 <= i /\ i < n /\ i \in 1 .. n /\ i + 1 \in 1 .. n /\ i \in 1 .. n - 1
  <2>1. i \in 1 .. n - 1
    BY DEF tail
  <2> HIDE DEF n
  <2> QED BY <1>1, <2>1
<1>4. PICK a \in Nat : a = IF j1 THEN i - 1 ELSE i
  BY <1>3
<1>5. PICK z \in Nat : z = IF j2 THEN i + 1 ELSE i
  BY <1>3
<1> DEFINE free == next.space - blocks[i].space + (IF j1 THEN blocks[i - 1].free ELSE 0)
                     + (IF j2 THEN next.free ELSE 0)
           end  == IF z = n THEN SIZE ELSE blocks[z + 1].space
           m    == <<Block(blocks[a].space, free)>>
<1>6. c = SubSeq(blocks, 1, a - 1) \o m \o SubSeq(blocks, z + 1, n)
  <2>1. (IF j2 THEN i + 2 ELSE i + 1) = z + 1
    BY <1>3, <1>5
  <2> QED BY <1>4, <2>1 DEF Freed, tail
<1> HIDE DEF n, next, j1, j2, c
<1>7. /\ 1 <= a /\ a <= i /\ i <= z /\ z <= n /\ a < n /\ a \in 1 .. n /\ z \in 1 .. n
  <2>1. j1 => i > 1
    BY DEF j1
  <2> QED BY <1>1, <1>3, <1>4, <1>5, <2>1
<1>8. j1 => /\ a = i - 1 /\ a \in 1 .. n - 1 /\ a + 1 = i /\ blocks[a].free > 0
            /\ blocks[a].free = blocks[i].space - blocks[a].space
  <2> SUFFICES ASSUME j1
               PROVE  /\ a = i - 1 /\ a \in 1 .. n - 1 /\ a + 1 = i /\ blocks[a].free > 0
                      /\ blocks[a].free = blocks[i].space - blocks[a].space
    OBVIOUS
  <2>1. a = i - 1 /\ a \in 1 .. n - 1 /\ a + 1 = i
    BY <1>1, <1>3, <1>4, <1>7
  <2>2. blocks[a].free > 0
    BY <2>1 DEF j1
  <2>3. blocks[a].free \in {0, blocks[i].space - blocks[a].space} /\ blocks[a].free # 0
    BY <1>2, <2>1, <2>2
  <2> QED BY <2>1, <2>2, <2>3
\* The block in front of those merged is in use.
<1>9. a > 1 => blocks[a - 1].free = 0
  <2> SUFFICES ASSUME a > 1 PROVE blocks[a - 1].free = 0
    OBVIOUS
  <2>1. PICK k \in Nat : k = a - 1
    BY <1>7
  <2>2. k \in 1 .. n - 1 /\ k + 1 = a /\ k \in 1 .. n
    BY <1>1, <1>7, <2>1
  <2>3. blocks[k].free \in Nat /\ (blocks[k].free > 0 => blocks[a].free = 0)
    BY <1>1, <1>2, <2>2
  <2>4. CASE j1
    BY <1>8, <2>1, <2>3, <2>4
  <2>5. CASE ~j1
    <3>1. i > 1 /\ a = i
      BY <1>4, <2>5
    <3> QED BY <2>1, <2>3, <2>5, <3>1 DEF j1
  <2> QED BY <2>4, <2>5
\* And so is the one behind them.
<1>10. z # n => z + 1 # n /\ blocks[z + 1].free = 0
  <2> SUFFICES ASSUME z # n PROVE z + 1 # n /\ blocks[z + 1].free = 0
    OBVIOUS
  <2>1. CASE j2
    <3>1. z = i + 1 /\ z \in 1 .. n - 1 /\ next.free > 0
      BY <1>1, <1>3, <1>5, <1>7, <2>1 DEF j2
    <3> QED BY <1>2, <3>1 DEF next
  <2>2. CASE ~j2
    <3>1. z = i /\ next.free \in Nat /\ ~(next.free > 0) /\ i + 1 # n
      BY <1>1, <1>3, <1>5, <2>2 DEF j2, next
    <3> QED BY <3>1 DEF next
  <2> QED BY <2>1, <2>2
<1>11. \A k \in a .. z : k # i => blocks[k].free > 0 \/ k = n
  <2> SUFFICES ASSUME NEW k \in a .. z, k # i PROVE blocks[k].free > 0 \/ k = n
    OBVIOUS
  <2>1. (j1 /\ k = a) \/ (j2 /\ k = i + 1)
    BY <1>3, <1>4, <1>5, <1>7
  <2>2. j1 /\ k = a => blocks[k].free > 0
    BY <1>8
  <2>3. j2 /\ k = i + 1 => blocks[k].free > 0 \/ k = n
    BY DEF j2, next
  <2> QED BY <2>1, <2>2, <2>3
<1>12. /\ free = end - blocks[a].space
       /\ end \in Nat /\ end > blocks[a].space
  <2>1. PICK u \in Nat : u = blocks[a].space
    BY <1>1, <1>7
  <2>2. PICK v \in Nat : v = blocks[i].space
    BY <1>1, <1>3
  <2>3. PICK w \in Nat : w = next.space
    BY <1>1, <1>3 DEF next
  <2>4. u <= v /\ v < w
    <3>1. v < w
      BY <1>2, <1>3, <2>2, <2>3 DEF next
    <3>2. a < i => u < v
      BY <1>2, <1>3, <1>7, <2>1, <2>2
    <3>3. a < i \/ a = i
      BY <1>3, <1>7
    <3> QED BY <2>1, <2>2, <3>1, <3>2, <3>3
  <2>5. (IF j1 THEN blocks[i - 1].free ELSE 0) = v - u
    <3>1. j1 => blocks[i - 1].free = v - u
      BY <1>8, <2>1, <2>2
    <3>2. ~j1 => u = v
      BY <1>4, <2>1, <2>2
    <3> QED BY <2>1, <2>2, <3>1, <3>2
  <2>6. PICK e \in Nat : e = end /\ w <= e /\ (IF j2 THEN next.free ELSE 0) = e - w
    <3>1. CASE j2 /\ i + 1 = n
      <4>1. z = n /\ next.free = SIZE - w /\ next.free \in Nat
        BY <1>1, <1>2, <1>3, <1>5, <2>3, <3>1 DEF next
      <4>2. end = SIZE /\ w <= SIZE
        BY <1>1, <2>3, <4>1
      <4> QED BY <1>1, <3>1, <4>1, <4>2
    <3>2. CASE j2 /\ i + 1 # n
      <4>1. z = i + 1 /\ z # n /\ z \in 1 .. n - 1 /\ z + 1 \in 1 .. n /\ next.free > 0
        BY <1>1, <1>3, <1>5, <3>2 DEF j2
      <4>2. PICK y \in Nat : y = blocks[z + 1].space
        BY <1>1, <4>1
      <4>3. next.free \in {0, y - w} /\ next.free # 0 /\ w < y
        BY <1>2, <1>7, <2>3, <4>1, <4>2 DEF next
      <4>4. end = y /\ next.free = y - w
        BY <4>1, <4>2, <4>3
      <4> QED BY <3>2, <4>2, <4>3, <4>4
    <3>3. CASE ~j2
      <4>1. z = i /\ z # n
        BY <1>3, <1>5, <3>3
      <4>2. end = w
        BY <2>3, <4>1 DEF next
      <4> QED BY <2>3, <3>3, <4>2
    <3> QED BY <3>1, <3>2, <3>3
  <2> DEFINE f1 == IF j1 THEN blocks[i - 1].free ELSE 0
             f2 == IF j2 THEN next.free ELSE 0
  <2>7. free = w - v + f1 + f2
    BY <2>2, <2>3
  <2>8. f1 = v - u /\ f2 = e - w
    BY <2>5, <2>6
  <2> HIDE DEF f1, f2, free, end
  <2>9. free = e - u /\ e > u
    BY <2>4, <2>6, <2>7, <2>8
  <2> QED BY <2>1, <2>6, <2>9
<1>13. m \in Seq(Blocks) /\ Len(m) = 1 /\ m[1] = Block(blocks[a].space, end - blocks[a].space)
  <2>1. free \in Nat /\ blocks[a].space \in Nat
    <3> HIDE DEF free, end
    <3> QED BY <1>1, <1>7, <1>12
  <2> HIDE DEF free, end
  <2>2. Block(blocks[a].space, free) \in Blocks
    BY <2>1 DEF Block, Blocks
  <2> QED BY <1>12, <2>2
<1> HIDE DEF m, free, end
<1>14. PICK y \in Nat : y = a - 1
  BY <1>7
<1>15. PICK t \in Nat : t = z + 1
  BY <1>7
<1>16. IsSpliced(c, Blocks, blocks, m, y, t)
  <2>1. y < t /\ t <= n + 1
    BY <1>1, <1>7, <1>14, <1>15
  <2> QED BY <1>1, <1>6, <1>13, <1>14, <1>15, <2>1, Spliced DEF n
<1>17. /\ c \in Seq(Blocks) /\ Len(c) = y + 1 + (n + 1 - t)
       /\ \A k \in 1 .. y : c[k] = blocks[k]
       /\ \A k \in 1 .. 1 : c[y + k] = m[k]
       /\ \A k \in y + 1 + 1 .. Len(c) : c[k] = blocks[k + (t - 1 - (y + 1))]
  BY <1>13, <1>16 DEF IsSpliced, n
<1>18. /\ y + 1 = a /\ y + 1 + (n + 1 - t) = n - (z - a) /\ t - 1 - (y + 1) = z - a
  BY <1>1, <1>7, <1>14, <1>15
<1>19. IsMerged(c, blocks, a, i, z)
  <2>1. Len(c) = n - (z - a) /\ c[a] = Block(blocks[a].space, end - blocks[a].space)
    BY <1>13, <1>17, <1>18
  <2>2. \A k \in a + 1 .. Len(c) : c[k] = blocks[k + (z - a)]
    BY <1>17, <1>18
  <2>3. a \in 1 .. n /\ z \in a .. n /\ i \in a .. z /\ i # n
    BY <1>1, <1>3, <1>7
  <2>4. \A k \in 1 .. a - 1 : c[k] = blocks[k]
    BY <1>14, <1>17
  <2> QED BY <1>9, <1>10, <1>11, <1>17, <2>1, <2>2, <2>3, <2>4 DEF IsMerged, n, end
<1>20. Tiles(c) /\ Used(c) = Without(blocks, blocks[i].space)
  BY <1>19, MergeTiles
<1>21. QED
  BY <1>20 DEF c

LEMMA AllocateKeeps ==
  ASSUME Tiles(blocks), pieces = Used(blocks), NEW size \in Nat, Allocate(size)
  PROVE  Tiles(blocks') /\ pieces' = Used(blocks')
<1>1. CASE Refused(size) \/ Fits(size) = {}
  BY <1>1 DEF Allocate, Used, Piece
<1>2. CASE ~(Refused(size) \/ Fits(size) = {})
  <2> DEFINE i == Chosen(size)
  <2>1. i \in Fits(size)
    BY <1>2, ChosenFits
  <2>2. /\ blocks' = Taken(i, size)
        /\ pieces' = pieces \cup {[addr |-> blocks[i].space, size |-> size]}
    BY <1>2 DEF Allocate
  <2>3. /\ Tiles(Taken(i, size))
        /\ Used(Taken(i, size)) = Used(blocks) \cup {[addr |-> blocks[i].space, size |-> size]}
    BY <1>2, <2>1, TakenKeeps
  <2> QED BY <2>2, <2>3
<1>3. QED
  BY <1>1, <1>2

LEMMA FreeKeeps ==
  ASSUME Tiles(blocks), pieces = Used(blocks), NEW ptr \in 0 .. SIZE, Free(ptr)
  PROVE  Tiles(blocks') /\ pieces' = Used(blocks')
<1> DEFINE found == {i \in 1 .. tail - 1 : blocks[i].space = ptr}
<1>1. pieces' = Without(blocks, ptr)
  BY DEF Free, Without
<1>2. CASE found = {}
  <2>1. blocks' = blocks
    BY <1>2 DEF Free
  <2>2. \A p \in Used(blocks) : p.addr # ptr
    BY <1>2 DEF Used, Piece, tail
  <2> QED BY <1>1, <2>1, <2>2 DEF Without
<1>3. CASE found # {}
  <2> DEFINE i == CHOOSE k \in found : \A j \in found : k <= j
  <2>1. found \subseteq Nat
    OBVIOUS
  <2>2. \E k \in found : \A j \in found : k <= j
    <3> HIDE DEF found
    <3> QED BY <1>3, <2>1, Least
  <2>3. i \in found
    <3> HIDE DEF found
    <3> QED BY <2>2
  <2>4. blocks' = Freed(i)
    BY <1>3 DEF Free
  <2>5. i \in 1 .. tail - 1 /\ blocks[i].space = ptr
    BY <2>3
  <2> HIDE DEF i
  <2>6. Tiles(Freed(i)) /\ Used(Freed(i)) = Without(blocks, blocks[i].space)
    BY <2>5, FreedKeeps, HeapAssumption
  <2> QED BY <1>1, <2>4, <2>5, <2>6
<1>4. QED
  BY <1>2, <1>3

LEMMA InitTiles == ASSUME HeapInit PROVE HeapInv
<1> DEFINE b == <<Block(0, SIZE)>>
<1>1. blocks = b /\ chunk = -1 /\ pieces = {} /\ SIZE \in Nat
  BY HeapAssumption DEF HeapInit
<1>2. b \in Seq(Blocks) /\ Len(b) = 1 /\ b[1].space = 0 /\ b[1].free = SIZE
  BY <1>1 DEF Block, Blocks
<1>3. 0 % LINE_SIZE = 0
  BY SMT, HeapAssumption
<1> HIDE DEF b
<1>4. Tiles(b)
  <2>1. \A k \in 1 .. 1 : k = 1
    OBVIOUS
  <2>2. 1 .. 1 - 1 = {} /\ SIZE = SIZE - 0
    BY <1>1
  <2> QED BY <1>2, <1>3, <2>1, <2>2 DEF Tiles
<1>5. Used(b) = {}
  <2>1. 1 .. 1 - 1 = {}
    OBVIOUS
  <2> QED BY <1>2, <2>1 DEF Used
<1>6. QED
  BY <1>1, <1>4, <1>5 DEF HeapInv

LEMMA PaddedFits ==
  ASSUME NEW n \in 0 .. SIZE
  PROVE  Padded(n) \in 0 .. 2 * SIZE
<1>1. Padded(n) \in Nat /\ Padded(n) < n + LINE_SIZE
  BY PaddedIs, HeapAssumption
<1>2. PICK p \in Nat : p = Padded(n)
  BY <1>1
<1>3. p < n + LINE_SIZE
  BY <1>1, <1>2
<1>4. p \in 0 .. 2 * SIZE
  BY <1>3, HeapAssumption
<1>5. QED
  BY <1>2, <1>4

\* What moves the heap: the program, and RCCE_flag_alloc and RCCE_flag_free.
Moves == \/ \E size \in Sizes \cup {LINE_SIZE} : Malloc(size)
         \/ \E ptr \in 0 .. SIZE : Free(ptr)
         \/ \E size \in Requests : Request(size)
         \/ Try

LEMMA HeapStep == ASSUME HeapInv, [Moves]_heapVars PROVE HeapInv'
<1>0. Tiles(blocks) /\ pieces = Used(blocks) /\ chunk \in {-1} \cup 0 .. 2 * SIZE /\ SIZE \in Nat
  BY HeapAssumption DEF HeapInv
<1>1. ASSUME NEW size \in Sizes \cup {LINE_SIZE}, Malloc(size) PROVE HeapInv'
  <2>1. size \in Nat /\ Allocate(size) /\ chunk' = chunk
    BY <1>1, HeapAssumption DEF Malloc
  <2> QED BY <1>0, <2>1, AllocateKeeps DEF HeapInv, Tiles, Used, Piece
<1>2. ASSUME NEW ptr \in 0 .. SIZE, Free(ptr) PROVE HeapInv'
  <2>1. chunk' = chunk
    BY <1>2 DEF Free
  <2> QED BY <1>0, <1>2, <2>1, FreeKeeps DEF HeapInv, Tiles, Used, Piece
<1>3. ASSUME NEW size \in Requests, Request(size) PROVE HeapInv'
  <2>1. chunk' \in 0 .. 2 * SIZE /\ blocks' = blocks /\ pieces' = pieces
    BY <1>3, PaddedFits, HeapAssumption DEF Request
  <2> QED BY <1>0, <2>1 DEF HeapInv, Tiles, Used, Piece
<1>4. ASSUME Try PROVE HeapInv'
  <2>1. chunk \in Nat /\ chunk \in 0 .. 2 * SIZE /\ Allocate(chunk)
    BY <1>0, <1>4, HeapAssumption DEF Try
  <2>2. chunk \div 2 \in 0 .. SIZE
    BY <1>0, <2>1
  <2>3. chunk' \in {-1} \cup 0 .. 2 * SIZE
    BY <1>4, <2>2, PaddedFits DEF Try
  <2> QED BY <1>0, <2>1, <2>3, AllocateKeeps DEF HeapInv, Tiles, Used, Piece
<1>5. ASSUME UNCHANGED heapVars PROVE HeapInv'
  BY <1>0, <1>5 DEF heapVars, HeapInv, Tiles, Used, Piece
<1>6. QED
  BY <1>1, <1>2, <1>3, <1>4, <1>5 DEF Moves

LEMMA FlagsMove == ASSUME [Next]_vars PROVE [Moves]_heapVars
<1>1. ASSUME FlagAlloc PROVE [Moves]_heapVars
  <2>1. Malloc(LINE_SIZE) \/ UNCHANGED heapVars
    BY <1>1 DEF FlagAlloc
  <2> QED BY <2>1 DEF Moves
<1>2. ASSUME NEW a \in Addr, NEW loc \in Loc, FlagFree(a, loc) PROVE [Moves]_heapVars
  <2>1. Free(a) \/ UNCHANGED heapVars
    BY <1>2 DEF FlagFree
  <2>2. a \in 0 .. SIZE
    BY HeapAssumption DEF Addr
  <2> QED BY <2>1, <2>2 DEF Moves
<1>3. ASSUME ProgramCalls PROVE [Moves]_heapVars
  BY <1>3 DEF ProgramCalls, Calls, Moves
<1>4. ASSUME UNCHANGED vars PROVE [Moves]_heapVars
  BY <1>4 DEF vars
<1>5. QED
  BY <1>1, <1>2, <1>3, <1>4 DEF Next

LEMMA AloneMoves == ASSUME [HeapNext]_heapVars PROVE [Moves]_heapVars
BY DEF HeapNext, Calls, Moves

LEMMA HeapInductive == Spec => []HeapInv
<1>1. Init => HeapInv
  BY InitTiles DEF Init
<1>2. HeapInv /\ [Next]_vars => HeapInv'
  BY HeapStep, FlagsMove
<1>3. QED
  BY <1>1, <1>2, PTL DEF Spec

LEMMA AloneInductive == HeapSpec => []HeapInv
<1>1. HeapInit => HeapInv
  BY InitTiles
<1>2. HeapInv /\ [HeapNext]_heapVars => HeapInv'
  BY HeapStep, AloneMoves
<1>3. QED
  BY <1>1, <1>2, PTL DEF HeapSpec

-----------------------------------------------------------------------------
(***************************************************************************)
(* What the invariant says of the pieces.                                  *)
(***************************************************************************)
LEMMA InvTiles == ASSUME HeapInv PROVE BlocksTile
<1>1. Tiles(blocks) /\ pieces = Used(blocks) /\ tail \in Nat /\ tail >= 1
  BY Facts DEF HeapInv, tail
<1>2. \A k \in 1 .. tail : blocks[k].space \in Nat /\ blocks[k].free \in Nat
  BY <1>1, Facts DEF tail
<1>3. \A k \in 1 .. tail - 1 : k \in 1 .. tail /\ k + 1 \in 1 .. tail /\ k < k + 1 /\ k # tail
  BY <1>1
<1>4. \A k \in 1 .. tail - 1 : Extent(k) = blocks[k + 1].space - blocks[k].space
  BY <1>3 DEF Extent
<1>5. ASSUME NEW k \in 1 .. tail - 1
      PROVE  Extent(k) > 0 /\ blocks[k].free \in {0, Extent(k)}
  <2>1. blocks[k].space < blocks[k + 1].space
    BY <1>1, <1>3 DEF Tiles, tail
  <2>2. Extent(k) > 0
    BY <1>2, <1>3, <1>4, <2>1, Apart
  <2> QED BY <1>1, <1>4, <2>2 DEF Tiles, tail
<1>6. blocks[tail].free = Extent(tail)
  BY <1>1 DEF Tiles, tail, Extent
<1>7. Used(blocks) = {[addr |-> blocks[k].space, size |-> Extent(k)]
                        : k \in {j \in 1 .. tail - 1 : blocks[j].free = 0}}
  BY <1>4 DEF Used, Piece, tail
<1>8. QED
  BY <1>1, <1>5, <1>6, <1>7 DEF BlocksTile, Tiles, tail

\* Every block lies in the memory managed, a free one with its free bytes.
LEMMA Within ==
  ASSUME HeapInv, SIZE \in Nat, NEW i \in 1 .. tail
  PROVE  blocks[i].space \in 0 .. SIZE /\ blocks[i].space + blocks[i].free <= SIZE
<1> DEFINE n == tail
<1>1. /\ n \in Nat /\ n >= 1 /\ i \in Nat /\ 1 <= i /\ i <= n
      /\ \A k \in 1 .. n : blocks[k].space \in Nat /\ blocks[k].free \in Nat
  <2>1. /\ n \in Nat /\ n >= 1 /\ i \in 1 .. n
        /\ \A k \in 1 .. n : blocks[k].space \in Nat /\ blocks[k].free \in Nat
    BY Facts DEF HeapInv, tail
  <2> HIDE DEF n
  <2> QED BY <2>1
<1>2. /\ \A k, l \in 1 .. n : k < l => blocks[k].space < blocks[l].space
      /\ \A k \in 1 .. n - 1 : blocks[k].free \in {0, blocks[k + 1].space - blocks[k].space}
      /\ blocks[n].free = SIZE - blocks[n].space
  BY DEF HeapInv, Tiles, tail
<1> HIDE DEF n
<1>3. ASSUME NEW k \in 1 .. n PROVE blocks[k].space \in 0 .. SIZE
  <2>1. PICK e \in Nat : e = blocks[n].space
    BY <1>1
  <2>2. PICK u \in Nat : u = blocks[k].space
    BY <1>1
  <2>3. e <= SIZE
    <3>1. SIZE - e \in Nat
      BY <1>1, <1>2, <2>1
    <3> QED BY <3>1
  <2>4. k < n => u < e
    BY <1>1, <1>2, <2>1, <2>2
  <2>5. k < n \/ k = n
    BY <1>1
  <2>6. u <= SIZE
    BY <2>1, <2>2, <2>3, <2>4, <2>5
  <2> QED BY <2>2, <2>6
<1>4. PICK u \in Nat : u = blocks[i].space
  BY <1>1
<1>5. u + blocks[i].free <= SIZE
  <2>1. CASE i = n
    <3>1. blocks[i].free = SIZE - u
      BY <1>2, <1>4, <2>1
    <3> QED BY <3>1
  <2>2. CASE i # n
    <3>1. i \in 1 .. n - 1 /\ i + 1 \in 1 .. n
      BY <1>1, <2>2
    <3>2. PICK v \in 0 .. SIZE : v = blocks[i + 1].space
      BY <1>3, <3>1
    <3>3. blocks[i].free \in {0, v - u}
      BY <1>2, <1>4, <3>1, <3>2
    <3>4. u \in 0 .. SIZE
      BY <1>1, <1>3, <1>4
    <3> QED BY <3>2, <3>3, <3>4
  <2> QED BY <2>1, <2>2
<1>6. QED
  BY <1>1, <1>3, <1>4, <1>5

\* The space handed out overlaps no piece.
LEMMA Grants ==
  ASSUME HeapInv, NEW size \in Nat, ~Refused(size), NEW i \in Fits(size)
  PROVE  blocks[i].space \in Heap!Addresses /\ Heap!Gap(blocks[i].space, size)
<1> DEFINE n == tail
<1>0. i \in 1 .. n /\ blocks[i].free >= size /\ size > 0 /\ size % LINE_SIZE = 0 /\ SIZE \in Nat
  BY HeapAssumption DEF Fits, Refused
<1>1. /\ n \in Nat /\ i \in Nat /\ 1 <= i /\ i <= n
      /\ \A k \in 1 .. n : blocks[k].space \in Nat /\ blocks[k].free \in Nat
  <2>1. /\ n \in Nat /\ i \in 1 .. n
        /\ \A k \in 1 .. n : blocks[k].space \in Nat /\ blocks[k].free \in Nat
    BY <1>0, Facts DEF HeapInv, tail
  <2> HIDE DEF n
  <2> QED BY <2>1
<1>2. /\ \A k, l \in 1 .. n : k < l => blocks[k].space < blocks[l].space
      /\ \A k \in 1 .. n - 1 : blocks[k].free \in {0, blocks[k + 1].space - blocks[k].space}
      /\ \A k \in 1 .. n : blocks[k].space % LINE_SIZE = 0
  BY DEF HeapInv, Tiles, tail
<1>3. PICK a \in Nat : a = blocks[i].space
  BY <1>0, <1>1
<1>4. PICK f \in Nat : f = blocks[i].free
  BY <1>0, <1>1
<1>5. a \in 0 .. SIZE /\ a + f <= SIZE /\ a % LINE_SIZE = 0 /\ f >= size
  BY <1>0, <1>2, <1>3, <1>4, Within
<1>6. a + size <= SIZE
  <2>1. SIZE \in Nat /\ a + f <= SIZE /\ f >= size
    BY <1>0, <1>5
  <2> HIDE DEF n
  <2> QED BY <2>1, Z3
<1>7. ASSUME NEW p \in pieces PROVE ~Heap!Overlap(p, [addr |-> a, size |-> size])
  <2>1. PICK j \in 1 .. n - 1 : blocks[j].free = 0 /\ p = Piece(blocks, j)
    BY <1>7 DEF HeapInv, Used, tail
  <2> HIDE DEF n
  <2>2. j \in Nat /\ j \in 1 .. n /\ j + 1 \in 1 .. n /\ 1 <= j /\ j < n
    BY <1>1, <2>1
  <2>3. PICK u \in Nat : u = blocks[j].space
    BY <1>1, <2>2
  <2>4. PICK v \in Nat : v = blocks[j + 1].space
    BY <1>1, <2>2
  <2>5. p = [addr |-> u, size |-> v - u] /\ u < v
    <3>1. u < v
      BY <1>2, <2>2, <2>3, <2>4
    <3> QED BY <2>1, <2>3, <2>4, <3>1 DEF Piece
  <2>6. v <= a \/ a + size <= u
    <3>1. j # i
      BY <1>0, <1>1, <2>1, <1>4
    <3>2. CASE j < i
      <4>1. j + 1 < i => v < a
        BY <1>0, <1>2, <1>3, <2>2, <2>4
      <4>2. j + 1 = i => v = a
        BY <1>3, <2>4
      <4>3. j + 1 < i \/ j + 1 = i
        BY <1>1, <2>2, <3>2
      <4> QED BY <4>1, <4>2, <4>3
    <3>3. CASE j > i
      <4>1. i \in 1 .. n - 1 /\ i + 1 \in 1 .. n /\ (i + 1 < j \/ i + 1 = j)
        BY <1>1, <2>2, <3>3
      <4>2. PICK w \in Nat : w = blocks[i + 1].space
        BY <1>1, <4>1
      <4>3. f \in {0, w - a}
        BY <1>2, <1>3, <1>4, <4>1, <4>2
      <4>4. a + size <= w
        BY <1>0, <1>5, <4>3
      <4>5. i + 1 < j => w < u
        BY <1>2, <2>2, <2>3, <4>1, <4>2
      <4>6. i + 1 = j => w = u
        BY <2>3, <4>2
      <4> QED BY <4>1, <4>4, <4>5, <4>6
    <3> QED BY <1>1, <2>2, <3>1, <3>2, <3>3
  <2>7. p.addr = u /\ p.size = v - u /\ u + (v - u) = v
    BY <2>5
  <2>8. ~(u < a + size /\ a < v)
    BY <2>6
  <2> QED BY <2>7, <2>8 DEF Heap!Overlap
<1>8. QED
  BY <1>0, <1>3, <1>5, <1>6, <1>7 DEF Heap!Addresses, Heap!Gap

\* The block that an address lies in.
LEMMA BlockOf ==
  ASSUME HeapInv, NEW a \in Nat
  PROVE  \E k \in 1 .. tail : /\ blocks[k].space <= a
                              /\ k = tail \/ a < blocks[k + 1].space
<1> DEFINE n == tail
           Behind == {k \in 1 .. n : blocks[k].space > a}
<1>1. /\ n \in Nat /\ n >= 1 /\ blocks[1].space = 0
      /\ \A k \in 1 .. n : blocks[k].space \in Nat
      /\ \A k, l \in 1 .. n : k < l => blocks[k].space < blocks[l].space
  <2>1. Tiles(blocks)
    BY DEF HeapInv
  <2> QED BY <2>1, Facts DEF Tiles, tail
<1> HIDE DEF n
<1>2. CASE Behind = {}
  <2>1. n \in 1 .. n
    BY <1>1
  <2>2. blocks[n].space \in Nat /\ ~(blocks[n].space > a)
    BY <1>1, <1>2, <2>1
  <2>3. blocks[n].space <= a
    BY <2>2
  <2> QED BY <2>1, <2>3 DEF n
<1>3. CASE Behind # {}
  <2>1. Behind \subseteq Nat
    OBVIOUS
  <2>2. PICK j \in Behind : \A k \in Behind : j <= k
    <3> HIDE DEF Behind
    <3> QED BY <1>3, <2>1, Least
  <2>3. j \in 1 .. n /\ j \in Nat /\ blocks[j].space > a /\ j # 1
    BY <1>1, <2>2
  <2>4. PICK k \in Nat : k = j - 1
    BY <2>3
  <2>5. k \in 1 .. n /\ k + 1 = j /\ ~(j <= k)
    BY <1>1, <2>3, <2>4
  <2>6. ~(blocks[k].space > a) /\ blocks[k].space \in Nat
    BY <1>1, <2>2, <2>5
  <2>7. blocks[k].space <= a /\ a < blocks[k + 1].space
    <3>1. PICK x \in Nat : x = blocks[j].space
      BY <1>1, <2>3
    <3> QED BY <2>3, <2>5, <2>6, <3>1
  <2> QED BY <2>5, <2>7 DEF n
<1>4. QED
  BY <1>2, <1>3

\* NULL is returned only when there is no gap: the block an address lies in is
\* a piece, or free and too small, and then a piece is behind it.
LEMMA Refusal ==
  ASSUME HeapInv, NEW size \in Nat, Refused(size) \/ Fits(size) = {},
         NEW a \in Nat
  PROVE  ~Heap!Gap(a, size)
<1> SUFFICES ASSUME Heap!Gap(a, size) PROVE FALSE
  OBVIOUS
<1> DEFINE n == tail
<1>1. /\ size > 0 /\ a + size <= SIZE /\ SIZE \in Nat /\ Fits(size) = {}
      /\ \A p \in pieces : ~Heap!Overlap(p, [addr |-> a, size |-> size])
  BY HeapAssumption DEF Heap!Gap, Refused
<1>2. /\ n \in Nat
      /\ \A k \in 1 .. n : blocks[k].space \in Nat /\ blocks[k].free \in Nat
      /\ \A k \in 1 .. n : ~(blocks[k].free >= size)
      /\ \A k, l \in 1 .. n : k < l => blocks[k].space < blocks[l].space
      /\ \A k \in 1 .. n - 1 :
           /\ blocks[k].free \in {0, blocks[k + 1].space - blocks[k].space}
           /\ blocks[k].free > 0 => blocks[k + 1].free = 0 /\ k + 1 # n
      /\ blocks[n].free = SIZE - blocks[n].space
  <2>1. Tiles(blocks)
    BY DEF HeapInv
  <2>2. \A k \in 1 .. n : ~(blocks[k].free >= size)
    BY <1>1 DEF Fits
  <2> QED BY <2>1, <2>2, Facts DEF Tiles, tail
\* No block in use overlaps what is asked for.
<1>3. ASSUME NEW j \in 1 .. n - 1, blocks[j].free = 0,
             NEW u \in Nat, u = blocks[j].space, NEW v \in Nat, v = blocks[j + 1].space
      PROVE  ~(u < a + size /\ a < v)
  <2>1. Piece(blocks, j) \in pieces
    BY <1>3 DEF HeapInv, Used, tail
  <2>2. Piece(blocks, j).addr = u /\ Piece(blocks, j).size = v - u
    BY <1>3 DEF Piece
  <2>3. ~(u < a + size /\ a < u + (v - u))
    BY <1>1, <2>1, <2>2 DEF Heap!Overlap
  <2>4. u + (v - u) = v
    OBVIOUS
  <2> QED BY <2>3, <2>4
<1>4. PICK k \in 1 .. n : blocks[k].space <= a /\ (k = n \/ a < blocks[k + 1].space)
  BY BlockOf
<1> HIDE DEF n
<1>5. PICK x \in Nat : x = blocks[k].space
  BY <1>2
<1>6. PICK f \in Nat : f = blocks[k].free
  BY <1>2
<1>7. x <= a /\ f < size
  <2>1. ~(f >= size)
    BY <1>2, <1>6
  <2> QED BY <1>4, <1>5, <2>1
<1>8. CASE k = n
  <2>1. f = SIZE - x
    BY <1>2, <1>5, <1>6, <1>8
  <2> QED BY <1>1, <1>7, <2>1
<1>9. CASE k # n
  <2>1. k \in Nat /\ k \in 1 .. n - 1 /\ k + 1 \in 1 .. n
    BY <1>2, <1>9
  <2>2. PICK y \in Nat : y = blocks[k + 1].space
    BY <1>2, <2>1
  <2>3. a < y /\ f \in {0, y - x}
    BY <1>2, <1>4, <1>5, <1>6, <1>9, <2>1, <2>2
  <2>4. CASE f = 0
    <3>1. ~(x < a + size /\ a < y)
      BY <1>3, <1>5, <1>6, <2>1, <2>2, <2>4
    <3>2. x < a + size
      BY <1>1, <1>7
    <3> QED BY <2>3, <3>1, <3>2
  <2>5. CASE f # 0
    <3>1. f > 0 /\ f = y - x
      BY <2>3, <2>5
    <3>2. blocks[k + 1].free = 0 /\ k + 1 # n
      BY <1>2, <1>6, <2>1, <3>1
    <3>3. PICK l \in Nat : l = k + 1
      BY <2>1
    <3>4. l \in 1 .. n - 1 /\ l \in 1 .. n /\ l + 1 \in 1 .. n /\ l < l + 1
      BY <1>2, <2>1, <3>2, <3>3
    <3>5. PICK w \in Nat : w = blocks[l + 1].space
      BY <1>2, <3>4
    <3>6. y < w
      BY <1>2, <2>2, <3>3, <3>4, <3>5
    <3>7. ~(y < a + size /\ a < w)
      BY <1>3, <2>2, <3>2, <3>3, <3>4, <3>5
    <3>8. a + size <= y
      BY <2>3, <3>6, <3>7
    <3> QED BY <1>7, <3>1, <3>8
  <2> QED BY <2>4, <2>5
<1>10. QED
  BY <1>8, <1>9

-----------------------------------------------------------------------------
(***************************************************************************)
(* Every step is a step of the abstract heap.                              *)
(***************************************************************************)
LEMMA AllocateRefines ==
  ASSUME HeapInv, NEW size \in Nat, Allocate(size)
  PROVE  Heap!Malloc(size)
<1>1. asked' = size
  BY DEF Allocate
<1>2. CASE Refused(size) \/ Fits(size) = {}
  <2>1. answer' = -1 /\ pieces' = pieces
    BY <1>2 DEF Allocate
  <2>2. \A a \in Heap!Addresses : ~Heap!Gap(a, size)
    <3>1. Heap!Addresses \subseteq Nat
      BY DEF Heap!Addresses
    <3> QED BY <1>2, <3>1, Refusal
  <2> QED BY <1>1, <2>1, <2>2 DEF Heap!Malloc
<1>3. CASE ~(Refused(size) \/ Fits(size) = {})
  <2>1. PICK i \in Fits(size) : i = Chosen(size)
    BY <1>3, ChosenFits
  <2>2. /\ answer' = blocks[i].space
        /\ pieces' = pieces \cup {[addr |-> blocks[i].space, size |-> size]}
    BY <1>3, <2>1 DEF Allocate
  <2>3. blocks[i].space \in Heap!Addresses /\ Heap!Gap(blocks[i].space, size)
    BY <1>3, Grants
  <2> QED BY <1>1, <2>2, <2>3 DEF Heap!Malloc
<1>4. QED
  BY <1>2, <1>3

LEMMA StepRefines ==
  ASSUME HeapInv, [Moves]_heapVars
  PROVE  [Heap!Next]_<<pieces, asked, answer>>
<1>1. ASSUME NEW size \in Sizes \cup {LINE_SIZE}, Malloc(size) PROVE Heap!Next
  <2>1. size \in Nat /\ Allocate(size) /\ size \in Sizes \cup 0 .. 2 * SIZE
    BY <1>1, HeapAssumption DEF Malloc
  <2> QED BY <2>1, AllocateRefines DEF Heap!Next
<1>2. ASSUME NEW ptr \in 0 .. SIZE, Free(ptr) PROVE Heap!Next
  BY <1>2 DEF Free, Heap!Free, Heap!Next
<1>3. ASSUME NEW size \in Requests, Request(size) PROVE UNCHANGED <<pieces, asked, answer>>
  BY <1>3 DEF Request
<1>4. ASSUME Try PROVE Heap!Next
  <2>1. chunk \in Nat /\ chunk \in 0 .. 2 * SIZE /\ Allocate(chunk)
    BY <1>4, HeapAssumption DEF Try, HeapInv
  <2> QED BY <2>1, AllocateRefines DEF Heap!Next
<1>5. ASSUME UNCHANGED heapVars PROVE UNCHANGED <<pieces, asked, answer>>
  BY <1>5 DEF heapVars
<1>6. QED
  BY <1>1, <1>2, <1>3, <1>4, <1>5 DEF Moves

\* The blocks always partition the memory, each used by exactly one piece or
\* free as a whole, and no two neighbours are free: the lists that RCCE_malloc
\* and RCCE_free leave behind, whatever the program and RCCE_flag_alloc allocate
\* and free, in any order.
THEOREM MemoryTiled == Spec => []BlocksTile
<1>1. HeapInv => BlocksTile
  BY InvTiles
<1>2. QED
  BY <1>1, HeapInductive, PTL

\* The allocator implements the abstract heap, for the program and the flags
\* together: what RCCE_malloc hands out overlaps nothing in use, and it returns
\* NULL only when no gap is large enough.
THEOREM HeapRefined == Spec => ImplementsHeap
<1>1. Init => Heap!Init
  BY DEF Init, HeapInit, Heap!Init
<1>2. HeapInv /\ [Next]_vars => [Heap!Next]_<<pieces, asked, answer>>
  BY StepRefines, FlagsMove
<1>3. QED
  BY <1>1, <1>2, HeapInductive, PTL DEF Spec, ImplementsHeap, Heap!Spec

\* Both hold of RCCE_malloc, RCCE_free and RCCE_malloc_request by themselves.
THEOREM HeapAlone == HeapSpec => []BlocksTile /\ ImplementsHeap
<1>1. HeapInv => BlocksTile
  BY InvTiles
<1>2. HeapInit => Heap!Init
  BY DEF HeapInit, Heap!Init
<1>3. HeapInv /\ [HeapNext]_heapVars => [Heap!Next]_<<pieces, asked, answer>>
  BY StepRefines, AloneMoves
<1>4. QED
  BY <1>1, <1>2, <1>3, AloneInductive, PTL DEF HeapSpec, ImplementsHeap, Heap!Spec
-----------------------------------------------------------------------------
(***************************************************************************)
(* The flags, in the build with one byte for each, when none is asked for  *)
(* in vain.                                                                *)
(***************************************************************************)
ByteFlags == FLAGS_PER_BYTE = 1 /\ Uses = {}

FlagLine   == [addr : {-1} \cup Addr, members : Nat, flag : [Loc -> {0, 1}]]
Ones(e)    == {l \in Loc : e.flag[l] = 1}
OneLine(a) == [addr |-> a, size |-> LINE_SIZE]

\* A line e agrees with the owners o, and its place is one of the pieces P.
Good(e, o, P) ==
  /\ e \in FlagLine /\ e.members = Cardinality(Ones(e))
  /\ e.addr = -1 => e.members = 0
  /\ e.addr # -1 => OneLine(e.addr) \in P /\ \A l \in Loc : o[<<e.addr, l>>] = e.flag[l]

\* So do the lines L, which are in different places, and no flag is lost.
Core(L, o, P) ==
  /\ L \in Seq(FlagLine) /\ Len(L) >= 1
  /\ o \in [Addr \X Loc -> {0, 1}]
  /\ \A i \in 1 .. Len(L) : Good(L[i], o, P)
  /\ \A i, j \in 1 .. Len(L) : L[i].addr = L[j].addr => i = j
  /\ \A a \in Addr, l \in Loc : o[<<a, l>>] = 1 => \E i \in 1 .. Len(L) : L[i].addr = a

\* Only the first may be without a flag.
Counted(L) == \A i \in 2 .. Len(L) : L[i].members > 0

\* The inductive invariant.
FlagInv == Core(lines, owners, pieces) /\ Counted(lines)

LEMMA LocIs ==
  ASSUME ByteFlags
  PROVE  /\ FLAGS_PER_LINE = LINE_SIZE /\ Loc = 0 .. LINE_SIZE - 1
         /\ 0 \in Loc /\ Loc \subseteq Nat
         /\ IsFiniteSet(Loc) /\ Cardinality(Loc) = LINE_SIZE
<1>1. FLAGS_PER_LINE = LINE_SIZE
  BY HeapAssumption DEF ByteFlags, FLAGS_PER_LINE
<1>2. Loc = 0 .. LINE_SIZE - 1
  BY <1>1 DEF Loc
<1>3. IsFiniteSet(0 .. LINE_SIZE - 1) /\ Cardinality(0 .. LINE_SIZE - 1) = LINE_SIZE
  <2>1. LINE_SIZE \in Nat /\ LINE_SIZE > 0
    BY HeapAssumption
  <2>2. 0 \in Int /\ LINE_SIZE - 1 \in Int /\ ~(0 > LINE_SIZE - 1)
        /\ LINE_SIZE - 1 - 0 + 1 = LINE_SIZE
    BY <2>1
  <2>3. /\ IsFiniteSet(0 .. LINE_SIZE - 1)
        /\ Cardinality(0 .. LINE_SIZE - 1) = IF 0 > LINE_SIZE - 1 THEN 0 ELSE LINE_SIZE - 1 - 0 + 1
    BY <2>2, FS_Interval
  <2> QED BY <2>2, <2>3
<1>4. 0 \in Loc /\ Loc \subseteq Nat
  BY <1>2, HeapAssumption
<1>5. QED
  BY <1>1, <1>2, <1>3, <1>4

LEMMA OnesFinite ==
  ASSUME ByteFlags, NEW e
  PROVE  IsFiniteSet(Ones(e)) /\ Cardinality(Ones(e)) \in Nat
         /\ Cardinality(Ones(e)) <= LINE_SIZE
         /\ (Cardinality(Ones(e)) = LINE_SIZE => Ones(e) = Loc)
         /\ (Cardinality(Ones(e)) = 0 => Ones(e) = {})
<1>1. Ones(e) \in SUBSET Loc
  BY DEF Ones
<1>2. IsFiniteSet(Loc) /\ Cardinality(Loc) = LINE_SIZE
  BY LocIs
<1>3. /\ IsFiniteSet(Ones(e)) /\ Cardinality(Ones(e)) <= Cardinality(Loc)
      /\ Cardinality(Loc) = Cardinality(Ones(e)) => Loc = Ones(e)
  BY <1>1, <1>2, FS_Subset
<1>4. Cardinality(Ones(e)) \in Nat
  BY <1>3, FS_CardinalityType
<1>5. Cardinality(Ones(e)) = 0 => Ones(e) = {}
  BY <1>3, FS_EmptySet
<1>6. QED
  BY <1>2, <1>3, <1>4, <1>5

\* One flag of line i, which is at a or has just got this place, is set to v.
IsSet(M, q, L, o, P, i, a, l, v, e) ==
  /\ i \in 1 .. Len(L) /\ a \in Addr /\ l \in Loc /\ v \in {0, 1} /\ OneLine(a) \in P
  /\ \A j \in 1 .. Len(L) : j # i => L[j].addr # a
  /\ \A k \in Loc : o[<<a, k>>] = L[i].flag[k]
  /\ L[i].addr \in {-1, a}
  /\ e \in FlagLine /\ e.addr = a /\ e.members = Cardinality(Ones(e))
  /\ \A k \in Loc : e.flag[k] = IF k = l THEN v ELSE L[i].flag[k]
  /\ M \in Seq(FlagLine) /\ Len(M) = Len(L) /\ M[i] = e
  /\ \A j \in 1 .. Len(L) : j # i => M[j] = L[j]
  /\ q \in [Addr \X Loc -> {0, 1}] /\ q[<<a, l>>] = v
  /\ \A b \in Addr, k \in Loc : <<b, k>> # <<a, l>> => q[<<b, k>>] = o[<<b, k>>]

LEMMA SetKeeps ==
  ASSUME NEW L, NEW o, NEW P, Core(L, o, P), NEW M, NEW q, NEW i, NEW a, NEW l, NEW v, NEW e,
         IsSet(M, q, L, o, P, i, a, l, v, e)
  PROVE  Core(M, q, P)
<1>0. a # -1
  BY DEF IsSet, Addr
<1>1. ASSUME NEW j \in 1 .. Len(L) PROVE Good(M[j], q, P)
  <2>1. CASE j = i
    <3>1. M[j] = e /\ e \in FlagLine /\ e.addr = a /\ e.members = Cardinality(Ones(e))
      BY <2>1 DEF IsSet
    <3>2. ASSUME NEW k \in Loc PROVE q[<<a, k>>] = e.flag[k]
      <4>1. CASE k = l
        BY <4>1 DEF IsSet
      <4>2. CASE k # l
        <5>1. <<a, k>> # <<a, l>>
          BY <4>2
        <5> QED BY <4>2, <5>1 DEF IsSet
      <4> QED BY <4>1, <4>2
    <3>3. OneLine(a) \in P
      BY DEF IsSet
    <3> QED BY <1>0, <3>1, <3>2, <3>3 DEF Good
  <2>2. CASE j # i
    <3>1. M[j] = L[j] /\ L[j].addr # a /\ Good(L[j], o, P)
      BY <2>2 DEF IsSet, Core
    <3>2. ASSUME L[j].addr # -1, NEW k \in Loc PROVE q[<<L[j].addr, k>>] = L[j].flag[k]
      <4>1. L[j].addr \in Addr /\ <<L[j].addr, k>> # <<a, l>>
        BY <3>1, <3>2 DEF Good, FlagLine
      <4>2. q[<<L[j].addr, k>>] = o[<<L[j].addr, k>>]
        BY <4>1 DEF IsSet
      <4> QED BY <3>1, <3>2, <4>2 DEF Good
    <3> QED BY <3>1, <3>2 DEF Good
  <2> QED BY <2>1, <2>2
<1>2. ASSUME NEW j \in 1 .. Len(L), NEW k \in 1 .. Len(L), M[j].addr = M[k].addr PROVE j = k
  <2>1. \A m \in 1 .. Len(L) : M[m].addr = IF m = i THEN a ELSE L[m].addr
    BY DEF IsSet
  <2>2. \A m \in 1 .. Len(L) : m # i => L[m].addr # a
    BY DEF IsSet
  <2>3. L[j].addr = L[k].addr => j = k
    BY DEF Core
  <2> QED BY <1>2, <2>1, <2>2, <2>3
<1>3. ASSUME NEW b \in Addr, NEW k \in Loc, q[<<b, k>>] = 1
      PROVE  \E j \in 1 .. Len(L) : M[j].addr = b
  <2>1. CASE b = a
    BY <2>1 DEF IsSet
  <2>2. CASE b # a
    <3>1. <<b, k>> # <<a, l>>
      BY <2>2
    <3>2. o[<<b, k>>] = 1
      BY <1>3, <3>1 DEF IsSet
    <3>3. PICK j \in 1 .. Len(L) : L[j].addr = b
      BY <3>2 DEF Core
    <3>4. b # -1
      BY DEF Addr
    <3>5. j # i
      BY <2>2, <3>3, <3>4 DEF IsSet
    <3> QED BY <3>3, <3>5 DEF IsSet
  <2> QED BY <2>1, <2>2
<1>4. Len(M) = Len(L) /\ M \in Seq(FlagLine) /\ q \in [Addr \X Loc -> {0, 1}] /\ Len(L) >= 1
  BY DEF IsSet, Core
<1>5. QED
  BY <1>1, <1>2, <1>3, <1>4 DEF Core

\* A line e is put behind those of L, at a place where none of them is.
IsNew(q, L, o, P, a, e) ==
  /\ a \in Addr /\ OneLine(a) \in P /\ \A j \in 1 .. Len(L) : L[j].addr # a
  /\ e \in FlagLine /\ e.addr = a /\ e.members = Cardinality(Ones(e))
  /\ q \in [Addr \X Loc -> {0, 1}] /\ \A k \in Loc : q[<<a, k>>] = e.flag[k]
  /\ \A b \in Addr, k \in Loc : b # a => q[<<b, k>>] = o[<<b, k>>]

LEMMA AppendKeeps ==
  ASSUME NEW L, NEW o, NEW P, Core(L, o, P), NEW q, NEW a, NEW e, IsNew(q, L, o, P, a, e)
  PROVE  Core(Append(L, e), q, P)
<1> SUFFICES ASSUME a \in Addr, OneLine(a) \in P, \A j \in 1 .. Len(L) : L[j].addr # a,
                    e \in FlagLine, e.addr = a, e.members = Cardinality(Ones(e)),
                    q \in [Addr \X Loc -> {0, 1}], \A k \in Loc : q[<<a, k>>] = e.flag[k],
                    \A b \in Addr, k \in Loc : b # a => q[<<b, k>>] = o[<<b, k>>]
             PROVE  Core(Append(L, e), q, P)
  BY DEF IsNew
<1> DEFINE n == Len(L)
           M == Append(L, e)
<1>0. L \in Seq(FlagLine) /\ n >= 1 /\ a # -1
  BY DEF Core, Addr
<1>1. M \in Seq(FlagLine) /\ Len(M) = n + 1 /\ M[n + 1] = e /\ \A j \in 1 .. n : M[j] = L[j]
  BY <1>0, AppendProperties
<1>2. n \in Nat
  BY <1>0
<1> HIDE DEF n, M
<1>3. n + 1 \in 1 .. n + 1 /\ \A j \in 1 .. n + 1 : j = n + 1 \/ j \in 1 .. n
  BY <1>2
<1>4. \A j \in 1 .. n : j \in 1 .. n + 1
  BY <1>2
<1>5. Good(e, q, P)
  BY <1>0 DEF Good
<1>6. ASSUME NEW j \in 1 .. n PROVE Good(L[j], q, P) /\ L[j].addr # a
  <2>1. Good(L[j], o, P) /\ L[j].addr # a
    BY DEF Core, n
  <2>2. L[j].addr # -1 => L[j].addr \in Addr
    BY <2>1 DEF Good, FlagLine
  <2> QED BY <2>1, <2>2 DEF Good
<1>7. \A j, k \in 1 .. n : L[j].addr = L[k].addr => j = k
  BY DEF Core, n
<1>8. ASSUME NEW b \in Addr, NEW k \in Loc, q[<<b, k>>] = 1
      PROVE  \E j \in 1 .. n + 1 : M[j].addr = b
  <2>1. b # a => \E j \in 1 .. n : L[j].addr = b
    BY <1>8 DEF Core, n
  <2> QED BY <1>1, <1>3, <1>4, <2>1
<1>9. \A j \in 1 .. n + 1 : Good(M[j], q, P)
  BY <1>1, <1>3, <1>5, <1>6
<1>10. ASSUME NEW j \in 1 .. n + 1, NEW k \in 1 .. n + 1, M[j].addr = M[k].addr PROVE j = k
  BY <1>1, <1>3, <1>6, <1>7, <1>10
<1>11. QED
  <2>1. n + 1 >= 1
    BY <1>2
  <2> QED BY <1>1, <1>8, <1>9, <1>10, <2>1 DEF Core, M

\* Line i has no flags left and is spliced out; its piece may go.
LEMMA DropKeeps ==
  ASSUME ByteFlags, NEW L, NEW o, NEW P, Core(L, o, P), NEW i \in 2 .. Len(L), L[i].members = 0,
         L[i].addr # -1, NEW Q, \A p \in P : p.addr # L[i].addr => p \in Q,
         \A j \in 2 .. Len(L) : j # i => L[j].members > 0
  PROVE  LET M == SubSeq(L, 1, i - 1) \o SubSeq(L, i + 1, Len(L))
         IN  Core(M, o, Q) /\ Counted(M)
<1> DEFINE n == Len(L)
           M == SubSeq(L, 1, i - 1) \o SubSeq(L, i + 1, Len(L))
<1>0. L \in Seq(FlagLine) /\ n \in Nat
  BY DEF Core
<1>1. i \in Nat /\ 2 <= i /\ i <= n
  <2> HIDE DEF n
  <2>1. i \in 2 .. n
    BY DEF n
  <2> QED BY <1>0, <2>1
<1>2. PICK a \in Nat : a = i - 1
  BY <1>1
<1>3. PICK z \in Nat : z = i + 1
  BY <1>1
<1>4. IsSpliced(M, FlagLine, L, <<>>, a, z)
  <2>1. a < z /\ z <= n + 1 /\ a <= n
    <3> HIDE DEF n
    <3> QED BY <1>0, <1>1, <1>2, <1>3
  <2>2. << >> \in Seq(FlagLine)
    OBVIOUS
  <2>3. SubSeq(L, 1, a) \in Seq(FlagLine)
    <3>1. \A k \in 1 .. a : L[k] \in FlagLine
      BY <1>0, <2>1
    <3> QED BY <3>1, SubSeqProperties
  <2>4. M = SubSeq(L, 1, a) \o <<>> \o SubSeq(L, z, Len(L))
    BY <1>2, <1>3, <2>3, ConcatEmptySeq
  <2> HIDE DEF M
  <2> QED BY <1>0, <2>1, <2>2, <2>4, Spliced
<1> HIDE DEF M
<1>5. /\ M \in Seq(FlagLine) /\ Len(M) = a + 0 + (n + 1 - z)
      /\ \A k \in 1 .. a : M[k] = L[k]
      /\ \A k \in a + 0 + 1 .. Len(M) : M[k] = L[k + (z - 1 - (a + 0))]
  <2>1. Len(<< >>) = 0
    OBVIOUS
  <2> QED BY <1>4, <2>1 DEF IsSpliced
<1> HIDE DEF n
<1>6. Len(M) = n - 1 /\ n - 1 >= 1 /\ n - 1 \in Nat
  BY <1>0, <1>1, <1>2, <1>3, <1>5
\* Where a line comes from.
<1> DEFINE from(k) == IF k < i THEN k ELSE k + 1
<1>7. ASSUME NEW k \in 1 .. n - 1
      PROVE  from(k) \in 1 .. n /\ from(k) # i /\ M[k] = L[from(k)]
             /\ (k \in 2 .. n - 1 => from(k) \in 2 .. n)
  <2>0. k \in Nat /\ 1 <= k /\ k <= n - 1
    BY <1>6
  <2>1. CASE k < i
    <3>1. k \in 1 .. a /\ k \in 1 .. n /\ k # i /\ (k \in 2 .. n - 1 => k \in 2 .. n)
      BY <1>0, <1>1, <1>2, <2>0, <2>1
    <3> QED BY <1>5, <2>1, <3>1
  <2>2. CASE k >= i
    <3>1. k \in a + 0 + 1 .. Len(M) /\ k + (z - 1 - (a + 0)) = k + 1
      BY <1>0, <1>1, <1>2, <1>3, <1>6, <2>0, <2>2
    <3>2. ~(k < i) /\ k + 1 \in 1 .. n /\ k + 1 # i /\ k + 1 \in 2 .. n
      BY <1>0, <1>1, <2>0, <2>2
    <3> QED BY <1>5, <3>1, <3>2
  <2> QED BY <1>1, <2>0, <2>1, <2>2
<1>8. ASSUME NEW j \in 1 .. n, j # i
      PROVE  \E k \in 1 .. n - 1 : M[k] = L[j]
  <2>0. j \in Nat /\ 1 <= j /\ j <= n
    BY <1>0
  <2>1. CASE j < i
    <3>1. j \in 1 .. n - 1 /\ from(j) = j
      BY <1>0, <1>1, <2>0, <2>1
    <3> QED BY <1>7, <3>1
  <2>2. CASE j > i
    <3>1. PICK k \in Nat : k = j - 1
      BY <2>0
    <3>2. k \in 1 .. n - 1 /\ from(k) = j
      BY <1>0, <1>1, <2>0, <2>2, <3>1
    <3> QED BY <1>7, <3>2
  <2> QED BY <1>1, <1>8, <2>0, <2>1, <2>2
<1>9. ASSUME NEW j \in 1 .. n - 1, NEW k \in 1 .. n - 1, from(j) = from(k) PROVE j = k
  BY <1>0, <1>1, <1>9
<1> HIDE DEF from
<1>10. /\ \A j \in 1 .. n : Good(L[j], o, P)
       /\ \A j, k \in 1 .. n : L[j].addr = L[k].addr => j = k
       /\ \A j \in 2 .. n : j # i => L[j].members > 0
       /\ o \in [Addr \X Loc -> {0, 1}]
       /\ \A b \in Addr, l \in Loc : o[<<b, l>>] = 1 => \E j \in 1 .. n : L[j].addr = b
       /\ i \in 1 .. n
  BY <1>0, <1>1 DEF Core, n
<1>11. ASSUME NEW k \in 1 .. n - 1 PROVE Good(M[k], o, Q)
  <2>1. Good(L[from(k)], o, P) /\ L[from(k)].addr # L[i].addr
    BY <1>7, <1>10
  <2>2. OneLine(L[from(k)].addr).addr = L[from(k)].addr
    BY DEF OneLine
  <2> QED BY <1>7, <2>1, <2>2 DEF Good
<1>12. ASSUME NEW j \in 1 .. n - 1, NEW k \in 1 .. n - 1, M[j].addr = M[k].addr PROVE j = k
  BY <1>7, <1>9, <1>10, <1>12
<1>13. ASSUME NEW b \in Addr, NEW l \in Loc, o[<<b, l>>] = 1
       PROVE  \E k \in 1 .. n - 1 : M[k].addr = b
  <2>1. PICK j \in 1 .. n : L[j].addr = b
    BY <1>10, <1>13
  <2>2. j # i
    <3>1. SUFFICES ASSUME j = i PROVE FALSE
      OBVIOUS
    <3>2. Good(L[i], o, P)
      BY <1>10
    <3>3. Ones(L[i]) = {}
      BY <3>2, OnesFinite DEF Good
    <3>4. L[i].flag[l] = 1
      BY <1>13, <2>1, <3>1, <3>2 DEF Good
    <3> QED BY <3>3, <3>4 DEF Ones
  <2> QED BY <1>8, <2>1, <2>2
<1>14. Core(M, o, Q)
  BY <1>5, <1>6, <1>10, <1>11, <1>12, <1>13 DEF Core
<1>15. Counted(M)
  <2> SUFFICES ASSUME NEW k \in 2 .. n - 1 PROVE M[k].members > 0
    BY <1>6 DEF Counted
  <2>1. k \in 1 .. n - 1
    BY <1>6
  <2> QED BY <1>7, <1>10, <2>1
<1>16. QED
  BY <1>14, <1>15 DEF M

\* A piece of one line, handed out now, is at a place where none was before.
LEMMA Granted ==
  ASSUME HeapInv, NEW size \in Nat, Allocate(size)
  PROVE  /\ pieces \subseteq pieces'
         /\ answer' = -1 => pieces' = pieces
         /\ answer' # -1 /\ size = LINE_SIZE =>
              /\ answer' \in Addr /\ OneLine(answer') \in pieces'
              /\ \A a \in Addr : OneLine(a) \in pieces => a # answer'
<1>1. CASE Refused(size) \/ Fits(size) = {}
  BY <1>1 DEF Allocate
<1>2. CASE ~(Refused(size) \/ Fits(size) = {})
  <2>1. PICK i \in Fits(size) : i = Chosen(size)
    BY <1>2, ChosenFits
  <2>2. /\ answer' = blocks[i].space
        /\ pieces' = pieces \cup {[addr |-> blocks[i].space, size |-> size]}
    BY <1>2, <2>1 DEF Allocate
  <2>3. blocks[i].space \in Heap!Addresses /\ Heap!Gap(blocks[i].space, size)
    BY <1>2, <2>1, Grants
  <2>4. PICK x \in Nat : x = blocks[i].space
    BY <2>3 DEF Heap!Addresses
  <2>5. /\ x % LINE_SIZE = 0 /\ x \in 0 .. SIZE /\ size > 0 /\ x + size <= SIZE
        /\ \A p \in pieces : ~Heap!Overlap(p, [addr |-> x, size |-> size])
    BY <2>3, <2>4 DEF Heap!Addresses, Heap!Gap
  <2>6. x \in Addr
    <3>1. x \in 0 .. SIZE - 1
      BY <2>4, <2>5, HeapAssumption
    <3> QED BY <2>5, <3>1 DEF Addr
  <2>7. ASSUME size = LINE_SIZE, NEW a \in Addr, OneLine(a) \in pieces PROVE a # x
    <3>1. SUFFICES ASSUME a = x PROVE FALSE
      OBVIOUS
    <3>2. Heap!Overlap(OneLine(a), [addr |-> x, size |-> size])
      <4>1. x < x + LINE_SIZE
        BY <2>4, HeapAssumption
      <4>2. OneLine(a).addr = x /\ OneLine(a).size = LINE_SIZE
        BY <3>1 DEF OneLine
      <4> QED BY <2>7, <4>1, <4>2 DEF Heap!Overlap
    <3> QED BY <2>5, <2>7, <3>2
  <2>8. answer' # -1
    BY <2>2, <2>4
  <2> QED BY <2>2, <2>4, <2>6, <2>7, <2>8 DEF OneLine
<1>3. QED
  BY <1>1, <1>2

\* Lines whose pieces are still there stay good.
LEMMA PiecesKeep ==
  ASSUME NEW L, NEW o, NEW P, Core(L, o, P), NEW Q,
         \A i \in 1 .. Len(L) : OneLine(L[i].addr) \in P => OneLine(L[i].addr) \in Q
  PROVE  Core(L, o, Q)
<1>1. ASSUME NEW i \in 1 .. Len(L) PROVE Good(L[i], o, Q)
  BY DEF Core, Good
<1>2. QED
  BY <1>1 DEF Core

\* RCCE_flag_alloc in a line of the list.
LEMMA AllocKeeps ==
  ASSUME ByteFlags, NEW P, Core(lines, owners, P), Counted(lines),
         NEW i \in 1 .. Len(lines), NEW a \in Addr, OneLine(a) \in P,
         \/ lines[i].addr = a /\ lines[i].members < LINE_SIZE
         \/ lines[i].addr = -1 /\ \A j \in 1 .. Len(lines) : lines[j].addr # a,
         AllocInLine(i, a)
  PROVE  Core(lines', owners', P) /\ Counted(lines')
<1> DEFINE e == lines[i]
           l == FirstUnused(e)
           ne == [addr |-> a, members |-> e.members + 1, flag |-> [e.flag EXCEPT ![l] = 1]]
<1>1. /\ lines \in Seq(FlagLine) /\ owners \in [Addr \X Loc -> {0, 1}]
      /\ Good(e, owners, P) /\ e \in FlagLine
      /\ e.members \in Nat /\ e.flag \in [Loc -> {0, 1}]
  BY DEF Core, Good, FlagLine
<1>2. e.members < LINE_SIZE /\ e.members = Cardinality(Ones(e))
  BY <1>1, HeapAssumption DEF Good
<1>3. Unused(e) # {}
  <2>1. Ones(e) # Loc
    BY <1>2, LocIs, HeapAssumption
  <2>2. PICK k \in Loc : e.flag[k] # 1
    BY <2>1 DEF Ones
  <2>3. e.flag[k] = 0
    BY <1>1, <2>2
  <2> QED BY <2>3 DEF Unused
<1>4. l \in Loc /\ e.flag[l] = 0
  <2>1. Unused(e) \subseteq Nat
    BY LocIs DEF Unused
  <2>2. \E x \in Unused(e) : \A y \in Unused(e) : x <= y
    BY <1>3, <2>1, Least
  <2>3. l \in Unused(e)
    BY <2>2 DEF FirstUnused
  <2> QED BY <2>3 DEF Unused
<1>5. /\ lines' = [lines EXCEPT ![i] = ne]
      /\ owners' = [owners EXCEPT ![<<a, l>>] = @ + 1]
  BY <1>3 DEF AllocInLine, Own
<1> HIDE DEF l
<1>7. \A k \in Loc : owners[<<a, k>>] = e.flag[k]
  <2>1. CASE e.addr = a
    BY <1>1, <2>1 DEF Good, Addr
  <2>2. CASE e.addr = -1 /\ \A j \in 1 .. Len(lines) : lines[j].addr # a
    <3> SUFFICES ASSUME NEW k \in Loc PROVE owners[<<a, k>>] = e.flag[k]
      OBVIOUS
    <3>1. Ones(e) = {}
      BY <1>1, <2>2, OnesFinite DEF Good
    <3>2. e.flag[k] = 0
      BY <1>1, <3>1 DEF Ones
    <3>3. owners[<<a, k>>] # 1
      BY <2>2 DEF Core
    <3>4. owners[<<a, k>>] \in {0, 1}
      BY <1>1
    <3> QED BY <3>2, <3>3, <3>4
  <2> QED BY <2>1, <2>2
<1>8. ne \in FlagLine /\ ne.addr = a /\ ne.members = e.members + 1
      /\ \A k \in Loc : ne.flag[k] = IF k = l THEN 1 ELSE e.flag[k]
  BY <1>1, <1>4 DEF FlagLine
<1>9. ne.members = Cardinality(Ones(ne)) /\ ne.members > 0
  <2>1. Ones(ne) = Ones(e) \cup {l} /\ ~(l \in Ones(e))
    <3> HIDE DEF ne, e
    <3> QED BY <1>4, <1>8 DEF Ones
  <2>2. Cardinality(Ones(e) \cup {l}) = Cardinality(Ones(e)) + 1
    BY <2>1, OnesFinite, FS_AddElement
  <2>3. e.members + 1 > 0
    BY <1>1
  <2> QED BY <1>2, <1>8, <2>1, <2>2, <2>3
<1>10. /\ lines' \in Seq(FlagLine) /\ Len(lines') = Len(lines) /\ lines'[i] = ne
       /\ \A j \in 1 .. Len(lines) : j # i => lines'[j] = lines[j]
  <2> HIDE DEF ne
  <2> QED BY <1>1, <1>5, <1>8, ExceptSeq
<1>11. /\ owners' \in [Addr \X Loc -> {0, 1}] /\ owners'[<<a, l>>] = 1
       /\ \A b \in Addr, k \in Loc : <<b, k>> # <<a, l>> => owners'[<<b, k>>] = owners[<<b, k>>]
  <2>1. <<a, l>> \in Addr \X Loc /\ owners[<<a, l>>] = 0
    BY <1>4, <1>7
  <2>2. owners' = [owners EXCEPT ![<<a, l>>] = 1]
    BY <1>1, <1>5, <2>1
  <2> QED BY <1>1, <2>1, <2>2
<1>12. \A j \in 1 .. Len(lines) : j # i => lines[j].addr # a
  BY DEF Core
<1> HIDE DEF ne
<1>13. IsSet(lines', owners', lines, owners, P, i, a, l, 1, ne)
  BY <1>4, <1>7, <1>8, <1>9, <1>10, <1>11, <1>12 DEF IsSet
<1>14. Core(lines', owners', P)
  BY <1>13, SetKeeps
<1>15. Counted(lines')
  <2> SUFFICES ASSUME NEW j \in 2 .. Len(lines) PROVE lines'[j].members > 0
    BY <1>10 DEF Counted
  <2>1. j \in 1 .. Len(lines)
    BY <1>1
  <2> QED BY <1>9, <1>10, <2>1 DEF Counted
<1>16. QED
  BY <1>14, <1>15

\* RCCE_flag_alloc with a new line.
LEMMA NewLineKeeps ==
  ASSUME ByteFlags, NEW P, Core(lines, owners, P), Counted(lines),
         NEW a \in Addr, OneLine(a) \in P, \A j \in 1 .. Len(lines) : lines[j].addr # a,
         AllocNewLine(a)
  PROVE  Core(lines', owners', P) /\ Counted(lines')
<1> DEFINE e == [addr |-> a, members |-> 1, flag |-> [l \in Loc |-> IF l = 0 THEN 1 ELSE 0]]
           n == Len(lines)
<1>1. lines' = Append(lines, e) /\ owners' = [owners EXCEPT ![<<a, 0>>] = @ + 1]
  <2>1. PICK g \in Garbage :
          /\ lines' = Append(lines, [addr |-> a, members |-> 1,
                        flag |-> [l \in Loc |-> IF l = 0 THEN 1
                                                ELSE IF l < LINE_SIZE THEN 0 ELSE g]])
          /\ owners' = [owners EXCEPT ![<<a, 0>>] = @ + 1]
    BY DEF AllocNewLine, Own
  <2>2. \A l \in Loc : l < LINE_SIZE
    BY LocIs, HeapAssumption
  <2>3. [l \in Loc |-> IF l = 0 THEN 1 ELSE IF l < LINE_SIZE THEN 0 ELSE g]
          = [l \in Loc |-> IF l = 0 THEN 1 ELSE 0]
    BY <2>2
  <2> QED BY <2>1, <2>3
<1>2. /\ e \in FlagLine /\ e.addr = a /\ e.members = 1
      /\ \A l \in Loc : e.flag[l] = IF l = 0 THEN 1 ELSE 0
  BY DEF FlagLine
<1>3. e.members = Cardinality(Ones(e)) /\ e.members > 0
  <2> HIDE DEF e
  <2>1. Ones(e) = {0}
    BY <1>2, LocIs DEF Ones
  <2>2. Cardinality({0}) = 1
    BY FS_Singleton, Zenon
  <2> QED BY <1>2, <2>1, <2>2
<1>4. /\ lines \in Seq(FlagLine) /\ owners \in [Addr \X Loc -> {0, 1}] /\ n \in Nat
      /\ \A k \in Loc : owners[<<a, k>>] = 0
  <2>1. \A k \in Loc : owners[<<a, k>>] \in {0, 1} /\ owners[<<a, k>>] # 1
    BY DEF Core
  <2> QED BY <2>1 DEF Core
<1>5. /\ owners' \in [Addr \X Loc -> {0, 1}]
      /\ \A k \in Loc : owners'[<<a, k>>] = IF k = 0 THEN 1 ELSE 0
      /\ \A b \in Addr, k \in Loc : b # a => owners'[<<b, k>>] = owners[<<b, k>>]
  <2>1. <<a, 0>> \in Addr \X Loc /\ owners[<<a, 0>>] = 0
    BY <1>4, LocIs
  <2>2. owners' = [owners EXCEPT ![<<a, 0>>] = 1]
    BY <1>1, <1>4, <2>1
  <2> QED BY <1>4, <2>1, <2>2
<1> HIDE DEF e
<1>6. Core(lines', owners', P)
  <2>1. \A k \in Loc : owners'[<<a, k>>] = e.flag[k]
    BY <1>2, <1>5
  <2>2. Core(Append(lines, e), owners', P)
    <3>1. IsNew(owners', lines, owners, P, a, e)
      BY <1>2, <1>3, <1>5, <2>1 DEF IsNew
    <3> QED BY <3>1, AppendKeeps
  <2> QED BY <1>1, <2>2
<1>7. Counted(lines')
  <2>1. Len(lines') = n + 1 /\ lines'[n + 1] = e /\ \A j \in 1 .. n : lines'[j] = lines[j]
    BY <1>1, <1>2, <1>4, AppendProperties
  <2>2. \A j \in 2 .. n + 1 : j = n + 1 \/ (j \in 2 .. n /\ j \in 1 .. n)
    <3> HIDE DEF n
    <3> QED BY <1>4
  <2> QED BY <1>3, <2>1, <2>2 DEF Counted
<1>8. QED
  BY <1>6, <1>7

\* RCCE_flag_free.
LEMMA FreeFlagKeeps ==
  ASSUME ByteFlags, FlagInv, NEW a \in Addr, NEW loc \in Loc, FlagFree(a, loc)
  PROVE  FlagInv'
<1> DEFINE found == {i \in 1 .. Len(lines) : lines[i].addr = a}
           i == CHOOSE k \in found : \A j \in found : k <= j
           e == lines[i]
           ls == [lines EXCEPT ![i] = [addr |-> a, members |-> lines[i].members - 1,
                                       flag |-> Cleared(lines[i], loc)]]
           ne == [addr |-> a, members |-> e.members - 1, flag |-> [e.flag EXCEPT ![loc] = 0]]
<1>0. Core(lines, owners, pieces) /\ Counted(lines)
  BY DEF FlagInv
<1>1. owners[<<a, loc>>] = 1 /\ lines \in Seq(FlagLine) /\ owners \in [Addr \X Loc -> {0, 1}]
  <2>1. lines \in Seq(FlagLine) /\ owners \in [Addr \X Loc -> {0, 1}]
    BY <1>0 DEF Core
  <2>2. owners[<<a, loc>>] \in {0, 1} /\ owners[<<a, loc>>] > 0
    BY <2>1 DEF FlagFree
  <2> QED BY <2>1, <2>2
<1>2. found # {}
  BY <1>0, <1>1 DEF Core
<1>3. i \in 1 .. Len(lines) /\ e.addr = a
  <2>1. found \subseteq Nat
    OBVIOUS
  <2>2. \E x \in found : \A y \in found : x <= y
    <3> HIDE DEF found
    <3> QED BY <1>2, <2>1, Least
  <2>3. i \in found
    <3> HIDE DEF found
    <3> QED BY <2>2
  <2> QED BY <2>3
<1>4. /\ lines' = WithoutEmpty(ls, i)
      /\ IF ls[i].members = 0 /\ i > 1 THEN Free(a) ELSE UNCHANGED heapVars
      /\ owners' = [owners EXCEPT ![<<a, loc>>] = @ - 1]
  BY <1>2 DEF FlagFree
<1> HIDE DEF i
<1>5. Good(e, owners, pieces) /\ e \in FlagLine /\ e.members \in Nat /\ e.flag \in [Loc -> {0, 1}]
      /\ a # -1 /\ a \in Nat
  BY <1>0, <1>3 DEF Core, Good, FlagLine, Addr
<1>6. (\A k \in Loc : owners[<<a, k>>] = e.flag[k]) /\ OneLine(a) \in pieces
      /\ e.members = Cardinality(Ones(e))
  BY <1>3, <1>5 DEF Good
<1>7. ls = [lines EXCEPT ![i] = ne]
  <2>1. Cleared(e, loc) = [e.flag EXCEPT ![loc] = 0]
    BY DEF Cleared, ByteFlags
  <2> QED BY <2>1
<1> HIDE DEF ls
<1>8. loc \in Ones(e) /\ e.members > 0
  <2>1. loc \in Ones(e)
    BY <1>1, <1>6 DEF Ones
  <2>2. Cardinality(Ones(e)) # 0
    BY <2>1, OnesFinite
  <2> QED BY <1>5, <1>6, <2>1, <2>2
<1>9. /\ ne \in FlagLine /\ ne.addr = a /\ ne.members = e.members - 1 /\ ne.members \in Nat
      /\ \A k \in Loc : ne.flag[k] = IF k = loc THEN 0 ELSE e.flag[k]
  <2>1. e.members - 1 \in Nat
    BY <1>5, <1>8
  <2> QED BY <1>5, <2>1 DEF FlagLine
<1>10. ne.members = Cardinality(Ones(ne))
  <2> HIDE DEF ne, e
  <2>1. Ones(ne) = Ones(e) \ {loc}
    BY <1>9 DEF Ones
  <2>2. Cardinality(Ones(e) \ {loc}) = Cardinality(Ones(e)) - 1
    BY <1>8, OnesFinite, FS_RemoveElement
  <2> QED BY <1>6, <1>9, <2>1, <2>2
<1>11. /\ ls \in Seq(FlagLine) /\ Len(ls) = Len(lines) /\ ls[i] = ne
       /\ \A j \in 1 .. Len(lines) : j # i => ls[j] = lines[j]
  <2> HIDE DEF ne, e
  <2> QED BY <1>1, <1>3, <1>7, <1>9, ExceptSeq
<1>12. /\ owners' \in [Addr \X Loc -> {0, 1}] /\ owners'[<<a, loc>>] = 0
       /\ \A b \in Addr, k \in Loc : <<b, k>> # <<a, loc>> => owners'[<<b, k>>] = owners[<<b, k>>]
  <2>1. <<a, loc>> \in Addr \X Loc
    OBVIOUS
  <2>2. owners' = [owners EXCEPT ![<<a, loc>>] = 0]
    BY <1>1, <1>4, <2>1
  <2> QED BY <1>1, <2>1, <2>2
<1>13. \A j \in 1 .. Len(lines) : j # i => lines[j].addr # a
  BY <1>0, <1>3 DEF Core
<1>14. Core(ls, owners', pieces)
  <2> HIDE DEF ne
  <2>1. IsSet(ls, owners', lines, owners, pieces, i, a, loc, 0, ne)
    BY <1>3, <1>6, <1>9, <1>10, <1>11, <1>12, <1>13 DEF IsSet
  <2> QED BY <1>0, <2>1, SetKeeps
<1>15. \A j \in 2 .. Len(lines) : j \in 1 .. Len(lines) /\ (j # i => ls[j].members > 0)
  <2> SUFFICES ASSUME NEW j \in 2 .. Len(lines)
               PROVE  j \in 1 .. Len(lines) /\ (j # i => ls[j].members > 0)
    OBVIOUS
  <2>1. j \in 1 .. Len(lines)
    BY <1>1
  <2> QED BY <1>0, <1>11, <2>1 DEF Counted
<1> HIDE DEF ne, e
<1>16. CASE ls[i].members = 0 /\ i > 1
  <2>1. lines' = SubSeq(ls, 1, i - 1) \o SubSeq(ls, i + 1, Len(ls))
    BY <1>4, <1>16 DEF WithoutEmpty
  <2>2. pieces' = {p \in pieces : p.addr # a}
    BY <1>4, <1>16 DEF Free
  <2>3. i \in 2 .. Len(ls) /\ ls[i].members = 0 /\ ls[i].addr = a
    BY <1>3, <1>9, <1>11, <1>16
  <2>4. \A p \in pieces : p.addr # ls[i].addr => p \in pieces'
    BY <2>2, <2>3
  <2>5. \A j \in 2 .. Len(ls) : j # i => ls[j].members > 0
    BY <1>11, <1>15
  <2>6. ls[i].addr # -1
    BY <1>5, <2>3
  <2>7. Core(lines', owners', pieces') /\ Counted(lines')
    BY <1>14, <2>1, <2>3, <2>4, <2>5, <2>6, DropKeeps
  <2> QED BY <2>7 DEF FlagInv, Core, Counted, Good, Ones
<1>17. CASE ~(ls[i].members = 0 /\ i > 1)
  <2>1. lines' = ls /\ pieces' = pieces
    BY <1>4, <1>17 DEF WithoutEmpty, heapVars
  <2>2. Counted(ls)
    <3> SUFFICES ASSUME NEW j \in 2 .. Len(lines) PROVE ls[j].members > 0
      BY <1>11 DEF Counted
    <3>1. j = i => i > 1
      OBVIOUS
    <3>2. j = i => ls[j].members > 0
      BY <1>9, <1>11, <1>17, <3>1
    <3> QED BY <1>15, <3>2
  <2>3. Core(lines', owners', pieces') /\ Counted(lines')
    BY <1>14, <2>1, <2>2
  <2> QED BY <2>3 DEF FlagInv, Core, Counted, Good, Ones
<1>18. QED
  BY <1>16, <1>17

LEMMA FoundIs == ASSUME Core(lines, owners, pieces) PROVE Found \in 1 .. Len(lines)
<1> DEFINE open == {i \in 1 .. Len(lines) : lines[i].members # FLAGS_PER_LINE}
<1>1. Len(lines) \in 1 .. Len(lines)
  BY DEF Core
<1>2. CASE open = {}
  BY <1>1, <1>2 DEF Found
<1>3. CASE open # {}
  <2>1. open \subseteq Nat
    OBVIOUS
  <2>2. \E x \in open : \A y \in open : x <= y
    <3> HIDE DEF open
    <3> QED BY <1>3, <2>1, Least
  <2>3. Found \in open
    BY <1>3, <2>2 DEF Found
  <2> QED BY <2>3
<1>4. QED
  BY <1>2, <1>3

\* RCCE_flag_alloc.
LEMMA AllocFlagKeeps ==
  ASSUME ByteFlags, HeapInv, FlagInv, FlagAlloc
  PROVE  FlagInv'
<1> DEFINE i == Found
<1>0. Core(lines, owners, pieces) /\ Counted(lines) /\ i \in 1 .. Len(lines)
  BY FoundIs DEF FlagInv
<1>1. Good(lines[i], owners, pieces) /\ FLAGS_PER_LINE = LINE_SIZE
  BY <1>0, LocIs DEF Core
<1>2. \A j \in 1 .. Len(lines) :
        lines[j].addr # -1 => lines[j].addr \in Addr /\ OneLine(lines[j].addr) \in pieces
  BY <1>0 DEF Core, Good, FlagLine
<1>3. CASE lines[i].addr # -1 /\ lines[i].members < FLAGS_PER_LINE
  <2>1. AllocInLine(i, lines[i].addr) /\ pieces' = pieces
    BY <1>3 DEF FlagAlloc, heapVars
  <2>2. PICK a \in Addr : a = lines[i].addr /\ OneLine(a) \in pieces
    BY <1>0, <1>2, <1>3
  <2> HIDE DEF i
  <2>3. Core(lines', owners', pieces) /\ Counted(lines')
    BY <1>0, <1>1, <1>3, <2>1, <2>2, AllocKeeps
  <2> QED BY <2>1, <2>3 DEF FlagInv, Core, Counted, Good, Ones
<1>4. CASE ~(lines[i].addr # -1 /\ lines[i].members < FLAGS_PER_LINE)
  <2>1. /\ Malloc(LINE_SIZE)
        /\ IF lines[i].addr = -1
           THEN IF answer' = -1 THEN Error /\ UNCHANGED lines ELSE AllocInLine(i, answer')
           ELSE IF answer' = -1 THEN AllocNoLine ELSE AllocNewLine(answer')
    BY <1>4 DEF FlagAlloc
  <2> HIDE DEF i
  <2>2. /\ pieces \subseteq pieces' /\ (answer' = -1 => pieces' = pieces)
        /\ answer' # -1 =>
             /\ answer' \in Addr /\ OneLine(answer') \in pieces'
             /\ \A a \in Addr : OneLine(a) \in pieces => a # answer'
    <3>1. Allocate(LINE_SIZE) /\ LINE_SIZE \in Nat
      BY <2>1, HeapAssumption DEF Malloc
    <3> QED BY <3>1, Granted
  <2>3. CASE answer' = -1
    <3>1. lines[i].addr = -1
      BY <2>1, <2>3 DEF AllocNoLine, ByteFlags
    <3>2. lines' = lines /\ owners' = owners /\ pieces' = pieces
      BY <2>1, <2>2, <2>3, <3>1 DEF Error
    <3>3. Core(lines', owners', pieces') /\ Counted(lines')
      BY <1>0, <3>2
    <3> QED BY <3>3 DEF FlagInv, Core, Counted, Good, Ones
  <2>4. CASE answer' # -1
    <3>1. PICK a \in Addr : a = answer'
      BY <2>2, <2>4
    <3>2. OneLine(a) \in pieces' /\ \A j \in 1 .. Len(lines) : lines[j].addr # a
      <4>1. a # -1
        BY DEF Addr
      <4> QED BY <1>2, <2>2, <2>4, <3>1, <4>1
    <3>3. Core(lines, owners, pieces')
      BY <1>0, <2>2, PiecesKeep
    <3>4. CASE lines[i].addr = -1
      <4>1. AllocInLine(i, a)
        BY <2>1, <2>4, <3>1, <3>4
      <4>2. Core(lines', owners', pieces') /\ Counted(lines')
        BY <1>0, <3>2, <3>3, <3>4, <4>1, AllocKeeps
      <4> QED BY <4>2 DEF FlagInv, Core, Counted, Good, Ones
    <3>5. CASE lines[i].addr # -1
      <4>1. AllocNewLine(a)
        BY <2>1, <2>4, <3>1, <3>5
      <4>2. Core(lines', owners', pieces') /\ Counted(lines')
        BY <1>0, <3>2, <3>3, <4>1, NewLineKeeps
      <4> QED BY <4>2 DEF FlagInv, Core, Counted, Good, Ones
    <3> QED BY <3>4, <3>5
  <2> QED BY <2>3, <2>4
<1>5. QED
  BY <1>3, <1>4

\* What the program allocates and frees for itself.
LEMMA ProgramKeeps ==
  ASSUME HeapInv, FlagInv, ProgramCalls
  PROVE  FlagInv'
<1>0. Core(lines, owners, pieces) /\ Counted(lines) /\ lines' = lines /\ owners' = owners
  BY DEF FlagInv, ProgramCalls
<1>1. \A i \in 1 .. Len(lines) :
        OneLine(lines[i].addr) \in pieces => OneLine(lines[i].addr) \in pieces'
  <2>1. ASSUME NEW size \in Sizes, Malloc(size) PROVE pieces \subseteq pieces'
    <3>1. size \in Nat /\ Allocate(size)
      BY <2>1, HeapAssumption DEF Malloc
    <3> QED BY <3>1, Granted
  <2>2. ASSUME NEW ptr \in (0 .. SIZE) \ FlagLines, Free(ptr), NEW i \in 1 .. Len(lines),
               OneLine(lines[i].addr) \in pieces
        PROVE  OneLine(lines[i].addr) \in pieces'
    <3>1. lines[i].addr # ptr
      BY <2>2 DEF FlagLines
    <3> QED BY <2>2, <3>1 DEF Free, OneLine
  <2>3. ASSUME NEW size \in Requests, Request(size) PROVE pieces' = pieces
    BY <2>3 DEF Request
  <2>4. ASSUME Try PROVE pieces \subseteq pieces'
    <3>1. chunk \in Nat /\ Allocate(chunk)
      BY <2>4, HeapAssumption DEF Try, HeapInv
    <3> QED BY <3>1, Granted
  <2> QED BY <2>1, <2>2, <2>3, <2>4 DEF ProgramCalls, Calls
<1>2. Core(lines, owners, pieces')
  BY <1>0, <1>1, PiecesKeep
<1>3. Core(lines', owners', pieces') /\ Counted(lines')
  BY <1>0, <1>2
<1>4. QED
  BY <1>3 DEF FlagInv, Core, Counted, Good, Ones

LEMMA InitFlags == ASSUME ByteFlags, Init PROVE FlagInv
<1> DEFINE e == [addr |-> -1, members |-> 0, flag |-> Empty]
           L == <<e>>
<1>1. lines = L /\ owners = [p \in Addr \X Loc |-> 0]
  BY DEF Init
<1>2. e \in FlagLine /\ e.addr = -1 /\ e.members = 0 /\ \A l \in Loc : e.flag[l] = 0
  BY DEF FlagLine, Empty
<1> HIDE DEF e
<1>3. Good(e, owners, pieces)
  <2>1. Ones(e) = {}
    BY <1>2 DEF Ones
  <2>2. Cardinality({}) = 0
    BY FS_EmptySet
  <2> QED BY <1>2, <2>1, <2>2 DEF Good
<1>4. L \in Seq(FlagLine) /\ Len(L) = 1 /\ L[1] = e
  BY <1>2
<1> HIDE DEF L
<1>5. \A k \in 1 .. 1 : k = 1
  OBVIOUS
<1>6. owners \in [Addr \X Loc -> {0, 1}] /\ \A a \in Addr, l \in Loc : owners[<<a, l>>] # 1
  BY <1>1
<1>7. Core(L, owners, pieces)
  BY <1>3, <1>4, <1>5, <1>6 DEF Core
<1>8. Counted(L)
  <2>1. 2 .. 1 = {}
    OBVIOUS
  <2> QED BY <1>4, <2>1 DEF Counted
<1>9. QED
  BY <1>1, <1>7, <1>8 DEF FlagInv

LEMMA FlagInductive == ASSUME ByteFlags PROVE Spec => []FlagInv
<1>1. Init => FlagInv
  BY InitFlags
<1>2. FlagInv /\ HeapInv /\ [Next]_vars => FlagInv'
  <2> SUFFICES ASSUME FlagInv, HeapInv, [Next]_vars PROVE FlagInv'
    OBVIOUS
  <2>1. CASE FlagAlloc
    BY <2>1, AllocFlagKeeps
  <2>2. ASSUME NEW a \in Addr, NEW loc \in Loc, FlagFree(a, loc) PROVE FlagInv'
    BY <2>2, FreeFlagKeeps
  <2>3. CASE ProgramCalls
    BY <2>3, ProgramKeeps
  <2>4. CASE UNCHANGED vars
    <3>1. lines' = lines /\ owners' = owners /\ pieces' = pieces
      BY <2>4 DEF vars, heapVars
    <3>2. Core(lines', owners', pieces') /\ Counted(lines')
      BY <3>1 DEF FlagInv
    <3> QED BY <3>2 DEF FlagInv, Core, Counted, Good, Ones
  <2> QED BY <2>1, <2>2, <2>3, <2>4 DEF Next
<1>3. QED
  BY <1>1, <1>2, HeapInductive, PTL DEF Spec

\* RCCE_flag_alloc never returns a flag that is in use.
THEOREM NoFlagTwice == ASSUME ByteFlags PROVE Spec => []FlagsExclusive
<1>1. FlagInv => FlagsExclusive
  <2> SUFFICES ASSUME FlagInv, NEW p \in Addr \X Loc PROVE owners[p] <= 1
    BY DEF FlagsExclusive
  <2>1. owners[p] \in {0, 1}
    BY DEF FlagInv, Core
  <2> QED BY <2>1
<1>2. QED
  BY <1>1, FlagInductive, PTL

\* The statuses and the number of members of every line are those of the flags
\* in use, and RCCE_flag_free finds the line of every flag.
THEOREM StatusesExact == ASSUME ByteFlags PROVE Spec => []StatusIsUse
<1>1. FlagInv => StatusIsUse
  <2> SUFFICES ASSUME FlagInv PROVE StatusIsUse
    OBVIOUS
  <2>1. ASSUME NEW i \in 1 .. Len(lines), lines[i].addr # -1
        PROVE  /\ \A l \in Loc : lines[i].flag[l] = (IF l \in InUse(lines[i]) THEN 1 ELSE 0)
               /\ lines[i].members = Cardinality(InUse(lines[i]))
    <3>1. Good(lines[i], owners, pieces)
      BY DEF FlagInv, Core
    <3>2. \A l \in Loc : /\ owners[<<lines[i].addr, l>>] = lines[i].flag[l]
                         /\ lines[i].flag[l] \in {0, 1}
      BY <2>1, <3>1 DEF Good, FlagLine
    <3>3. InUse(lines[i]) = Ones(lines[i])
      BY <2>1, <3>2 DEF InUse, Ones
    <3> QED BY <3>1, <3>2, <3>3 DEF Good, Ones
  <2>2. ASSUME NEW p \in Addr \X Loc, owners[p] > 0
        PROVE  \E i \in 1 .. Len(lines) : lines[i].addr = p[1]
    <3>1. PICK a \in Addr, l \in Loc : p = <<a, l>>
      OBVIOUS
    <3>2. owners[<<a, l>>] \in {0, 1}
      BY DEF FlagInv, Core
    <3>3. owners[<<a, l>>] = 1
      BY <2>2, <3>1, <3>2
    <3> QED BY <3>1, <3>3 DEF FlagInv, Core
  <2> QED BY <2>1, <2>2 DEF StatusIsUse
<1>2. QED
  BY <1>1, FlagInductive, PTL

\* The flag lines are pieces of the MPB that nobody else has, each once in the
\* list; a line without flags is given back, except for the first.
THEOREM LinesOwned == ASSUME ByteFlags PROVE Spec => []LinesAccounted
<1>1. FlagInv => LinesAccounted
  BY DEF FlagInv, Core, Counted, Good, OneLine, LinesAccounted
<1>2. QED
  BY <1>1, FlagInductive, PTL
-----------------------------------------------------------------------------
(***************************************************************************)
(* The types, with the outcomes of the latest calls.                       *)
(***************************************************************************)
Outcomes == asked \in Sizes \cup 0 .. 2 * SIZE /\ answer \in -1 .. SIZE
            /\ last \in {"none", "flag", "error"}

LEMMA AllocateAnswers ==
  ASSUME HeapInv, NEW size \in Sizes \cup 0 .. 2 * SIZE, size \in Nat, Allocate(size)
  PROVE  asked' \in Sizes \cup 0 .. 2 * SIZE /\ answer' \in -1 .. SIZE
<1>0. asked' = size
  BY DEF Allocate
<1>1. CASE Refused(size) \/ Fits(size) = {}
  <2>1. answer' = -1
    BY <1>1 DEF Allocate
  <2> QED BY <1>0, <2>1, HeapAssumption
<1>2. CASE ~(Refused(size) \/ Fits(size) = {})
  <2>1. Chosen(size) \in Fits(size) /\ Tiles(blocks) /\ Fits(size) # {}
    BY <1>2, ChosenFits DEF HeapInv
  <2>2. Chosen(size) \in 1 .. tail
    BY <2>1 DEF Fits
  <2>3. answer' = blocks[Chosen(size)].space
    BY <1>2 DEF Allocate
  <2>4. answer' \in 0 .. SIZE
    BY <2>2, <2>3, Within, HeapAssumption
  <2> QED BY <1>0, <2>4
<1>3. QED
  BY <1>1, <1>2

LEMMA OutcomesKept ==
  ASSUME HeapInv, Outcomes, [Next]_vars
  PROVE  Outcomes'
<1>1. [Moves]_heapVars
  BY FlagsMove
<1>2. asked' \in Sizes \cup 0 .. 2 * SIZE /\ answer' \in -1 .. SIZE
  <2>1. ASSUME NEW size \in Sizes \cup {LINE_SIZE}, Malloc(size)
        PROVE  asked' \in Sizes \cup 0 .. 2 * SIZE /\ answer' \in -1 .. SIZE
    <3>1. LINE_SIZE \in 0 .. 2 * SIZE /\ size \in Nat
      BY HeapAssumption
    <3>2. size \in Sizes \cup 0 .. 2 * SIZE /\ Allocate(size)
      BY <2>1, <3>1 DEF Malloc
    <3> QED BY <3>1, <3>2, AllocateAnswers
  <2>2. ASSUME Try
        PROVE  asked' \in Sizes \cup 0 .. 2 * SIZE /\ answer' \in -1 .. SIZE
    <3>1. chunk \in 0 .. 2 * SIZE /\ chunk \in Nat /\ Allocate(chunk)
      BY <2>2, HeapAssumption DEF Try, HeapInv
    <3> QED BY <3>1, AllocateAnswers
  <2>3. ASSUME NEW ptr \in 0 .. SIZE, Free(ptr) PROVE asked' = asked /\ answer' = answer
    BY <2>3 DEF Free
  <2>4. ASSUME NEW size \in Requests, Request(size) PROVE asked' = asked /\ answer' = answer
    BY <2>4 DEF Request
  <2>5. ASSUME UNCHANGED heapVars PROVE asked' = asked /\ answer' = answer
    BY <2>5 DEF heapVars
  <2> QED BY <1>1, <2>1, <2>2, <2>3, <2>4, <2>5 DEF Moves, Outcomes
<1>3. last' \in {"none", "flag", "error"}
  <2>1. ASSUME FlagAlloc PROVE last' \in {"flag", "error"}
    BY <2>1 DEF FlagAlloc, AllocInLine, AllocNewLine, AllocNoLine, Error
  <2>2. ASSUME NEW a \in Addr, NEW loc \in Loc, FlagFree(a, loc) PROVE last' = last
    BY <2>2 DEF FlagFree
  <2>3. ASSUME ProgramCalls PROVE last' = last
    BY <2>3 DEF ProgramCalls
  <2>4. ASSUME UNCHANGED vars PROVE last' = last
    BY <2>4 DEF vars
  <2> QED BY <2>1, <2>2, <2>3, <2>4 DEF Next, Outcomes
<1>4. QED
  BY <1>2, <1>3 DEF Outcomes

LEMMA OutcomesInductive == Spec => []Outcomes
<1>1. Init => Outcomes
  <2>1. 0 \in 0 .. 2 * SIZE /\ -1 \in -1 .. SIZE
    BY HeapAssumption
  <2> QED BY <2>1 DEF Init, HeapInit, Outcomes
<1>2. HeapInv /\ Outcomes /\ [Next]_vars => Outcomes'
  BY OutcomesKept
<1>3. QED
  BY <1>1, <1>2, HeapInductive, PTL DEF Spec

\* Blocks and pieces lie in the memory, and no request grows beyond it twice.
LEMMA HeapTypes ==
  ASSUME HeapInv, Outcomes
  PROVE  HeapTypeOK
<1> DEFINE S == [space : 0 .. SIZE, free : 0 .. SIZE]
<1>0. SIZE \in Nat
  BY HeapAssumption
<1>1. /\ blocks \in Seq(Blocks) /\ Len(blocks) \in Nat /\ Len(blocks) >= 1
      /\ \A k \in 1 .. Len(blocks) : /\ blocks[k] = [space |-> blocks[k].space, free |-> blocks[k].free]
                                     /\ blocks[k].space \in Nat /\ blocks[k].free \in Nat
  BY Facts DEF HeapInv, Tiles
<1>2. ASSUME NEW k \in 1 .. Len(blocks)
      PROVE  blocks[k].space \in 0 .. SIZE /\ blocks[k].free \in 0 .. SIZE
  <2>1. blocks[k].space \in 0 .. SIZE /\ blocks[k].space + blocks[k].free <= SIZE
    BY <1>0, Within DEF tail
  <2>2. PICK u \in Nat, f \in Nat : u = blocks[k].space /\ f = blocks[k].free
    BY <1>1
  <2>3. u + f <= SIZE
    BY <2>1, <2>2
  <2>4. f \in 0 .. SIZE
    BY <1>0, <2>2, <2>3
  <2> QED BY <2>1, <2>2, <2>4
<1>3. ASSUME NEW k \in 1 .. Len(blocks) PROVE blocks[k] \in S
  <2>1. PICK u \in 0 .. SIZE, f \in 0 .. SIZE : u = blocks[k].space /\ f = blocks[k].free
    BY <1>2
  <2>2. blocks[k] = [space |-> u, free |-> f]
    BY <1>1, <2>1
  <2> QED BY <2>2
<1>4. blocks \in Seq(S) /\ blocks # <<>>
  <2> HIDE DEF S
  <2>1. blocks = [k \in 1 .. Len(blocks) |-> blocks[k]]
    BY <1>1
  <2>2. blocks \in [1 .. Len(blocks) -> S]
    BY <1>3, <2>1
  <2>3. blocks \in Seq(S)
    BY <1>1, <2>2
  <2> QED BY <1>1, <2>3
<1>5. ASSUME NEW p \in pieces PROVE p \in [addr : 0 .. SIZE, size : 1 .. SIZE]
  <2>1. PICK i \in {k \in 1 .. Len(blocks) - 1 : blocks[k].free = 0} : p = Piece(blocks, i)
    BY <1>5 DEF HeapInv, Used
  <2>2. i \in 1 .. Len(blocks) /\ i + 1 \in 1 .. Len(blocks) /\ i < i + 1
    BY <1>1
  <2>3. PICK u \in 0 .. SIZE, v \in 0 .. SIZE : u = blocks[i].space /\ v = blocks[i + 1].space
    BY <1>2, <2>2
  <2>4. u < v
    <3>1. blocks[i].space < blocks[i + 1].space
      BY <2>2 DEF HeapInv, Tiles
    <3> QED BY <2>3, <3>1
  <2>5. v - u \in 1 .. SIZE
    BY <1>0, <2>3, <2>4
  <2> QED BY <2>1, <2>3, <2>5 DEF Piece
<1>6. chunk \in -1 .. 2 * SIZE
  BY <1>0 DEF HeapInv
<1>7. QED
  BY <1>4, <1>5, <1>6 DEF HeapTypeOK, Outcomes

\* Type correctness of the flags and the allocator: a line counts no more flags
\* than it has, no flag is owned below zero times, every block and every piece
\* lies in the memory, and RCCE_malloc_request asks for no more than twice of it.
THEOREM FlagTypes == ASSUME ByteFlags PROVE Spec => []TypeOK
<1>1. ASSUME HeapInv, Outcomes, FlagInv PROVE TypeOK
  <2>0. Core(lines, owners, pieces) /\ FLAGS_PER_LINE = LINE_SIZE /\ LINE_SIZE \in Nat
    BY <1>1, LocIs, HeapAssumption DEF FlagInv
  <2>1. {0, 1} \subseteq Status
    <3>1. 2 ^ 1 = 2
      OBVIOUS
    <3>2. Status = 0 .. 2 - 1
      BY <3>1 DEF Status, ByteFlags
    <3> QED BY <3>2
  <2>2. ASSUME NEW i \in 1 .. Len(lines) PROVE lines[i] \in Line
    <3>1. lines[i] \in FlagLine /\ lines[i].members = Cardinality(Ones(lines[i]))
      BY <2>0 DEF Core, Good
    <3>2. Cardinality(Ones(lines[i])) \in Nat /\ Cardinality(Ones(lines[i])) <= LINE_SIZE
      BY OnesFinite
    <3>3. lines[i].members \in -1 .. FLAGS_PER_LINE
      BY <2>0, <3>1, <3>2
    <3>4. lines[i].flag \in [Loc -> Status]
      <4>1. lines[i].flag \in [Loc -> {0, 1}]
        BY <3>1 DEF FlagLine
      <4> QED BY <2>1, <4>1
    <3>5. lines[i] = [addr |-> lines[i].addr, members |-> lines[i].members,
                      flag |-> lines[i].flag] /\ lines[i].addr \in {-1} \cup Addr
      BY <3>1 DEF FlagLine
    <3> QED BY <3>3, <3>4, <3>5 DEF Line
  <2>3. lines \in Seq(Line) /\ lines # <<>>
    <3>1. lines \in Seq(FlagLine) /\ Len(lines) \in Nat /\ Len(lines) >= 1
      BY <2>0 DEF Core
    <3>2. lines \in [1 .. Len(lines) -> Line]
      <4>1. lines = [k \in 1 .. Len(lines) |-> lines[k]]
        BY <3>1
      <4> QED BY <2>2, <4>1
    <3> QED BY <3>1, <3>2
  <2>4. owners \in [Addr \X Loc -> 0 .. 2]
    <3>1. owners \in [Addr \X Loc -> {0, 1}] /\ {0, 1} \subseteq 0 .. 2
      BY <2>0 DEF Core
    <3> QED BY <3>1
  <2>5. HeapTypeOK
    BY <1>1, HeapTypes
  <2> QED BY <1>1, <2>3, <2>4, <2>5 DEF TypeOK, Outcomes
<1>2. QED
  BY <1>1, FlagInductive, HeapInductive, OutcomesInductive, PTL

-----------------------------------------------------------------------------
(***************************************************************************)
(* Flags of one bit, for any number of UEs and of flags in a byte.         *)
(***************************************************************************)

\* All synchronisation is through RCCE_COMM_WORLD.
WorldOnly == "race" \notin BitUses

LEMMA GatherIsAFlag == Owner \in UE /\ Gather \in Flag
  BY FlagBitsAssumption

\* Type correctness of the flag routines, races or not.
THEOREM BitsTypeCorrect == BitsSpec => []BitsTypeOK
<1>1. ASSUME BitsInit PROVE BitsTypeOK
  <2>1. byte \in Byte /\ copy \in [UE -> Byte]
    <3>1. byte \in Byte
      BY <1>1 DEF BitsInit, Byte
    <3> QED BY <1>1, <3>1 DEF BitsInit
  <2>2. pc \in [UE -> {"idle"}] /\ job \in [UE -> [flag : Flag, val : {0, 1}]] /\ lock \in BOOLEAN
    BY <1>1, GatherIsAFlag DEF BitsInit
  <2> QED BY <2>1, <2>2 DEF BitsTypeOK
<1>2. BitsTypeOK /\ [BitsNext]_bitsVars => BitsTypeOK'
  <2> SUFFICES ASSUME BitsTypeOK, [BitsNext]_bitsVars PROVE BitsTypeOK'
    OBVIOUS
  <2> USE GatherIsAFlag DEF BitsTypeOK, Byte, Goto
  <2>1. ASSUME NEW u \in UE, NEW f \in Flag, NEW v \in {0, 1}, Write(u, f, v) PROVE BitsTypeOK'
    BY <2>1 DEF Write
  <2>2. ASSUME NEW u \in UE, AcquireLock(u) PROVE BitsTypeOK'
    BY <2>2 DEF AcquireLock
  <2>3. ASSUME NEW u \in UE, GetChar(u) PROVE BitsTypeOK'
    BY <2>3 DEF GetChar
  <2>4. ASSUME NEW u \in UE, PutChar(u) PROVE BitsTypeOK'
    BY <2>4 DEF PutChar
  <2>5. ASSUME NEW u \in UE, ReleaseLock(u) PROVE BitsTypeOK'
    BY <2>5 DEF ReleaseLock
  <2>6. CASE FlipGet
    BY <2>6 DEF FlipGet
  <2>7. CASE FlipPut
    <3>1. 1 - copy[Owner][Gather] \in {0, 1}
      OBVIOUS
    <3> QED BY <2>7, <3>1 DEF FlipPut
  <2>8. CASE UNCHANGED bitsVars
    BY <2>8 DEF bitsVars
  <2> QED BY <2>1, <2>2, <2>3, <2>4, <2>5, <2>6, <2>7, <2>8 DEF BitsNext, Step
<1> QED BY <1>1, <1>2, PTL DEF BitsSpec

\* Every step keeps the lock discipline.
LEMMA LockStep ==
  ASSUME WorldOnly, BitsTypeOK, LockInv, [BitsNext]_bitsVars PROVE LockInv'
<1> USE GatherIsAFlag DEF BitsTypeOK, Byte, Goto, LockInv, Holds
<1>1. ASSUME NEW u \in UE, NEW f \in Flag, NEW v \in {0, 1}, Write(u, f, v) PROVE LockInv'
  BY <1>1 DEF Write, WorldOnly
<1>2. ASSUME NEW u \in UE, AcquireLock(u) PROVE LockInv'
  BY <1>2 DEF AcquireLock
<1>3. ASSUME NEW u \in UE, GetChar(u) PROVE LockInv'
  BY <1>3 DEF GetChar
<1>4. ASSUME NEW u \in UE, PutChar(u) PROVE LockInv'
  BY <1>4 DEF PutChar
<1>5. ASSUME NEW u \in UE, ReleaseLock(u) PROVE LockInv'
  BY <1>5 DEF ReleaseLock
<1>6. CASE FlipGet
  BY <1>6 DEF FlipGet, Quiet, WorldOnly
<1>7. CASE FlipPut
  BY <1>7 DEF FlipPut
<1>8. CASE UNCHANGED bitsVars
  BY <1>8 DEF bitsVars
<1> QED BY <1>1, <1>2, <1>3, <1>4, <1>5, <1>6, <1>7, <1>8 DEF BitsNext, Step

\* The lock excludes, and what has been read to be written back is current,
\* for any number of UEs, if no flag of a UE is written while it enters a
\* barrier.
THEOREM LockHolds == ASSUME WorldOnly PROVE BitsSpec => []LockInv
<1>1. BitsInit => LockInv
  BY DEF BitsInit, LockInv, Holds
<1>2. BitsTypeOK /\ LockInv /\ [BitsNext]_bitsVars => LockInv'
  BY LockStep
<1> QED BY <1>1, <1>2, BitsTypeCorrect, PTL DEF BitsSpec

\* Under the same condition the bits of a byte are registers of their own.
THEOREM FlagsAreIndependent == ASSUME WorldOnly PROVE BitsSpec => FlagsIndependent
<1>1. BitsInit => Registers!Init
  BY DEF BitsInit, Registers!Init
<1>2. BitsTypeOK /\ LockInv /\ [BitsNext]_bitsVars => [Registers!Next]_byte
  <2> SUFFICES ASSUME BitsTypeOK, LockInv, [BitsNext]_bitsVars PROVE [Registers!Next]_byte
    OBVIOUS
  <2>1. ASSUME NEW u \in UE, PutChar(u) PROVE Registers!Next
    <3>1. copy[u] = byte
      BY <2>1 DEF PutChar, Goto, LockInv
    <3>2. job[u].flag \in Flag /\ job[u].val \in {0, 1}
      BY DEF BitsTypeOK
    <3> QED BY <2>1, <3>1, <3>2 DEF PutChar, Registers!Next, Registers!Write
  <2>2. CASE FlipPut
    <3>1. copy[Owner] = byte
      BY <2>2, GatherIsAFlag DEF FlipPut, Goto, LockInv
    <3>2. 1 - byte[Gather] \in {0, 1}
      BY GatherIsAFlag DEF BitsTypeOK, Byte
    <3>3. byte' = [byte EXCEPT ![Gather] = 1 - byte[Gather]]
      BY <2>2, <3>1 DEF FlipPut
    <3> QED BY <3>2, <3>3, GatherIsAFlag DEF Registers!Next, Registers!Write
  <2> QED BY <2>1, <2>2 DEF BitsNext, Step, Write, AcquireLock, GetChar, ReleaseLock, FlipGet, bitsVars
<1> QED BY <1>1, <1>2, BitsTypeCorrect, LockHolds, PTL DEF BitsSpec, FlagsIndependent, Registers!Spec
=============================================================================
