---------------------------- MODULE CrbDmaProofs ----------------------------
(***************************************************************************)
(* The rings of the driver are sound and bring every stream whole and in   *)
(* order, for every buffer size, packet size, number of packets and        *)
(* interleaving: RingsSound and StreamsIntact of CrbDma are invariants, if *)
(* open does not fall between the steps of a transfer.                     *)
(*                                                                         *)
(* First the two steps of a transfer on one ring (CrbFifo), then the       *)
(* sequences that are copied, then one lemma for each of the groups of     *)
(* actions of CrbDma, which give RingsSound.  Then packets and what they   *)
(* consist of, their order, what a ring holds, and again one lemma for     *)
(* each action, which give StreamsIntact.                                  *)
(***************************************************************************)
EXTENDS CrbDma, TLAPS

IsFifo(f) == f = [data |-> f.data, read |-> f.read, write |-> f.write, level |-> f.level]
Transfers == [n : Nat, last : Nat]

\* What a transfer is when its pointer is at p: none of it has wrapped, or the
\* pointer is back at the start of the buffer.
Fits(p, t) == \/ t.last = t.n /\ p + t.n <= BUFFER
              \/ t.last < t.n /\ p = 0 /\ t.n <= BUFFER

Ring(f, w, r) == /\ IsFifo(f) /\ w \in Transfers /\ r \in Transfers
                 /\ Fits(f.write, w) /\ Fits(f.read, r) /\ Sound(f, w, r)

\* The multiples of the size, written out.
LEMMA RoundsAre ==
  ASSUME NEW x \in Int
  PROVE  x \in {k * BUFFER : k \in -3 .. 2} <=>
           \/ x = -(3 * BUFFER) \/ x = -(2 * BUFFER) \/ x = -BUFFER
           \/ x = 0 \/ x = BUFFER \/ x = 2 * BUFFER
<1>1. BUFFER \in Nat
  BY DmaAssumption
<1>2. ASSUME NEW k \in -3 .. 2, x = k * BUFFER
      PROVE  \/ x = -(3 * BUFFER) \/ x = -(2 * BUFFER) \/ x = -BUFFER
             \/ x = 0 \/ x = BUFFER \/ x = 2 * BUFFER
  <2>1. k = -3 \/ k = -2 \/ k = -1 \/ k = 0 \/ k = 1 \/ k = 2
    OBVIOUS
  <2>2. QED
    BY <1>1, <1>2, <2>1
<1>3. /\ -(3 * BUFFER) = (-3) * BUFFER /\ -(2 * BUFFER) = (-2) * BUFFER
      /\ -BUFFER = (-1) * BUFFER /\ 0 = 0 * BUFFER /\ BUFFER = 1 * BUFFER
  BY <1>1
<1>4. /\ -3 \in -3 .. 2 /\ -2 \in -3 .. 2 /\ -1 \in -3 .. 2
      /\ 0 \in -3 .. 2 /\ 1 \in -3 .. 2 /\ 2 \in -3 .. 2
  OBVIOUS
<1>5. QED
  BY <1>2, <1>3, <1>4

\* A difference that changes by one round stays a multiple, within its range.
LEMMA OneRound ==
  ASSUME NEW x \in Int, NEW y \in Int, x \in {k * BUFFER : k \in -3 .. 2},
         y = x \/ y = x + BUFFER \/ y = x - BUFFER,
         -(3 * BUFFER) <= y, y <= 2 * BUFFER
  PROVE  y \in {k * BUFFER : k \in -3 .. 2}
<1>1. BUFFER \in Nat /\ BUFFER > 0
  BY DmaAssumption
<1>2. \/ x = -(3 * BUFFER) \/ x = -(2 * BUFFER) \/ x = -BUFFER
      \/ x = 0 \/ x = BUFFER \/ x = 2 * BUFFER
  BY RoundsAre
<1>3. \/ y = -(3 * BUFFER) \/ y = -(2 * BUFFER) \/ y = -BUFFER
      \/ y = 0 \/ y = BUFFER \/ y = 2 * BUFFER
  BY <1>1, <1>2
<1>4. QED
  BY <1>3, RoundsAre

\* A write begins: it is started with the room it needs.
LEMMA WriteBegins ==
  ASSUME NEW f, NEW r, NEW units, NEW n \in Nat, Ring(f, Idle, r), n > 0,
         n <= BUFFER - f.level
  PROVE  /\ Ring(WriteCopied(f, units, n), Transfer(f.write, n), r)
         /\ WriteCopied(f, units, n).level = f.level
<1> DEFINE g == WriteCopied(f, units, n)
           t == Transfer(f.write, n)
<1>1. g = [data |-> g.data, read |-> f.read, write |-> Wrapped(f.write, n), level |-> f.level]
  <2>1. PICK d : g = [f EXCEPT !.data = d, !.write = Wrapped(f.write, n)]
    BY DEF WriteCopied
  <2>2. IsFifo(f)
    BY DEF Ring
  <2>3. QED
    BY <2>1, <2>2 DEF IsFifo
<1>2. /\ f.read \in 0 .. BUFFER /\ f.write \in 0 .. BUFFER /\ f.level \in 0 .. BUFFER
      /\ r \in Transfers /\ Fits(f.read, r) /\ r.n <= f.level
  BY DEF Ring, Sound
<1>3. t = [n |-> n, last |-> LastCopy(f.write, n)] /\ BUFFER \in Nat
  BY DmaAssumption DEF Transfer
<1>4. /\ t \in Transfers /\ Fits(g.write, t) /\ g.write \in 0 .. BUFFER
      /\ \/ Before(g.write, t) = f.write
         \/ Before(g.write, t) = f.write - BUFFER
  <2>1. CASE n <= BUFFER - f.write
    BY <1>1, <1>2, <1>3, <2>1 DEF Wrapped, LastCopy, Transfers, Fits, Before
  <2>2. CASE ~(n <= BUFFER - f.write)
    BY <1>1, <1>2, <1>3, <2>2 DEF Wrapped, LastCopy, Transfers, Fits, Before
  <2>3. QED
    BY <2>1, <2>2
<1>5. Before(f.write, Idle) = f.write
  BY DEF Before, Idle
<1>6. Before(f.read, r) \in Int /\ -BUFFER <= Before(f.read, r) /\ Before(f.read, r) <= BUFFER
  BY <1>2, <1>3 DEF Before, Fits, Transfers
<1> DEFINE x == f.write - Before(f.read, r) - f.level
           y == Before(g.write, t) - Before(f.read, r) - f.level
<1>7. x \in {k * BUFFER : k \in -3 .. 2}
  BY <1>5 DEF Ring, Sound
<1>8. y \in {k * BUFFER : k \in -3 .. 2}
  <2>1. f.level \in 0 .. BUFFER /\ f.write \in 0 .. BUFFER
    BY <1>2
  <2>2. /\ x \in Int /\ y \in Int /\ (y = x \/ y = x - BUFFER)
        /\ -(3 * BUFFER) <= y /\ y <= 2 * BUFFER
    BY <1>3, <1>4, <1>6, <2>1
  <2>3. QED
    BY <1>7, <2>2, OneRound
<1>9. QED
  <2>1. IsFifo(g) /\ g.read = f.read /\ g.level = f.level
    BY <1>1 DEF IsFifo
  <2>2. t.n = n
    BY <1>3
  <2>3. Sound(g, t, r)
    BY <1>2, <1>3, <1>4, <1>8, <2>1, <2>2 DEF Sound
  <2>4. QED
    BY <1>2, <1>4, <2>1, <2>3 DEF Ring

\* A write ends, whatever the reader has done meanwhile.
LEMMA WriteEnds ==
  ASSUME NEW f, NEW w, NEW r, Ring(f, w, r)
  PROVE  /\ Ring(WriteDone(f, w), Idle, r)
         /\ WriteDone(f, w).level = f.level + w.n
<1> DEFINE g == WriteDone(f, w)
<1>1. g = [data |-> f.data, read |-> f.read, write |-> Moved(f.write, w),
           level |-> f.level + w.n]
  <2>1. IsFifo(f)
    BY DEF Ring
  <2>2. g = [f EXCEPT !.level = f.level + w.n, !.write = Moved(f.write, w)]
    BY DEF WriteDone
  <2> DEFINE h == [f EXCEPT !.level = f.level + w.n]
  <2>3. h = [data |-> f.data, read |-> f.read, write |-> f.write, level |-> f.level + w.n]
    BY <2>1 DEF IsFifo
  <2>4. [h EXCEPT !.write = Moved(f.write, w)]
          = [data |-> f.data, read |-> f.read,
             write |-> Moved(f.write, w), level |-> f.level + w.n]
    <3> HIDE DEF h
    <3> QED BY <2>3
  <2>5. QED
    BY <2>2, <2>4
<1>2. /\ f.read \in 0 .. BUFFER /\ f.write \in 0 .. BUFFER /\ f.level \in 0 .. BUFFER
      /\ w \in Transfers /\ Fits(f.write, w) /\ w.n <= BUFFER - f.level
      /\ r \in Transfers /\ Fits(f.read, r) /\ r.n <= f.level
      /\ Before(f.write, w) - Before(f.read, r) - f.level \in {k * BUFFER : k \in -3 .. 2}
  BY DEF Ring, Sound
<1>3. BUFFER \in Nat /\ Idle \in Transfers /\ Idle.n = 0 /\ Idle.last = 0
  BY DmaAssumption DEF Idle, Transfers
<1>4. /\ g.write \in 0 .. BUFFER /\ Fits(g.write, Idle)
      /\ Before(g.write, Idle) = Before(f.write, w) + w.n
  BY <1>1, <1>2, <1>3 DEF Moved, Before, Fits, Transfers
<1>5. Before(f.read, r) \in Int /\ Before(f.write, w) \in Int
  BY <1>2, <1>3 DEF Before, Fits, Transfers
<1>6. g.level \in 0 .. BUFFER /\ g.level = f.level + w.n /\ g.read = f.read
  BY <1>1, <1>2, <1>3 DEF Transfers
<1>7. Before(g.write, Idle) - Before(f.read, r) - g.level
        = Before(f.write, w) - Before(f.read, r) - f.level
  BY <1>2, <1>4, <1>5, <1>6 DEF Transfers
<1>8. Sound(g, Idle, r)
  BY <1>2, <1>3, <1>4, <1>6, <1>7 DEF Sound, Transfers
<1>9. QED
  BY <1>1, <1>2, <1>3, <1>4, <1>6, <1>8 DEF Ring, IsFifo

\* A read begins: what it takes is there.
LEMMA ReadBegins ==
  ASSUME NEW f, NEW w, NEW n \in Nat, Ring(f, w, Idle), n > 0, n <= f.level
  PROVE  /\ Ring(ReadCopied(f, n), w, Transfer(f.read, n))
         /\ ReadCopied(f, n).level = f.level
<1> DEFINE g == ReadCopied(f, n)
           t == Transfer(f.read, n)
           x == Before(f.write, w) - f.read - f.level
           y == Before(f.write, w) - Before(g.read, t) - f.level
<1>1. g = [data |-> f.data, read |-> Wrapped(f.read, n), write |-> f.write, level |-> f.level]
  BY DEF ReadCopied, Ring, IsFifo
<1>2. /\ f.read \in 0 .. BUFFER /\ f.write \in 0 .. BUFFER /\ f.level \in 0 .. BUFFER
      /\ w \in Transfers /\ Fits(f.write, w) /\ w.n <= BUFFER - f.level
  BY DEF Ring, Sound
<1>3. t = [n |-> n, last |-> LastCopy(f.read, n)] /\ BUFFER \in Nat
  BY DmaAssumption DEF Transfer
<1>4. /\ t \in Transfers /\ Fits(g.read, t) /\ g.read \in 0 .. BUFFER
      /\ \/ Before(g.read, t) = f.read
         \/ Before(g.read, t) = f.read - BUFFER
  <2>1. CASE n <= BUFFER - f.read
    BY <1>1, <1>2, <1>3, <2>1 DEF Wrapped, LastCopy, Transfers, Fits, Before
  <2>2. CASE ~(n <= BUFFER - f.read)
    BY <1>1, <1>2, <1>3, <2>2 DEF Wrapped, LastCopy, Transfers, Fits, Before
  <2>3. QED
    BY <2>1, <2>2
<1>5. Before(f.read, Idle) = f.read
  BY DEF Before, Idle
<1>6. /\ Before(f.write, w) \in Int
      /\ -BUFFER <= Before(f.write, w) /\ Before(f.write, w) <= BUFFER
  BY <1>2, <1>3 DEF Before, Fits, Transfers
<1>7. x \in {k * BUFFER : k \in -3 .. 2}
  BY <1>5 DEF Ring, Sound
<1>8. y \in {k * BUFFER : k \in -3 .. 2}
  <2>1. f.level \in 0 .. BUFFER /\ f.read \in 0 .. BUFFER
    BY <1>2
  <2>2. /\ x \in Int /\ y \in Int /\ (y = x \/ y = x + BUFFER)
        /\ -(3 * BUFFER) <= y /\ y <= 2 * BUFFER
    BY <1>3, <1>4, <1>6, <2>1
  <2>3. QED
    BY <1>7, <2>2, OneRound
<1>9. QED
  <2>1. IsFifo(g) /\ g.write = f.write /\ g.level = f.level
    BY <1>1 DEF IsFifo
  <2>2. t.n = n
    BY <1>3
  <2>3. Sound(g, w, t)
    BY <1>2, <1>3, <1>4, <1>8, <2>1, <2>2 DEF Sound
  <2>4. QED
    BY <1>2, <1>4, <2>1, <2>3 DEF Ring

\* A read ends, whatever the writer has done meanwhile.
LEMMA ReadEnds ==
  ASSUME NEW f, NEW w, NEW r, Ring(f, w, r)
  PROVE  /\ Ring(ReadDone(f, r), w, Idle)
         /\ ReadDone(f, r).level = f.level - r.n
<1> DEFINE g == ReadDone(f, r)
<1>1. g = [data |-> f.data, read |-> Moved(f.read, r), write |-> f.write,
           level |-> f.level - r.n]
  <2>1. IsFifo(f)
    BY DEF Ring
  <2>2. g = [f EXCEPT !.level = f.level - r.n, !.read = Moved(f.read, r)]
    BY DEF ReadDone
  <2> DEFINE h == [f EXCEPT !.level = f.level - r.n]
  <2>3. h = [data |-> f.data, read |-> f.read, write |-> f.write, level |-> f.level - r.n]
    BY <2>1 DEF IsFifo
  <2>4. [h EXCEPT !.read = Moved(f.read, r)]
          = [data |-> f.data, read |-> Moved(f.read, r),
             write |-> f.write, level |-> f.level - r.n]
    <3> HIDE DEF h
    <3> QED BY <2>3
  <2>5. QED
    BY <2>2, <2>4
<1>2. /\ f.read \in 0 .. BUFFER /\ f.write \in 0 .. BUFFER /\ f.level \in 0 .. BUFFER
      /\ w \in Transfers /\ Fits(f.write, w) /\ w.n <= BUFFER - f.level
      /\ r \in Transfers /\ Fits(f.read, r) /\ r.n <= f.level
      /\ Before(f.write, w) - Before(f.read, r) - f.level \in {k * BUFFER : k \in -3 .. 2}
  BY DEF Ring, Sound
<1>3. BUFFER \in Nat /\ Idle \in Transfers /\ Idle.n = 0 /\ Idle.last = 0
  BY DmaAssumption DEF Idle, Transfers
<1>4. /\ g.read \in 0 .. BUFFER /\ Fits(g.read, Idle)
      /\ Before(g.read, Idle) = Before(f.read, r) + r.n
  BY <1>1, <1>2, <1>3 DEF Moved, Before, Fits, Transfers
<1>5. Before(f.read, r) \in Int /\ Before(f.write, w) \in Int
  BY <1>2, <1>3 DEF Before, Fits, Transfers
<1>6. g.level \in 0 .. BUFFER /\ g.level = f.level - r.n /\ g.write = f.write
  BY <1>1, <1>2, <1>3 DEF Transfers
<1>7. Before(f.write, w) - Before(g.read, Idle) - g.level
        = Before(f.write, w) - Before(f.read, r) - f.level
  BY <1>2, <1>4, <1>5, <1>6 DEF Transfers
<1>8. Sound(g, w, Idle)
  BY <1>2, <1>3, <1>4, <1>6, <1>7 DEF Sound, Transfers
<1>9. QED
  BY <1>1, <1>2, <1>3, <1>4, <1>6, <1>8 DEF Ring, IsFifo

\* Open, when nothing is under way.
LEMMA Clears ==
  ASSUME NEW f, IsFifo(f)
  PROVE  Ring(Cleared(f), Idle, Idle) /\ Cleared(f).level = 0
<1>1. Cleared(f) = [data |-> f.data, read |-> 0, write |-> 0, level |-> 0]
  <2> DEFINE g == [f EXCEPT !.read = 0]
             h == [g EXCEPT !.write = 0]
  <2>1. g = [data |-> f.data, read |-> 0, write |-> f.write, level |-> f.level]
    BY DEF IsFifo
  <2>2. h = [data |-> f.data, read |-> 0, write |-> 0, level |-> f.level]
    <3> HIDE DEF g
    <3> QED BY <2>1
  <2>3. [h EXCEPT !.level = 0] = [data |-> f.data, read |-> 0, write |-> 0, level |-> 0]
    <3> HIDE DEF h
    <3> QED BY <2>2
  <2>4. QED
    BY <2>3 DEF Cleared
<1>2. BUFFER \in Nat /\ Idle \in Transfers /\ Idle.n = 0 /\ Idle.last = 0
  BY DmaAssumption DEF Idle, Transfers
<1>3. 0 \in {k * BUFFER : k \in -3 .. 2}
  BY RoundsAre
<1>4. QED
  BY <1>1, <1>2, <1>3 DEF Ring, IsFifo, Sound, Before, Fits

\* A transfer of nothing is Idle.
LEMMA NothingIsIdle == ASSUME NEW t \in Transfers, NEW p, Fits(p, t), t.n = 0 PROVE t = Idle
<1>1. t.last = 0
  BY DEF Fits, Transfers
<1>2. QED
  BY <1>1 DEF Idle, Transfers

-----------------------------------------------------------------------------
(***************************************************************************)
(* Whole packets, and sequences whatever their elements are.               *)
(***************************************************************************)
LEMMA WholeLess ==
  ASSUME NEW n \in Int
  PROVE  /\ Whole(n) \in Int /\ Whole(n) <= n
         /\ n >= 0 => Whole(n) \in Nat
<1>1. PACKET \in Nat /\ PACKET > 0
  BY DmaAssumption
<1>2. n \div PACKET \in Int /\ (n \div PACKET) * PACKET <= n
  BY <1>1
<1>3. n >= 0 => n \div PACKET >= 0
  BY <1>1
<1>4. ASSUME NEW d \in Nat PROVE d * PACKET \in Nat
  BY <1>1
<1>5. QED
  BY <1>1, <1>2, <1>3, <1>4 DEF Whole

LEMMA LeastLess ==
  ASSUME NEW a \in Int, NEW b \in Int
  PROVE  Least(a, b) \in Int /\ Least(a, b) <= a /\ Least(a, b) <= b
  BY DEF Least

\* What a transfer to the DMA buffer takes.
LEMMA ToDmaLess ==
  ASSUME NEW level \in Nat, NEW max \in Nat
  PROVE  ToDma(level, max) \in Nat /\ ToDma(level, max) <= level /\ ToDma(level, max) <= max
<1> DEFINE n == Least(level, max)
<1>1. n \in Nat /\ n <= level /\ n <= max
  BY DEF Least
<1>2. Whole(n) \in Nat /\ Whole(n) <= n
  BY <1>1, WholeLess
<1>3. QED
  BY <1>1, <1>2 DEF ToDma

IsSeq(s) == s \in Seq({s[i] : i \in DOMAIN s})

LEMMA SeqIsSeq == ASSUME NEW S, NEW s \in Seq(S) PROVE IsSeq(s)
  BY DEF IsSeq

LEMMA LenIsNat == ASSUME NEW s, IsSeq(s) PROVE Len(s) \in Nat
  BY DEF IsSeq

LEMMA ConcatIsSeq ==
  ASSUME NEW s, NEW t, IsSeq(s), IsSeq(t)
  PROVE  IsSeq(s \o t) /\ Len(s \o t) = Len(s) + Len(t)
<1> DEFINE S == {s[i] : i \in DOMAIN s} \cup {t[i] : i \in DOMAIN t}
<1>1. s \in Seq(S) /\ t \in Seq(S)
  BY DEF IsSeq
<1>2. s \o t \in Seq(S) /\ Len(s \o t) = Len(s) + Len(t)
  BY <1>1
<1>3. QED
  BY <1>2, SeqIsSeq

LEMMA SubSeqIsSeq ==
  ASSUME NEW s, NEW a \in Int, NEW b \in Int
  PROVE  /\ IsSeq(SubSeq(s, a, b))
         /\ a <= b + 1 => Len(SubSeq(s, a, b)) = b + 1 - a
<1> DEFINE n == IF a <= b + 1 THEN b + 1 - a ELSE 0
           e(i) == s[i + a - 1]
<1>1. n \in Nat /\ 1 .. (1 + b - a) = 1 .. n
  OBVIOUS
<1>2. SubSeq(s, a, b) = [i \in 1 .. n |-> e(i)]
  BY <1>1
<1>3. [i \in 1 .. n |-> e(i)] \in Seq({e(i) : i \in 1 .. n})
  <2> HIDE DEF n, e
  <2> QED BY <1>1
<1>4. IsSeq(SubSeq(s, a, b))
  <2> HIDE DEF n, e
  <2> QED BY <1>2, <1>3, SeqIsSeq
<1>5. Len(SubSeq(s, a, b)) = n
  <2> HIDE DEF n, e
  <2> QED BY <1>1, <1>2
<1>6. QED
  BY <1>4, <1>5

LEMMA ContentsIsSeq ==
  ASSUME NEW f, NEW n \in Nat
  PROVE  IsSeq(Contents(f, n)) /\ Len(Contents(f, n)) = n
<1> DEFINE u(i) == f.data[(f.read + i - 1) % BUFFER]
<1>1. Contents(f, n) = [i \in 1 .. n |-> u(i)]
  BY DEF Contents
<1>2. /\ [i \in 1 .. n |-> u(i)] \in Seq({u(i) : i \in 1 .. n})
      /\ Len([i \in 1 .. n |-> u(i)]) = n
  <2> HIDE DEF u
  <2> QED OBVIOUS
<1>3. QED
  BY <1>1, <1>2, SeqIsSeq

LEMMA UnitsIsSeq == ASSUME NEW s, NEW m \in Nat PROVE IsSeq(Units(s, m))
<1> DEFINE u(i) == <<s, sent[s] + 1 + (i - 1) \div PACKET, 1 + ((i - 1) % PACKET)>>
<1>1. m * PACKET \in Nat
  BY DmaAssumption
<1>2. Units(s, m) = [i \in 1 .. m * PACKET |-> u(i)]
  BY DEF Units
<1>3. [i \in 1 .. m * PACKET |-> u(i)] \in Seq({u(i) : i \in 1 .. m * PACKET})
  <2> HIDE DEF u
  <2> QED BY <1>1
<1>4. QED
  BY <1>2, <1>3, SeqIsSeq

-----------------------------------------------------------------------------
(***************************************************************************)
(* The inductive invariant: RingsSound with the shape of the transfers,    *)
(* who may have one under way, the room that the filter has counted on,    *)
(* and that the daemon does not wake it twice.                             *)
(***************************************************************************)
RingsInv == /\ Ring(mip, move["write"], move["fetch"])
            /\ Ring(mop, move["store"], move["read"])

MoversInv ==
  /\ move \in [{"write", "read", "fetch", "store"} -> Transfers]
  /\ move["write"].n > 0 => use_count = 1
  /\ move["read"].n > 0 => use_count = 1
  /\ move["fetch"].n > 0 => pc = "taken"
  /\ move["store"].n > 0 => filter.at = "stored"

FilterInv ==
  /\ filter \in [at : {"idle", "queued", "run", "stored"}, todo : Int, done : Int]
  /\ dma_rxSize \in Int /\ dma_doFilter \in BOOLEAN
  /\ filter.at # "idle" => dma_doFilter = TRUE
  /\ dma_state \in {"RX_PENDING", "RX_DONE"} => dma_doFilter = TRUE /\ filter.at = "idle"
  /\ filter.at \in {"run", "stored"} =>
       filter.todo * PACKET + move["store"].n <= BUFFER - mop.level

TxInv ==
  /\ DOMAIN tx = {0, 1} /\ IsSeq(tx[0]) /\ IsSeq(tx[1])
  /\ dma_txOffset \in {0, 1} /\ Len(tx[dma_txOffset]) <= HALF
  /\ engine.half \in {0, 1} /\ engine.n \in Int /\ mipLevel \in Int
  /\ IsSeq(net_fifo) /\ IsSeq(mopQueue)

DInv == RingsInv /\ MoversInv /\ FilterInv /\ TxInv

\* Without a transfer under way, Idle.
LEMMA IdleWhenNone ==
  ASSUME DInv
  PROVE  /\ move["write"].n = 0 => move["write"] = Idle
         /\ move["read"].n = 0 => move["read"] = Idle
         /\ move["fetch"].n = 0 => move["fetch"] = Idle
         /\ move["store"].n = 0 => move["store"] = Idle
<1>1. /\ move["write"] \in Transfers /\ Fits(mip.write, move["write"])
      /\ move["fetch"] \in Transfers /\ Fits(mip.read, move["fetch"])
      /\ move["store"] \in Transfers /\ Fits(mop.write, move["store"])
      /\ move["read"] \in Transfers /\ Fits(mop.read, move["read"])
  BY DEF DInv, RingsInv, Ring
<1>2. QED
  BY <1>1, NothingIsIdle

\* Levels and transfers are numbers.
LEMMA Numbers ==
  ASSUME DInv
  PROVE  /\ BUFFER \in Nat /\ PACKET \in Nat /\ PACKET > 0 /\ HALF \in Nat
         /\ mip.level \in 0 .. BUFFER /\ mop.level \in 0 .. BUFFER
         /\ \A t \in {"write", "read", "fetch", "store"} :
              move[t] \in Transfers /\ move[t].n \in Nat
         /\ move["store"].n <= BUFFER - mop.level
<1>1. BUFFER \in Nat /\ PACKET \in Nat /\ PACKET > 0 /\ HALF \in Nat
  BY DmaAssumption DEF HALF
<1>2. /\ mip.level \in 0 .. BUFFER /\ mop.level \in 0 .. BUFFER
      /\ move["store"].n <= BUFFER - mop.level
  BY DEF DInv, RingsInv, Ring, Sound
<1>3. \A t \in {"write", "read", "fetch", "store"} :
        move[t] \in Transfers /\ move[t].n \in Nat
  BY DEF DInv, MoversInv, Transfers
<1>4. QED
  BY <1>1, <1>2, <1>3

LEMMA InitInv == ASSUME Init PROVE DInv
<1>1. Idle \in Transfers /\ Idle.n = 0
  BY DEF Idle, Transfers
<1>2. move["write"] = Idle /\ move["read"] = Idle /\ move["fetch"] = Idle /\ move["store"] = Idle
  BY DEF Init
<1>3. RingsInv
  <2>1. IsFifo(Empty) /\ Empty.read = 0 /\ Empty.write = 0 /\ Empty.level = 0
    BY DEF IsFifo, Empty
  <2>2. BUFFER \in Nat /\ Idle.last = 0
    BY DmaAssumption DEF Idle
  <2>3. 0 \in {k * BUFFER : k \in -3 .. 2}
    BY RoundsAre
  <2>4. Ring(Empty, Idle, Idle)
    BY <1>1, <2>1, <2>2, <2>3 DEF Ring, Sound, Before, Fits
  <2>5. QED
    BY <1>2, <2>4 DEF Init, RingsInv
<1>4. MoversInv
  BY <1>1, <1>2 DEF Init, MoversInv
<1>5. FilterInv
  <2>1. /\ filter = Asleep /\ dma_rxSize = 0 /\ dma_doFilter = FALSE /\ dma_state = "IDLE"
    BY DEF Init
  <2>2. Asleep.at = "idle"
        /\ Asleep \in [at : {"idle", "queued", "run", "stored"}, todo : Int, done : Int]
    BY DEF Asleep
  <2>3. dma_doFilter \in BOOLEAN
    BY <2>1
  <2>4. QED
    BY <2>1, <2>2, <2>3 DEF FilterInv
<1>6. TxInv
  <2>1. <<>> \in Seq({}) /\ Len(<<>>) = 0
    OBVIOUS
  <2>2. IsSeq(<<>>)
    BY <2>1, SeqIsSeq
  <2>3. tx[0] = <<>> /\ tx[1] = <<>> /\ DOMAIN tx = {0, 1} /\ HALF \in Nat
    BY DmaAssumption DEF Init, HALF
  <2>4. QED
    BY <2>1, <2>2, <2>3 DEF Init, TxInv, NoDma
<1>7. QED
  BY <1>3, <1>4, <1>5, <1>6 DEF DInv

-----------------------------------------------------------------------------
(***************************************************************************)
(* The program.                                                            *)
(***************************************************************************)
LEMMA OpenStep == ASSUME DInv, Open, OPEN_RACES = FALSE PROVE DInv'
<1>1. /\ move["write"] = Idle /\ move["read"] = Idle
      /\ move["fetch"] = Idle /\ move["store"] = Idle
  BY Numbers, IdleWhenNone DEF DInv, MoversInv, Open
<1>2. IsFifo(mip) /\ IsFifo(mop)
  BY DEF DInv, RingsInv, Ring
<1>3. RingsInv' /\ mop'.level = 0
  BY <1>1, <1>2, Clears DEF Open, RingsInv
<1>4. MoversInv'
  BY DEF DInv, MoversInv, Open, daemon, rx
<1>5. FilterInv'
  <2>1. mop'.level = 0 /\ 0 <= mop.level /\ mop.level \in Int /\ BUFFER \in Nat
    BY <1>3, Numbers
  <2>2. filter.todo \in Int /\ PACKET \in Nat
    BY Numbers DEF DInv, FilterInv
  <2> DEFINE room == filter.todo * PACKET
  <2>3. room \in Int
    BY <2>2
  <2>4. /\ filter' = filter /\ move' = move /\ dma_rxSize' = dma_rxSize
        /\ dma_doFilter' = dma_doFilter /\ dma_state' = dma_state
    BY DEF Open, rx
  <2>5. filter.at \in {"run", "stored"} => room + move["store"].n <= BUFFER - mop'.level
    <3>1. move["store"].n \in Nat
      BY Numbers
    <3>2. filter.at \in {"run", "stored"} => room + move["store"].n <= BUFFER - mop.level
      BY DEF DInv, FilterInv
    <3> HIDE DEF room
    <3>3. QED
      BY <2>1, <2>3, <3>1, <3>2
  <2>6. QED
    BY <2>4, <2>5 DEF DInv, FilterInv
<1>6. TxInv'
  BY DEF DInv, TxInv, Open, daemon, board
<1>7. QED
  BY <1>3, <1>4, <1>5, <1>6 DEF DInv

LEMMA ReleaseStep == ASSUME DInv, Release PROVE DInv'
<1>1. RingsInv' /\ FilterInv' /\ TxInv'
  BY DEF DInv, RingsInv, FilterInv, TxInv, Release, rings, daemon, rx, board
<1>2. MoversInv'
  BY DEF DInv, MoversInv, Release, daemon, rx
<1>3. QED
  BY <1>1, <1>2 DEF DInv

LEMMA WriteStep == ASSUME DInv, NEW count \in Counts, Write(count) PROVE DInv'
<1> DEFINE n == Whole(Least(count, BUFFER - mip.level))
<1>1. n \in Nat /\ n > 0 /\ n <= BUFFER - mip.level
  <2>1. count \in Nat
    BY DmaAssumption
  <2> DEFINE k == Least(count, BUFFER - mip.level)
  <2>2. k \in Nat /\ k <= BUFFER - mip.level
    BY <2>1, Numbers DEF Least
  <2>3. Whole(k) \in Nat /\ Whole(k) <= k
    BY <2>2, WholeLess
  <2>4. n > 0
    BY DEF Write
  <2>5. QED
    BY <2>2, <2>3, <2>4, Numbers
<1>2. move["write"] = Idle /\ move'["write"] = Transfer(mip.write, n)
  BY IdleWhenNone DEF DInv, MoversInv, Write
<1>3. \A t \in {"read", "fetch", "store"} : move'[t] = move[t]
  BY DEF DInv, MoversInv, Write
<1>4. RingsInv'
  <2>1. Ring(mip, Idle, move["fetch"])
    BY <1>2 DEF DInv, RingsInv
  <2> HIDE DEF n
  <2>2. \A units : Ring(WriteCopied(mip, units, n), Transfer(mip.write, n), move["fetch"])
    BY <1>1, <2>1, WriteBegins
  <2>3. PICK units : mip' = WriteCopied(mip, units, n)
    BY DEF Write, n
  <2>4. Ring(mip', move'["write"], move'["fetch"])
    BY <1>2, <1>3, <2>2, <2>3
  <2>5. Ring(mop', move'["store"], move'["read"])
    BY <1>3 DEF DInv, RingsInv, Write
  <2>6. QED
    BY <2>4, <2>5 DEF RingsInv
<1>5. MoversInv'
  <2>1. move'["write"] \in Transfers
    BY <1>4 DEF RingsInv, Ring
  <2>2. QED
    BY <1>3, <2>1 DEF DInv, MoversInv, Write, daemon, rx
<1>6. FilterInv' /\ TxInv'
  BY <1>3 DEF DInv, FilterInv, TxInv, Write, daemon, rx, board
<1>7. QED
  BY <1>4, <1>5, <1>6 DEF DInv

LEMMA WriteEndStep == ASSUME DInv, WriteEnd PROVE DInv'
<1>1. Idle \in Transfers /\ Idle.n = 0
  BY DEF Idle, Transfers
<1>2. move'["write"] = Idle /\ \A t \in {"read", "fetch", "store"} : move'[t] = move[t]
  BY DEF DInv, MoversInv, WriteEnd
<1>3. RingsInv'
  <2>1. Ring(mip, move["write"], move["fetch"])
    BY DEF DInv, RingsInv
  <2>2. Ring(WriteDone(mip, move["write"]), Idle, move["fetch"])
    BY <2>1, WriteEnds
  <2>3. Ring(mip', move'["write"], move'["fetch"])
    BY <1>2, <2>2 DEF WriteEnd
  <2>4. Ring(mop', move'["store"], move'["read"])
    BY <1>2 DEF DInv, RingsInv, WriteEnd
  <2>5. QED
    BY <2>3, <2>4 DEF RingsInv
<1>4. MoversInv'
  BY <1>1, <1>2 DEF DInv, MoversInv, WriteEnd, daemon, rx
<1>5. FilterInv' /\ TxInv'
  BY <1>2 DEF DInv, FilterInv, TxInv, WriteEnd, daemon, rx, board
<1>6. QED
  BY <1>3, <1>4, <1>5 DEF DInv

LEMMA ReadStep == ASSUME DInv, NEW count \in Counts, Read(count) PROVE DInv'
<1> DEFINE n == Whole(Least(count, mop.level))
<1>1. n \in Nat /\ n > 0 /\ n <= mop.level
  <2>1. count \in Nat
    BY DmaAssumption
  <2> DEFINE k == Least(count, mop.level)
  <2>2. k \in Nat /\ k <= mop.level
    BY <2>1, Numbers DEF Least
  <2>3. Whole(k) \in Nat /\ Whole(k) <= k
    BY <2>2, WholeLess
  <2>4. n > 0
    BY DEF Read
  <2>5. QED
    BY <2>2, <2>3, <2>4, Numbers
<1>2. move["read"] = Idle /\ move'["read"] = Transfer(mop.read, n)
  BY IdleWhenNone DEF DInv, MoversInv, Read
<1>3. \A t \in {"write", "fetch", "store"} : move'[t] = move[t]
  BY DEF DInv, MoversInv, Read
<1>4. RingsInv' /\ mop'.level = mop.level
  <2>1. Ring(mop, move["store"], Idle)
    BY <1>2 DEF DInv, RingsInv
  <2>2. mop' = ReadCopied(mop, n) /\ mip' = mip
    BY DEF Read
  <2> HIDE DEF n
  <2>3. /\ Ring(ReadCopied(mop, n), move["store"], Transfer(mop.read, n))
        /\ ReadCopied(mop, n).level = mop.level
    BY <1>1, <2>1, ReadBegins
  <2>4. Ring(mop', move'["store"], move'["read"])
    BY <1>2, <1>3, <2>2, <2>3
  <2>5. QED
    BY <1>3, <2>2, <2>3, <2>4 DEF DInv, RingsInv
<1>5. MoversInv'
  <2>1. move'["read"] \in Transfers
    BY <1>4 DEF RingsInv, Ring
  <2>2. QED
    BY <1>3, <2>1 DEF DInv, MoversInv, Read, daemon, rx
<1>6. FilterInv' /\ TxInv'
  BY <1>3, <1>4 DEF DInv, FilterInv, TxInv, Read, daemon, rx, board
<1>7. QED
  BY <1>4, <1>5, <1>6 DEF DInv

\* A read that ends makes room: the filter has only more than it counted on.
LEMMA ReadEndStep == ASSUME DInv, ReadEnd PROVE DInv'
<1>1. Idle \in Transfers /\ Idle.n = 0
  BY DEF Idle, Transfers
<1>2. move'["read"] = Idle /\ \A t \in {"write", "fetch", "store"} : move'[t] = move[t]
  BY DEF DInv, MoversInv, ReadEnd
<1>3. RingsInv' /\ mop'.level = mop.level - move["read"].n
  <2>1. Ring(mop, move["store"], move["read"])
    BY DEF DInv, RingsInv
  <2>2. /\ Ring(ReadDone(mop, move["read"]), move["store"], Idle)
        /\ ReadDone(mop, move["read"]).level = mop.level - move["read"].n
    BY <2>1, ReadEnds
  <2>3. mop' = ReadDone(mop, move["read"]) /\ mip' = mip
    BY DEF ReadEnd
  <2>4. Ring(mop', move'["store"], move'["read"])
    BY <1>2, <2>2, <2>3
  <2>5. QED
    BY <1>2, <2>2, <2>3, <2>4 DEF DInv, RingsInv
<1>4. MoversInv'
  BY <1>1, <1>2 DEF DInv, MoversInv, ReadEnd, daemon, rx
<1>5. FilterInv'
  <2> DEFINE room == filter.todo * PACKET
  <2>1. filter.todo \in Int /\ PACKET \in Nat
    BY Numbers DEF DInv, FilterInv
  <2>2. room \in Int
    BY <2>1
  <2>3. /\ filter' = filter /\ dma_rxSize' = dma_rxSize /\ dma_doFilter' = dma_doFilter
        /\ dma_state' = dma_state /\ move'["store"] = move["store"]
    BY <1>2 DEF ReadEnd, rx
  <2>4. filter.at \in {"run", "stored"} => room + move["store"].n <= BUFFER - mop'.level
    <3>1. filter.at \in {"run", "stored"} => room + move["store"].n <= BUFFER - mop.level
      BY DEF DInv, FilterInv
    <3>2. /\ move["store"].n \in Nat /\ move["read"].n \in Nat /\ mop.level \in 0 .. BUFFER
          /\ BUFFER \in Nat
      BY Numbers
    <3> HIDE DEF room
    <3>3. QED
      BY <1>3, <2>2, <3>1, <3>2
  <2>5. QED
    BY <2>3, <2>4 DEF DInv, FilterInv
<1>6. TxInv'
  BY DEF DInv, TxInv, ReadEnd, daemon, board
<1>7. QED
  BY <1>3, <1>4, <1>5, <1>6 DEF DInv

-----------------------------------------------------------------------------
(***************************************************************************)
(* The network, the board and the interrupt.                               *)
(***************************************************************************)
LEMMA NetSendStep == ASSUME DInv, NetSend PROVE DInv'
<1>1. RingsInv' /\ MoversInv' /\ FilterInv'
  BY DEF DInv, RingsInv, MoversInv, FilterInv, NetSend, rings, daemon, rx
<1>2. IsSeq(net_fifo')
  BY UnitsIsSeq, ConcatIsSeq DEF DInv, TxInv, NetSend
<1>3. TxInv'
  BY <1>2 DEF DInv, TxInv, NetSend, daemon, board
<1>4. QED
  BY <1>1, <1>3 DEF DInv

LEMMA BoardTakesStep == ASSUME DInv, BoardTakes PROVE DInv'
<1>1. RingsInv' /\ MoversInv' /\ FilterInv'
  BY DEF DInv, RingsInv, MoversInv, FilterInv, BoardTakes, rings, daemon, rx
<1>2. TxInv'
  BY DEF DInv, TxInv, BoardTakes, daemon
<1>3. QED
  BY <1>1, <1>2 DEF DInv

LEMMA BoardSendsStep == ASSUME DInv, NEW s, BoardSends(s) PROVE DInv'
<1>1. RingsInv' /\ MoversInv' /\ FilterInv'
  BY DEF DInv, RingsInv, MoversInv, FilterInv, BoardSends, rings, daemon, rx
<1>2. IsSeq(mopQueue')
  BY UnitsIsSeq, ConcatIsSeq DEF DInv, TxInv, BoardSends
<1>3. TxInv'
  BY <1>2 DEF DInv, TxInv, BoardSends, daemon
<1>4. QED
  BY <1>1, <1>3 DEF DInv

LEMMA IsrStep == ASSUME DInv, NEW irq, Isr(irq) PROVE DInv'
<1>1. RingsInv' /\ MoversInv'
  BY DEF DInv, RingsInv, MoversInv, Isr, rings
<1>2. FilterInv'
  <2>1. /\ mop' = mop /\ move' = move /\ filter' = filter /\ dma_rxSize' = dma_rxSize
        /\ dma_doFilter' = dma_doFilter
    BY DEF Isr, rings
  <2>2. dma_state' \in {"RX_PENDING", "RX_DONE"} => dma_state \in {"RX_PENDING", "RX_DONE"}
    BY DEF Isr
  <2>3. QED
    BY <2>1, <2>2 DEF DInv, FilterInv
<1>3. TxInv'
  <2>1. IsSeq(<<>>) /\ Len(<<>>) = 0 /\ HALF \in Nat
    <3>1. <<>> \in Seq({}) /\ Len(<<>>) = 0
      OBVIOUS
    <3>2. QED
      BY <3>1, SeqIsSeq, Numbers
  <2>2. engine.half \in {0, 1} /\ engine.n \in Int /\ Len(mopQueue) \in Int /\ mipLevel \in Int
    BY LenIsNat DEF DInv, TxInv
  <2>3. /\ engine' = engine \/ engine' = NoDma
        /\ mipLevel' = mipLevel \/ mipLevel' = mipLevel + engine.n
        /\ tx' = tx \/ tx' = [tx EXCEPT ![engine.half] = <<>>]
        /\ mopQueue' = mopQueue
             \/ mopQueue' = SubSeq(mopQueue, engine.n + 1, Len(mopQueue))
        /\ dma_txOffset' = dma_txOffset /\ net_fifo' = net_fifo
    BY DEF Isr
  <2>4. IsSeq(mopQueue')
    <3>1. engine.n + 1 \in Int /\ Len(mopQueue) \in Int
      BY <2>2
    <3>2. IsSeq(SubSeq(mopQueue, engine.n + 1, Len(mopQueue)))
      BY <3>1, SubSeqIsSeq
    <3>3. IsSeq(mopQueue)
      BY DEF DInv, TxInv
    <3>4. QED
      BY <2>3, <3>2, <3>3
  <2>5. DOMAIN tx' = {0, 1} /\ IsSeq(tx'[0]) /\ IsSeq(tx'[1]) /\ Len(tx'[dma_txOffset]) <= HALF
    <3>1. /\ DOMAIN tx = {0, 1} /\ IsSeq(tx[0]) /\ IsSeq(tx[1]) /\ dma_txOffset \in {0, 1}
          /\ Len(tx[dma_txOffset]) <= HALF
      BY DEF DInv, TxInv
    <3>2. CASE tx' = tx
      BY <3>1, <3>2
    <3>3. CASE tx' = [tx EXCEPT ![engine.half] = <<>>]
      <4>1. \A h \in {0, 1} : tx'[h] = tx[h] \/ tx'[h] = <<>>
        BY <3>1, <3>3
      <4>2. QED
        BY <2>1, <3>1, <3>3, <4>1
    <3>4. QED
      BY <2>3, <3>2, <3>3
  <2>6. engine'.half \in {0, 1} /\ engine'.n \in Int /\ mipLevel' \in Int
    BY <2>2, <2>3 DEF NoDma
  <2>7. QED
    BY <2>3, <2>4, <2>5, <2>6 DEF DInv, TxInv
<1>4. QED
  BY <1>1, <1>2, <1>3 DEF DInv

-----------------------------------------------------------------------------
(***************************************************************************)
(* The daemon.                                                             *)
(***************************************************************************)
LEMMA LookStep == ASSUME DInv, Look PROVE DInv'
<1>1. RingsInv' /\ TxInv'
  BY DEF DInv, RingsInv, TxInv, Look, rings, board
<1>2. FilterInv' /\ (filter.at = "stored" => filter'.at = "stored")
  <2>1. CASE dma_state = "RX_DONE"
    <3>1. filter.at = "idle" /\ dma_doFilter = TRUE
      BY <2>1 DEF DInv, FilterInv
    <3>2. /\ filter' = [filter EXCEPT !.at = "queued"] /\ dma_state' = "IDLE"
          /\ dma_doFilter' = dma_doFilter /\ dma_rxSize' = dma_rxSize
      BY <2>1 DEF Look
    <3>3. /\ filter'.at = "queued"
          /\ filter' \in [at : {"idle", "queued", "run", "stored"}, todo : Int, done : Int]
      BY <3>2 DEF DInv, FilterInv
    <3>4. QED
      BY <3>1, <3>2, <3>3 DEF DInv, FilterInv
  <2>2. CASE dma_state # "RX_DONE"
    BY <2>2 DEF DInv, FilterInv, Look, rings
  <2>3. QED
    BY <2>1, <2>2
<1>3. MoversInv'
  <2>1. move["fetch"].n = 0 /\ move' = move /\ use_count' = use_count
    BY Numbers DEF DInv, MoversInv, Look
  <2>2. QED
    BY <1>2, <2>1, Numbers DEF DInv, MoversInv
<1>4. QED
  BY <1>1, <1>2, <1>3 DEF DInv

\* What is prepared fits into the half.
LEMMA PrepareStep == ASSUME DInv, Prepare PROVE DInv'
<1> DEFINE h == dma_txOffset
           n == ToDma(Len(net_fifo), HALF - Len(tx[h]))
           m == ToDma(mip.level, HALF - Len(tx[h]) - n)
           a == SubSeq(net_fifo, 1, n)
           b == IF m = 0 THEN <<>> ELSE Contents(mip, m)
<1>1. /\ DOMAIN tx = {0, 1} /\ IsSeq(tx[0]) /\ IsSeq(tx[1]) /\ h \in {0, 1}
      /\ IsSeq(tx[h]) /\ Len(tx[h]) <= HALF /\ IsSeq(net_fifo)
  BY DEF DInv, TxInv
<1>2. Len(tx[h]) \in Nat /\ Len(net_fifo) \in Nat /\ HALF \in Nat /\ mip.level \in Nat
  BY <1>1, LenIsNat, Numbers
<1>3. HALF - Len(tx[h]) \in Nat
  BY <1>1, <1>2
<1>4. n \in Nat /\ n <= HALF - Len(tx[h])
  BY <1>2, <1>3, ToDmaLess
<1>5. HALF - Len(tx[h]) - n \in Nat
  <2> HIDE DEF n
  <2> QED BY <1>3, <1>4
<1>6. m \in Nat /\ m <= mip.level /\ m <= HALF - Len(tx[h]) - n
  <2> HIDE DEF n
  <2> QED BY <1>2, <1>5, ToDmaLess
<1>7. /\ pc = "prepare" /\ tx' = [tx EXCEPT ![h] = tx[h] \o a \o b]
      /\ net_fifo' = SubSeq(net_fifo, n + 1, Len(net_fifo))
      /\ mop' = mop /\ use_count' = use_count /\ dma_txOffset' = dma_txOffset
      /\ filter' = filter /\ dma_rxSize' = dma_rxSize /\ dma_doFilter' = dma_doFilter
      /\ dma_state' = dma_state /\ engine' = engine /\ mipLevel' = mipLevel
      /\ mopQueue' = mopQueue
  BY DEF Prepare, rx, board
<1>8. move["fetch"] = Idle /\ move["fetch"].n = 0
  BY <1>7, Numbers, IdleWhenNone DEF DInv, MoversInv
<1>9. \/ m = 0 /\ mip' = mip /\ move' = move
      \/ /\ m # 0 /\ mip' = ReadCopied(mip, m) /\ pc' = "taken"
         /\ move' = [move EXCEPT !["fetch"] = Transfer(mip.read, m)]
  BY DEF Prepare, Goto
<1>10. TxInv'
  <2>1. IsSeq(a) /\ Len(a) = n
    <3> HIDE DEF n
    <3>1. 1 \in Int /\ n \in Int /\ 1 <= n + 1 /\ n + 1 - 1 = n
      BY <1>4
    <3>2. QED
      BY <3>1, SubSeqIsSeq
  <2>2. IsSeq(b) /\ Len(b) = m
    <3> HIDE DEF m
    <3>1. <<>> \in Seq({}) /\ Len(<<>>) = 0
      OBVIOUS
    <3>2. IsSeq(<<>>)
      BY <3>1, SeqIsSeq
    <3>3. IsSeq(Contents(mip, m)) /\ Len(Contents(mip, m)) = m
      BY <1>6, ContentsIsSeq
    <3>4. QED
      BY <3>1, <3>2, <3>3
  <2> HIDE DEF a, b, n, m
  <2>3. IsSeq(tx[h] \o a) /\ Len(tx[h] \o a) = Len(tx[h]) + n
    BY <1>1, <2>1, ConcatIsSeq
  <2>4. IsSeq(tx[h] \o a \o b) /\ Len(tx[h] \o a \o b) = Len(tx[h]) + n + m
    BY <2>2, <2>3, ConcatIsSeq
  <2>5. Len(tx[h] \o a \o b) <= HALF
    <3>1. \A x, y, z, k \in Nat : z <= k - x - y => x + y + z <= k
      OBVIOUS
    <3>2. Len(tx[h]) + n + m <= HALF
      BY <1>2, <1>4, <1>6, <3>1
    <3>3. QED
      BY <2>4, <3>2
  <2>6. IsSeq(net_fifo')
    <3>1. n + 1 \in Int /\ Len(net_fifo) \in Int
      BY <1>2, <1>4
    <3>2. QED
      BY <1>7, <3>1, SubSeqIsSeq
  <2>7. /\ DOMAIN tx' = {0, 1} /\ IsSeq(tx'[0]) /\ IsSeq(tx'[1]) /\ Len(tx'[h]) <= HALF
    BY <1>1, <1>7, <2>4, <2>5
  <2>8. QED
    BY <1>7, <2>6, <2>7 DEF DInv, TxInv
<1> HIDE DEF a, b, n, m
<1>11. \A t \in {"write", "read", "store"} : move'[t] = move[t]
  BY <1>9 DEF DInv, MoversInv
<1>12. FilterInv'
  BY <1>7, <1>11 DEF DInv, FilterInv
<1>13. CASE m = 0
  BY <1>7, <1>8, <1>9, <1>10, <1>12, <1>13 DEF DInv, RingsInv, MoversInv
<1>14. CASE m # 0
  <2>1. Ring(mip, move["write"], Idle) /\ m > 0
    BY <1>6, <1>8, <1>14 DEF DInv, RingsInv
  <2>2. Ring(ReadCopied(mip, m), move["write"], Transfer(mip.read, m))
    BY <1>6, <2>1, ReadBegins
  <2>3. move'["fetch"] = Transfer(mip.read, m)
    BY <1>9, <1>14 DEF DInv, MoversInv
  <2>4. RingsInv'
    BY <1>7, <1>9, <1>11, <1>14, <2>2, <2>3 DEF DInv, RingsInv
  <2>5. move'["fetch"] \in Transfers
    BY <2>4 DEF RingsInv, Ring
  <2>6. MoversInv'
    BY <1>7, <1>9, <1>11, <1>14, <2>5 DEF DInv, MoversInv
  <2>7. QED
    BY <1>10, <1>12, <2>4, <2>6 DEF DInv
<1>15. QED
  BY <1>13, <1>14

LEMMA PrepareEndStep == ASSUME DInv, PrepareEnd PROVE DInv'
<1>1. Idle \in Transfers /\ Idle.n = 0
  BY DEF Idle, Transfers
<1>2. move'["fetch"] = Idle /\ \A t \in {"write", "read", "store"} : move'[t] = move[t]
  BY DEF DInv, MoversInv, PrepareEnd
<1>3. RingsInv'
  <2>1. Ring(mip, move["write"], move["fetch"])
    BY DEF DInv, RingsInv
  <2>2. Ring(ReadDone(mip, move["fetch"]), move["write"], Idle)
    BY <2>1, ReadEnds
  <2>3. Ring(mip', move'["write"], move'["fetch"])
    BY <1>2, <2>2 DEF PrepareEnd
  <2>4. Ring(mop', move'["store"], move'["read"])
    BY <1>2 DEF DInv, RingsInv, PrepareEnd
  <2>5. QED
    BY <2>3, <2>4 DEF RingsInv
<1>4. MoversInv'
  BY <1>1, <1>2 DEF DInv, MoversInv, PrepareEnd, rx
<1>5. FilterInv' /\ TxInv'
  BY <1>2 DEF DInv, FilterInv, TxInv, PrepareEnd, rx, board
<1>6. QED
  BY <1>3, <1>4, <1>5 DEF DInv

LEMMA DmaBusyStep == ASSUME DInv, DmaBusy PROVE DInv'
<1>1. RingsInv' /\ FilterInv' /\ TxInv'
  BY DEF DInv, RingsInv, FilterInv, TxInv, DmaBusy, rings, rx, board
<1>2. MoversInv'
  BY DEF DInv, MoversInv, DmaBusy, rx
<1>3. QED
  BY <1>1, <1>2 DEF DInv

LEMMA PauseStep == ASSUME DInv, Pause PROVE DInv'
<1>1. RingsInv' /\ FilterInv' /\ TxInv'
  BY DEF DInv, RingsInv, FilterInv, TxInv, Pause, rings, rx, board
<1>2. MoversInv'
  BY DEF DInv, MoversInv, Pause, rx
<1>3. QED
  BY <1>1, <1>2 DEF DInv

LEMMA ScheduleStep == ASSUME DInv, Schedule PROVE DInv'
<1>1. RingsInv' /\ FilterInv' /\ TxInv'
  BY DEF DInv, RingsInv, FilterInv, TxInv, Schedule, rings, rx, board
<1>2. MoversInv'
  BY DEF DInv, MoversInv, Schedule, rx
<1>3. QED
  BY <1>1, <1>2 DEF DInv

\* What the engine may leave is less than the whole.
LEMMA LeftoverLess ==
  ASSUME NEW n \in Nat, NEW left \in Leftover(n)
  PROVE  left \in Nat /\ left <= n
<1>1. PICK tlps \in Tlps : left = n % tlps
  BY DEF Leftover
<1>2. tlps \in Nat /\ tlps > 0
  BY DmaAssumption
<1>3. QED
  BY <1>1, <1>2

LEMMA RestFits ==
  ASSUME NEW s, IsSeq(s), NEW n \in Nat, NEW left \in Nat, left <= n, n <= Len(s)
  PROVE  IsSeq(Rest(s, n, left)) /\ Len(Rest(s, n, left)) <= Len(s)
<1>1. Len(s) \in Nat
  BY LenIsNat
<1>2. n - left + 1 \in Int /\ n - left + 1 <= Len(s) + 1
  BY <1>1
<1>3. IsSeq(Rest(s, n, left)) /\ Len(Rest(s, n, left)) = Len(s) + 1 - (n - left + 1)
  BY <1>1, <1>2, SubSeqIsSeq DEF Rest
<1>4. QED
  BY <1>1, <1>2, <1>3

\* The rest of a half goes into the other one, which is filled next.
LEMMA DoTxStep == ASSUME DInv, DoTx PROVE DInv'
<1> DEFINE h == dma_txOffset
           n == Least(Len(tx[h]), HALF - mipLevel)
<1>1. RingsInv'
  BY DEF DInv, RingsInv, DoTx, rings
<1>2. MoversInv'
  BY DEF DInv, MoversInv, DoTx, rx, Goto
<1>3. FilterInv'
  <2>1. dma_state' \notin {"RX_PENDING", "RX_DONE"}
    BY DEF DoTx
  <2>2. QED
    BY <2>1 DEF DInv, FilterInv, DoTx, rx, rings
<1>4. TxInv'
  <2>1. /\ DOMAIN tx = {0, 1} /\ IsSeq(tx[0]) /\ IsSeq(tx[1]) /\ h \in {0, 1}
        /\ IsSeq(tx[h]) /\ Len(tx[h]) <= HALF
        /\ IsSeq(net_fifo') /\ IsSeq(mopQueue') /\ mipLevel \in Int
        /\ engine.half \in {0, 1} /\ engine.n \in Int
    BY DEF DInv, TxInv, DoTx
  <2>2. Len(tx[h]) \in Nat /\ HALF \in Nat
    BY <2>1, LenIsNat, Numbers
  <2>3. n \in Int /\ n <= Len(tx[h])
    BY <2>1, <2>2 DEF Least
  <2>4. CASE dma_doTx /\ n > 0
    <3>1. n \in Nat
      BY <2>3, <2>4
    <3>2. PICK left \in Leftover(n) :
            IF left = n
            THEN /\ mipLevel' = mipLevel + n
                 /\ tx' = [tx EXCEPT ![1 - h] = Rest(tx[h], n, 0), ![h] = <<>>]
                 /\ engine' = engine
            ELSE /\ engine' = [op |-> "tx", half |-> h, n |-> n - left]
                 /\ tx' = [tx EXCEPT ![1 - h] = Rest(tx[h], n, left)]
                 /\ mipLevel' = mipLevel
      BY <2>4 DEF DoTx
    <3>3. left \in Nat /\ left <= n /\ dma_txOffset' = 1 - h /\ 1 - h \in {0, 1} /\ 1 - h # h
      <4>1. left \in Nat /\ left <= n
        <5> HIDE DEF n
        <5> QED BY <3>1, LeftoverLess
      <4>2. dma_txOffset' = 1 - h
        BY <2>4 DEF DoTx
      <4>3. 1 - h \in {0, 1} /\ 1 - h # h
        BY <2>1
      <4>4. QED
        BY <4>1, <4>2, <4>3
    <3> HIDE DEF n
    <3>4. /\ IsSeq(Rest(tx[h], n, 0)) /\ Len(Rest(tx[h], n, 0)) <= HALF
          /\ IsSeq(Rest(tx[h], n, left)) /\ Len(Rest(tx[h], n, left)) <= HALF
      <4>1. 0 \in Nat /\ 0 <= n
        BY <3>1
      <4>2. /\ IsSeq(Rest(tx[h], n, 0)) /\ Len(Rest(tx[h], n, 0)) <= Len(tx[h])
            /\ IsSeq(Rest(tx[h], n, left)) /\ Len(Rest(tx[h], n, left)) <= Len(tx[h])
        BY <2>1, <2>3, <3>1, <3>3, <4>1, RestFits
      <4>3. Len(Rest(tx[h], n, 0)) \in Nat /\ Len(Rest(tx[h], n, left)) \in Nat
        BY <4>2, LenIsNat
      <4>4. QED
        BY <2>1, <2>2, <4>2, <4>3
    <3>5. IsSeq(<<>>)
      <4>1. <<>> \in Seq({})
        OBVIOUS
      <4>2. QED
        BY <4>1, SeqIsSeq
    <3>6. CASE left = n
      <4>1. /\ DOMAIN tx' = {0, 1} /\ tx'[1 - h] = Rest(tx[h], n, 0) /\ tx'[h] = <<>>
            /\ mipLevel' \in Int /\ engine' = engine
        BY <2>1, <3>1, <3>2, <3>3, <3>6
      <4>2. IsSeq(tx'[0]) /\ IsSeq(tx'[1])
        BY <2>1, <3>3, <3>4, <3>5, <4>1
      <4>3. QED
        BY <2>1, <3>3, <3>4, <4>1, <4>2 DEF TxInv
    <3>7. CASE left # n
      <4>1. /\ DOMAIN tx' = {0, 1} /\ tx'[1 - h] = Rest(tx[h], n, left) /\ tx'[h] = tx[h]
            /\ mipLevel' \in Int /\ engine'.half \in {0, 1} /\ engine'.n \in Int
        BY <2>1, <3>1, <3>2, <3>3, <3>7
      <4>2. IsSeq(tx'[0]) /\ IsSeq(tx'[1])
        BY <2>1, <3>3, <3>4, <4>1
      <4>3. QED
        BY <2>1, <3>3, <3>4, <4>1, <4>2 DEF TxInv
    <3>8. QED
      BY <3>6, <3>7
  <2>5. CASE ~(dma_doTx /\ n > 0)
    <3>1. /\ tx' = tx /\ dma_txOffset' = dma_txOffset /\ mipLevel' = mipLevel
          /\ engine' = engine
      BY <2>5 DEF DoTx
    <3>2. QED
      BY <2>1, <3>1 DEF TxInv
  <2>6. QED
    BY <2>4, <2>5
<1>5. QED
  BY <1>1, <1>2, <1>3, <1>4 DEF DInv

\* It reads only while the filter sleeps, so that the filter is woken once.
LEMMA DoRxStep == ASSUME DInv, DoRx PROVE DInv'
<1>1. RingsInv'
  BY DEF DInv, RingsInv, DoRx, rings
<1>2. MoversInv'
  BY DEF DInv, MoversInv, DoRx, Goto
<1>3. Len(mopQueue) \in Nat
  BY LenIsNat DEF DInv, TxInv
<1>4. /\ mop' = mop /\ move' = move /\ filter' = filter /\ tx' = tx
      /\ dma_txOffset' = dma_txOffset /\ net_fifo' = net_fifo /\ mipLevel' = mipLevel
  BY DEF DoRx, rings
<1>5. CASE MayRead /\ mopQueue # <<>>
  <2> DEFINE n == Len(mopQueue)
  <2>1. PICK left \in Leftover(n) :
          IF left = n
          THEN /\ dma_state' = "RX_DONE" /\ dma_rxSize' = dma_rxSize + n
               /\ mopQueue' = <<>> /\ engine' = engine
          ELSE /\ dma_state' = "RX_PENDING" /\ dma_rxSize' = dma_rxSize + n - left
               /\ engine' = [op |-> "rx", half |-> 0, n |-> n - left]
               /\ mopQueue' = mopQueue
    BY <1>5 DEF DoRx
  <2>2. left \in Nat
    BY <1>3, LeftoverLess
  <2>3. dma_doFilter' = TRUE /\ filter.at = "idle"
    BY <1>5 DEF DoRx, MayRead, DInv, FilterInv
  <2>4. dma_rxSize \in Int /\ engine.half \in {0, 1} /\ engine.n \in Int /\ IsSeq(mopQueue)
    BY DEF DInv, FilterInv, TxInv
  <2>5. IsSeq(<<>>)
    <3>1. <<>> \in Seq({})
      OBVIOUS
    <3>2. QED
      BY <3>1, SeqIsSeq
  <2>6. /\ dma_rxSize' \in Int /\ engine'.half \in {0, 1} /\ engine'.n \in Int
        /\ IsSeq(mopQueue')
    <3> HIDE DEF n
    <3>1. n \in Int
      BY <1>3 DEF n
    <3>2. QED
      BY <2>1, <2>2, <2>4, <2>5, <3>1
  <2>7. FilterInv' /\ TxInv'
    BY <1>4, <2>3, <2>6 DEF DInv, FilterInv, TxInv
  <2>8. QED
    BY <1>1, <1>2, <2>7 DEF DInv
<1>6. CASE ~(MayRead /\ mopQueue # <<>>)
  <2>1. /\ dma_state' = dma_state /\ dma_rxSize' = dma_rxSize /\ dma_doFilter' = dma_doFilter
        /\ mopQueue' = mopQueue /\ engine' = engine
    BY <1>6 DEF DoRx
  <2>2. FilterInv' /\ TxInv'
    BY <1>4, <2>1 DEF DInv, FilterInv, TxInv
  <2>3. QED
    BY <1>1, <1>2, <2>2 DEF DInv
<1>7. QED
  BY <1>5, <1>6

-----------------------------------------------------------------------------
(***************************************************************************)
(* The packet filter.                                                      *)
(***************************************************************************)
\* It will store no more than there is room for.
LEMMA FilterStartStep == ASSUME DInv, FilterStart PROVE DInv'
<1> DEFINE x == IF dma_rxSize > BUFFER - mop.level THEN BUFFER - mop.level ELSE dma_rxSize
<1>1. RingsInv' /\ TxInv'
  BY DEF DInv, RingsInv, TxInv, FilterStart, rings, daemon, board
<1>2. filter.at = "queued" /\ filter' = [at |-> "run", done |-> 0, todo |-> x \div PACKET]
  BY DEF FilterStart
<1>3. MoversInv'
  <2>1. move["store"].n = 0
    BY <1>2, Numbers DEF DInv, MoversInv
  <2>2. QED
    BY <2>1, Numbers DEF DInv, MoversInv, FilterStart, daemon
<1>4. FilterInv'
  <2>1. /\ x \in Int /\ x <= BUFFER - mop.level /\ PACKET \in Nat /\ PACKET > 0
        /\ move["store"].n = 0
    BY <1>2, Numbers DEF DInv, FilterInv, MoversInv
  <2> HIDE DEF x
  <2>2. x \div PACKET \in Int /\ (x \div PACKET) * PACKET <= x
    <3>1. Whole(x) <= x
      BY <2>1, WholeLess
    <3>2. QED
      BY <2>1, <3>1 DEF Whole
  <2>3. (x \div PACKET) * PACKET + move["store"].n <= BUFFER - mop.level
    <3> DEFINE y == (x \div PACKET) * PACKET
    <3>1. y \in Int /\ y <= x
      BY <2>1, <2>2
    <3>2. BUFFER \in Nat /\ mop.level \in Int
      BY Numbers
    <3> HIDE DEF y
    <3>3. y + 0 <= BUFFER - mop.level
      BY <2>1, <3>1, <3>2
    <3>4. QED
      BY <2>1, <3>3 DEF y
  <2>4. /\ filter'.at = "run" /\ filter'.todo = x \div PACKET
        /\ filter' \in [at : {"idle", "queued", "run", "stored"}, todo : Int, done : Int]
    BY <1>2, <2>2
  <2>5. /\ mop' = mop /\ move' = move /\ dma_rxSize' = dma_rxSize
        /\ dma_doFilter' = dma_doFilter /\ dma_state' = dma_state
    BY DEF FilterStart, rings
  <2>6. QED
    BY <1>2, <2>3, <2>4, <2>5 DEF DInv, FilterInv
<1>5. QED
  BY <1>1, <1>3, <1>4 DEF DInv

\* A packet less to do takes its size from the room that is counted on.
LEMMA PassedIs ==
  ASSUME DInv
  PROVE  /\ Passed.at = filter.at /\ Passed.todo = filter.todo - 1
         /\ Passed.done = filter.done + PACKET
         /\ Passed \in [at : {"idle", "queued", "run", "stored"}, todo : Int, done : Int]
         /\ Passed.todo * PACKET = filter.todo * PACKET - PACKET
         /\ filter.todo * PACKET \in Int
<1>1. /\ filter \in [at : {"idle", "queued", "run", "stored"}, todo : Int, done : Int]
      /\ PACKET \in Nat
  BY Numbers DEF DInv, FilterInv
<1> DEFINE Jobs == [at : {"idle", "queued", "run", "stored"}, todo : Int, done : Int]
           h == [filter EXCEPT !.todo = filter.todo - 1]
<1>2. /\ h \in Jobs /\ h.at = filter.at /\ h.todo = filter.todo - 1 /\ h.done = filter.done
  BY <1>1
<1>3. Passed = [h EXCEPT !.done = h.done + PACKET]
  BY <1>1 DEF Passed
<1>4. /\ Passed.at = filter.at /\ Passed.todo = filter.todo - 1
      /\ Passed.done = filter.done + PACKET /\ Passed \in Jobs
  <2> HIDE DEF h
  <2> QED BY <1>1, <1>2, <1>3
<1>5. \A i, j \in Int : (i - 1) * j = i * j - j /\ i * j \in Int
  OBVIOUS
<1>6. /\ (filter.todo - 1) * PACKET = filter.todo * PACKET - PACKET
      /\ filter.todo * PACKET \in Int
  <2>1. filter.todo \in Int /\ PACKET \in Int
    BY <1>1
  <2>2. QED
    BY <2>1, <1>5
<1>7. Passed.todo * PACKET = filter.todo * PACKET - PACKET
  BY <1>4, <1>6
<1>8. QED
  BY <1>4, <1>6, <1>7

LEMMA FilterNetStep == ASSUME DInv, FilterNet PROVE DInv'
<1>1. RingsInv' /\ TxInv'
  BY DEF DInv, RingsInv, TxInv, FilterNet, rings, daemon, board
<1>2. filter' = Passed /\ filter.at = "run"
  BY DEF FilterNet
<1>3. MoversInv'
  BY <1>2, PassedIs DEF DInv, MoversInv, FilterNet, daemon
<1>4. FilterInv'
  <2> DEFINE a == filter.todo * PACKET
             b == Passed.todo * PACKET
  <2>1. /\ a \in Int /\ b = a - PACKET /\ PACKET \in Nat /\ move["store"].n \in Nat
        /\ BUFFER - mop.level \in Int
    BY PassedIs, Numbers
  <2>2. a + move["store"].n <= BUFFER - mop.level
    BY <1>2 DEF DInv, FilterInv
  <2>3. b + move["store"].n <= BUFFER - mop.level
    <3> HIDE DEF a, b
    <3> QED BY <2>1, <2>2
  <2>4. /\ mop' = mop /\ move' = move /\ dma_rxSize' = dma_rxSize
        /\ dma_doFilter' = dma_doFilter /\ dma_state' = dma_state
    BY DEF FilterNet, rings
  <2>5. QED
    BY <1>2, <2>3, <2>4, PassedIs DEF DInv, FilterInv
<1>5. QED
  BY <1>1, <1>3, <1>4 DEF DInv

LEMMA FilterStoreStep == ASSUME DInv, FilterStore PROVE DInv'
<1> DEFINE a == filter.todo * PACKET
           b == Passed.todo * PACKET
<1>1. /\ filter.at = "run" /\ filter.todo > 0 /\ filter' = [Passed EXCEPT !.at = "stored"]
      /\ mop' = WriteCopied(mop, Next1, PACKET) /\ mip' = mip
      /\ move' = [move EXCEPT !["store"] = Transfer(mop.write, PACKET)]
      /\ use_count' = use_count /\ pc' = pc /\ dma_rxSize' = dma_rxSize
      /\ dma_doFilter' = dma_doFilter /\ dma_state' = dma_state
  BY DEF FilterStore, daemon
<1>2. move["store"].n = 0 /\ move["store"] = Idle
  BY <1>1, Numbers, IdleWhenNone DEF DInv, MoversInv
<1>3. /\ filter.todo \in Int /\ PACKET \in Nat /\ PACKET > 0 /\ BUFFER - mop.level \in Int
  <2>1. filter.todo \in Int
    BY DEF DInv, FilterInv
  <2>2. BUFFER \in Nat /\ mop.level \in Int /\ PACKET \in Nat /\ PACKET > 0
    BY Numbers
  <2>3. QED
    BY <2>1, <2>2
<1>4. a \in Int /\ b = a - PACKET /\ a <= BUFFER - mop.level
  <2>1. a \in Int /\ b = a - PACKET
    BY PassedIs
  <2>2. a + 0 <= BUFFER - mop.level
    BY <1>1, <1>2 DEF DInv, FilterInv
  <2> HIDE DEF a
  <2>3. QED
    BY <2>1, <2>2
<1>5. PACKET <= a
  <2>1. \A i, j \in Nat : i > 0 => j <= i * j
    OBVIOUS
  <2>2. filter.todo \in Nat
    BY <1>1, <1>3
  <2>3. QED
    BY <1>1, <1>3, <2>1, <2>2
<1> HIDE DEF a, b
<1>6. PACKET <= BUFFER - mop.level
  BY <1>3, <1>4, <1>5
<1>7. /\ Ring(mop', Transfer(mop.write, PACKET), move["read"]) /\ mop'.level = mop.level
  <2>1. Ring(mop, Idle, move["read"])
    BY <1>2 DEF DInv, RingsInv
  <2>2. QED
    BY <1>1, <1>3, <1>6, <2>1, WriteBegins
<1>8. /\ move'["store"] = Transfer(mop.write, PACKET)
      /\ \A t \in {"write", "read", "fetch"} : move'[t] = move[t]
  BY <1>1 DEF DInv, MoversInv
<1>9. RingsInv'
  BY <1>1, <1>7, <1>8 DEF DInv, RingsInv
<1>10. /\ filter'.at = "stored" /\ filter'.todo = Passed.todo
       /\ filter' \in [at : {"idle", "queued", "run", "stored"}, todo : Int, done : Int]
  BY <1>1, PassedIs
<1>11. MoversInv'
  <2>1. Transfer(mop.write, PACKET) \in Transfers
    BY <1>7 DEF Ring
  <2>2. QED
    BY <1>1, <1>8, <1>10, <2>1 DEF DInv, MoversInv
<1>12. FilterInv'
  <2>1. b + PACKET <= BUFFER - mop.level
    BY <1>3, <1>4
  <2>2. move'["store"].n = PACKET
    BY <1>8 DEF Transfer
  <2>3. filter'.todo * PACKET + move'["store"].n <= BUFFER - mop'.level
    BY <1>7, <1>10, <2>1, <2>2 DEF b
  <2>4. QED
    BY <1>1, <1>10, <2>3 DEF DInv, FilterInv
<1>13. TxInv'
  BY DEF DInv, TxInv, FilterStore, daemon, board
<1>14. QED
  BY <1>9, <1>11, <1>12, <1>13 DEF DInv

LEMMA FilterStoredStep == ASSUME DInv, FilterStored PROVE DInv'
<1> DEFINE a == filter.todo * PACKET
<1>1. /\ filter.at = "stored" /\ filter' = [filter EXCEPT !.at = "run"]
      /\ mop' = WriteDone(mop, move["store"]) /\ mip' = mip
      /\ move' = [move EXCEPT !["store"] = Idle]
      /\ use_count' = use_count /\ pc' = pc /\ dma_rxSize' = dma_rxSize
      /\ dma_doFilter' = dma_doFilter /\ dma_state' = dma_state
  BY DEF FilterStored, daemon
<1>2. Idle \in Transfers /\ Idle.n = 0
  BY DEF Idle, Transfers
<1>3. /\ move'["store"] = Idle
      /\ \A t \in {"write", "read", "fetch"} : move'[t] = move[t]
  BY <1>1 DEF DInv, MoversInv
<1>4. Ring(mop', Idle, move["read"]) /\ mop'.level = mop.level + move["store"].n
  <2>1. Ring(mop, move["store"], move["read"])
    BY DEF DInv, RingsInv
  <2>2. QED
    BY <1>1, <2>1, WriteEnds
<1>5. RingsInv'
  BY <1>1, <1>3, <1>4 DEF DInv, RingsInv
<1>6. MoversInv'
  BY <1>1, <1>2, <1>3 DEF DInv, MoversInv
<1>7. FilterInv'
  <2>1. /\ filter'.at = "run" /\ filter'.todo = filter.todo
        /\ filter' \in [at : {"idle", "queued", "run", "stored"}, todo : Int, done : Int]
        /\ filter.todo \in Int
    BY <1>1 DEF DInv, FilterInv
  <2>2. a \in Int /\ a + move["store"].n <= BUFFER - mop.level
    BY <1>1, <2>1, Numbers DEF DInv, FilterInv
  <2>3. a + 0 <= BUFFER - mop'.level
    <3> HIDE DEF a
    <3>1. move["store"].n \in Nat /\ mop.level \in Int /\ BUFFER \in Nat
      BY Numbers
    <3>2. QED
      BY <1>4, <2>2, <3>1
  <2>4. QED
    BY <1>1, <1>2, <1>3, <2>1, <2>3 DEF DInv, FilterInv
<1>8. TxInv'
  BY DEF DInv, TxInv, FilterStored, daemon, board
<1>9. QED
  BY <1>5, <1>6, <1>7, <1>8 DEF DInv

LEMMA FilterEndStep == ASSUME DInv, FilterEnd PROVE DInv'
<1>1. RingsInv' /\ TxInv'
  BY DEF DInv, RingsInv, TxInv, FilterEnd, rings, daemon, board
<1>2. filter.at = "run" /\ filter' = Asleep /\ dma_rxSize' = dma_rxSize - filter.done
  BY DEF FilterEnd
<1>3. MoversInv'
  BY <1>2, Numbers DEF DInv, MoversInv, FilterEnd, daemon
<1>4. FilterInv'
  <2>1. dma_state \notin {"RX_PENDING", "RX_DONE"} /\ dma_rxSize' \in Int
    BY <1>2 DEF DInv, FilterInv
  <2>2. /\ Asleep.at = "idle"
        /\ Asleep \in [at : {"idle", "queued", "run", "stored"}, todo : Int, done : Int]
    BY DEF Asleep
  <2>3. dma_state' = dma_state /\ dma_doFilter' \in BOOLEAN
    BY DEF FilterEnd
  <2>4. QED
    BY <1>2, <2>1, <2>2, <2>3 DEF FilterInv
<1>5. QED
  BY <1>1, <1>3, <1>4 DEF DInv

-----------------------------------------------------------------------------
(***************************************************************************)
(* The rings are sound.                                                    *)
(***************************************************************************)
LEMMA NextInv == ASSUME DInv, [Next]_vars, OPEN_RACES = FALSE PROVE DInv'
<1>1. CASE Program
  BY <1>1, OpenStep, ReleaseStep, WriteStep, WriteEndStep, ReadStep, ReadEndStep DEF Program
<1>2. CASE Daemon
  BY <1>2, LookStep, PrepareStep, PrepareEndStep, DoTxStep, DmaBusyStep, DoRxStep,
     PauseStep, ScheduleStep DEF Daemon
<1>3. CASE Filter
  BY <1>3, FilterStartStep, FilterNetStep, FilterStoreStep, FilterStoredStep, FilterEndStep
     DEF Filter
<1>4. CASE NetSend \/ BoardTakes \/ (\E irq \in Irqs : Isr(irq))
             \/ (\E s \in {"answer", "frame"} : BoardSends(s))
  BY <1>4, NetSendStep, BoardTakesStep, IsrStep, BoardSendsStep
<1>5. CASE UNCHANGED vars
  <2>1. /\ UNCHANGED <<mip, mop, move, net_fifo, use_count, pc, dma_doTx, tx, dma_txOffset>>
        /\ UNCHANGED <<dma_state, frag, fresh, dma_rxSize, dma_doFilter, filter>>
        /\ UNCHANGED <<engine, mipLevel, mopQueue>>
    BY <1>5 DEF vars, rings, daemon, rx, board
  <2>2. QED
    BY <2>1 DEF DInv, RingsInv, MoversInv, FilterInv, TxInv
<1>6. QED
  BY <1>1, <1>2, <1>3, <1>4, <1>5 DEF Next

\* RingsSound for every size of the buffers and packets, every set of PCI packet
\* sizes and also with foreign interrupts, if open does not race with a transfer.
THEOREM RingsAreSound == ASSUME OPEN_RACES = FALSE PROVE Spec => []RingsSound
<1>1. Init => DInv
  BY InitInv
<1>2. DInv /\ [Next]_vars => DInv'
  BY NextInv
<1>3. DInv => RingsSound
  BY DEF DInv, RingsInv, TxInv, Ring, RingsSound
<1>4. QED
  BY <1>1, <1>2, <1>3, PTL DEF Spec

-----------------------------------------------------------------------------
(***************************************************************************)
(* Sequences of packets, and the units they consist of.                    *)
(***************************************************************************)
Packet == Senders \X (Nat \ {0})
Datum  == Senders \X Nat \X Nat

Flat(p) == [i \in 1 .. Len(p) * PACKET |->
              <<p[1 + (i - 1) \div PACKET][1], p[1 + (i - 1) \div PACKET][2],
                1 + ((i - 1) % PACKET)>>]

\* c packets of sender x, the first of them number q + 1.
Run(x, q, c) == [k \in 1 .. c |-> <<x, q + k>>]

LEMMA SameSeq ==
  ASSUME NEW S, NEW s \in Seq(S), NEW t \in Seq(S), Len(s) = Len(t),
         \A i \in 1 .. Len(s) : s[i] = t[i]
  PROVE  s = t
  OBVIOUS

LEMMA CatIs ==
  ASSUME NEW S, NEW s \in Seq(S), NEW t \in Seq(S)
  PROVE  /\ s \o t \in Seq(S) /\ Len(s \o t) = Len(s) + Len(t)
         /\ \A i \in 1 .. Len(s) : (s \o t)[i] = s[i]
         /\ \A i \in 1 .. Len(t) : (s \o t)[Len(s) + i] = t[i]
         /\ \A i \in 1 .. Len(s) + Len(t) : i > Len(s) => (s \o t)[i] = t[i - Len(s)]
  OBVIOUS

LEMMA SubIs ==
  ASSUME NEW S, NEW s \in Seq(S), NEW a \in 1 .. Len(s) + 1, NEW b \in a - 1 .. Len(s)
  PROVE  /\ SubSeq(s, a, b) \in Seq(S) /\ Len(SubSeq(s, a, b)) = b - a + 1
         /\ \A i \in 1 .. b - a + 1 : SubSeq(s, a, b)[i] = s[a + i - 1]
  OBVIOUS

LEMMA SplitAt ==
  ASSUME NEW S, NEW s \in Seq(S), NEW n \in 0 .. Len(s)
  PROVE  s = SubSeq(s, 1, n) \o SubSeq(s, n + 1, Len(s))
<1> DEFINE a == SubSeq(s, 1, n)
           b == SubSeq(s, n + 1, Len(s))
<1>0. Len(s) \in Nat
  OBVIOUS
<1>1. /\ a \in Seq(S) /\ Len(a) = n /\ \A i \in 1 .. n : a[i] = s[i]
  <2>1. 1 \in 1 .. Len(s) + 1 /\ n \in 1 - 1 .. Len(s)
    BY <1>0
  <2>2. a \in Seq(S) /\ Len(a) = n - 1 + 1 /\ \A i \in 1 .. n - 1 + 1 : a[i] = s[1 + i - 1]
    BY <2>1, SubIs
  <2> HIDE DEF a
  <2>3. \A i \in 1 .. n : 1 + i - 1 = i
    OBVIOUS
  <2>4. QED
    BY <2>2, <2>3
<1>2. /\ b \in Seq(S) /\ Len(b) = Len(s) - n /\ \A i \in 1 .. Len(s) - n : b[i] = s[n + i]
  <2>1. n + 1 \in 1 .. Len(s) + 1 /\ Len(s) \in n + 1 - 1 .. Len(s)
    BY <1>0
  <2>2. /\ b \in Seq(S) /\ Len(b) = Len(s) - (n + 1) + 1
        /\ \A i \in 1 .. Len(s) - (n + 1) + 1 : b[i] = s[n + 1 + i - 1]
    BY <2>1, SubIs
  <2> HIDE DEF b
  <2>3. /\ Len(s) - (n + 1) + 1 = Len(s) - n
        /\ \A i \in 1 .. Len(s) - n : n + 1 + i - 1 = n + i
    BY <1>0
  <2>4. QED
    BY <2>2, <2>3
<1> HIDE DEF a, b
<1>3. /\ a \o b \in Seq(S) /\ Len(a \o b) = Len(s)
      /\ \A i \in 1 .. Len(a) : (a \o b)[i] = a[i]
      /\ \A i \in 1 .. Len(a) + Len(b) : i > Len(a) => (a \o b)[i] = b[i - Len(a)]
  <2>1. /\ a \o b \in Seq(S) /\ Len(a \o b) = Len(a) + Len(b)
        /\ \A i \in 1 .. Len(a) : (a \o b)[i] = a[i]
        /\ \A i \in 1 .. Len(a) + Len(b) : i > Len(a) => (a \o b)[i] = b[i - Len(a)]
    BY <1>1, <1>2, CatIs
  <2>2. Len(a) + Len(b) = Len(s)
    BY <1>0, <1>1, <1>2
  <2>3. QED
    BY <2>1, <2>2
<1>4. ASSUME NEW i \in 1 .. Len(s) PROVE (a \o b)[i] = s[i]
  <2>1. CASE i <= n
    <3>1. i \in 1 .. Len(a)
      BY <1>1, <2>1
    <3>2. QED
      BY <1>1, <1>3, <3>1
  <2>2. CASE i > n
    <3>1. i \in 1 .. Len(a) + Len(b) /\ i > Len(a) /\ i - n \in 1 .. Len(s) - n /\ n + (i - n) = i
      BY <1>0, <1>1, <1>2, <2>2
    <3>2. (a \o b)[i] = b[i - Len(a)]
      BY <1>3, <3>1
    <3>3. b[i - n] = s[n + (i - n)]
      BY <1>2, <3>1
    <3>4. QED
      BY <1>1, <3>1, <3>2, <3>3
  <2>3. i <= n \/ i > n
    BY <1>0
  <2>4. QED
    BY <2>1, <2>2, <2>3
<1>5. a \o b = s
  BY <1>3, <1>4, SameSeq
<1>6. QED
  BY <1>5 DEF a, b

\* The parts of a concatenation.
LEMMA Parts ==
  ASSUME NEW S, NEW s \in Seq(S), NEW t \in Seq(S)
  PROVE  /\ SubSeq(s \o t, 1, Len(s)) = s
         /\ SubSeq(s \o t, Len(s) + 1, Len(s \o t)) = t
<1>1. SubSeq(s \o t, 1, Len(s)) = s
  OBVIOUS
<1>2. SubSeq(s \o t, Len(s) + 1, Len(s \o t)) = t
  OBVIOUS
<1>3. QED
  BY <1>1, <1>2

LEMMA Associative ==
  ASSUME NEW S, NEW s \in Seq(S), NEW t \in Seq(S), NEW u \in Seq(S)
  PROVE  (s \o t) \o u = s \o (t \o u)
  OBVIOUS

\* The same as a fact without equations, for use among many others.
Grouped(s, t, u) == (s \o t) \o u = s \o (t \o u)

LEMMA AlwaysGrouped ==
  ASSUME NEW S, NEW s \in Seq(S), NEW t \in Seq(S), NEW u \in Seq(S)
  PROVE  Grouped(s, t, u)
  BY Associative DEF Grouped

LEMMA NothingMore ==
  ASSUME NEW S, NEW s \in Seq(S)
  PROVE  s \o <<>> = s /\ <<>> \o s = s /\ <<>> \in Seq(S) /\ Len(<<>>) = 0
  OBVIOUS

\* Position i is in packet k + 1, at place j.
LEMMA Placed ==
  ASSUME NEW k \in Nat, NEW j \in 1 .. PACKET
  PROVE  /\ ((k * PACKET + j) - 1) \div PACKET = k /\ ((k * PACKET + j) - 1) % PACKET = j - 1
         /\ k * PACKET \in Nat /\ k * PACKET + j \in Nat
<1>1. PACKET \in Nat /\ PACKET > 0
  BY DmaAssumption
<1> DEFINE x == (k * PACKET + j) - 1
<1>2. k * PACKET \in Nat
  BY <1>1
<1>3. x = PACKET * (x \div PACKET) + (x % PACKET) /\ x % PACKET \in 0 .. PACKET - 1
      /\ x \div PACKET \in Int
  BY <1>1, <1>2
<1> DEFINE d == x \div PACKET
           r == x % PACKET
<1>4. PACKET * (d - k) = j - 1 - r
  <2>1. d \in Int /\ r \in Int /\ x = PACKET * d + r
    BY <1>3
  <2> HIDE DEF d, r
  <2>2. PACKET * (d - k) = PACKET * d - k * PACKET
    BY <1>1, <2>1
  <2>3. QED
    BY <1>1, <1>2, <2>1, <2>2
<1>5. d - k = 0
  <2>1. d \in Int /\ r \in 0 .. PACKET - 1
    BY <1>3
  <2> HIDE DEF d, r, x
  <2>2. j - 1 - r < PACKET /\ j - 1 - r > -PACKET
    BY <1>1, <2>1
  <2> DEFINE e == d - k
  <2>3. e \in Int /\ PACKET * e = j - 1 - r
    BY <1>4, <2>1
  <2> HIDE DEF e
  <2>4. e >= 1 => PACKET * e >= PACKET
    BY <1>1, <2>3
  <2>5. e <= -1 => PACKET * e <= -PACKET
    BY <1>1, <2>3
  <2>6. e = 0
    BY <1>1, <2>2, <2>3, <2>4, <2>5
  <2>7. QED
    BY <2>6 DEF e
<1>6. d = k /\ r = j - 1
  <2>1. d \in Int /\ r \in Int
    BY <1>3
  <2> HIDE DEF d, r, x
  <2>2. d = k
    BY <1>5, <2>1
  <2>3. PACKET * (d - k) = 0
    BY <1>1, <1>5
  <2>4. QED
    BY <1>4, <2>1, <2>2, <2>3
<1>7. QED
  BY <1>2, <1>6

LEMMA PlaceOf ==
  ASSUME NEW n \in Nat, NEW i \in 1 .. n * PACKET
  PROVE  \E k \in 0 .. n - 1, j \in 1 .. PACKET : i = k * PACKET + j
<1>1. PACKET \in Nat /\ PACKET > 0 /\ n * PACKET \in Nat
  BY DmaAssumption
<1> DEFINE k == (i - 1) \div PACKET
           j == 1 + ((i - 1) % PACKET)
<1>2. i - 1 = PACKET * k + ((i - 1) % PACKET) /\ (i - 1) % PACKET \in 0 .. PACKET - 1 /\ k \in Nat
  <2>1. i - 1 \in Nat
    BY <1>1
  <2>2. QED
    BY <1>1, <2>1
<1>3. j \in 1 .. PACKET /\ i = k * PACKET + j
  <2>1. (i - 1) % PACKET \in Int
    BY <1>2
  <2>2. PACKET * k = k * PACKET
    BY <1>1, <1>2
  <2>3. QED
    BY <1>1, <1>2, <2>1, <2>2
<1>4. k < n
  <2>1. k \in Nat /\ k * PACKET < n * PACKET
    <3>1. k * PACKET \in Int
      BY <1>1, <1>2
    <3>2. QED
      BY <1>1, <1>2, <1>3, <3>1
  <2> HIDE DEF k
  <2>2. ASSUME k >= n PROVE FALSE
    <3>1. k * PACKET >= n * PACKET
      BY <1>1, <2>1, <2>2
    <3>2. QED
      BY <1>1, <2>1, <3>1
  <2>3. QED
    BY <2>1, <2>2
<1>5. k \in 0 .. n - 1
  BY <1>2, <1>4
<1>6. QED
  BY <1>3, <1>5

LEMMA Quotient == ASSUME NEW n \in Nat PROVE n \div PACKET \in Nat
<1>1. PACKET \in Nat /\ PACKET > 0
  BY DmaAssumption
<1>2. n \div PACKET \in Int
  BY <1>1
<1>3. n >= 0 => n \div PACKET >= 0
  BY <1>1
<1>4. QED
  BY <1>2, <1>3

LEMMA TimesLess ==
  ASSUME NEW a \in Nat, NEW b \in Nat, a < b
  PROVE  a * PACKET + PACKET <= b * PACKET /\ a * PACKET \in Nat /\ b * PACKET \in Nat
<1>1. PACKET \in Nat
  BY DmaAssumption
<1>2. a + 1 <= b
  OBVIOUS
<1>3. (a + 1) * PACKET <= b * PACKET
  BY <1>1, <1>2
<1>4. (a + 1) * PACKET = a * PACKET + PACKET /\ a * PACKET \in Nat /\ b * PACKET \in Nat
  BY <1>1
<1>5. QED
  BY <1>3, <1>4

\* Packets k < n end before n * PACKET.
LEMMA Within ==
  ASSUME NEW n \in Nat, NEW k \in 0 .. n - 1, NEW j \in 1 .. PACKET
  PROVE  k * PACKET + j \in 1 .. n * PACKET
<1>1. PACKET \in Nat /\ n * PACKET \in Nat /\ k * PACKET \in Nat
  BY DmaAssumption
<1>2. (k + 1) * PACKET <= n * PACKET /\ (k + 1) * PACKET = k * PACKET + PACKET
  BY <1>1
<1>3. QED
  BY <1>1, <1>2

LEMMA FlatIs ==
  ASSUME NEW p \in Seq(Packet)
  PROVE  /\ Flat(p) \in Seq(Datum) /\ Len(Flat(p)) = Len(p) * PACKET /\ Len(p) * PACKET \in Nat
         /\ \A k \in 0 .. Len(p) - 1, j \in 1 .. PACKET :
              Flat(p)[k * PACKET + j] = <<p[k + 1][1], p[k + 1][2], j>>
<1>1. PACKET \in Nat /\ PACKET > 0 /\ Len(p) \in Nat /\ Len(p) * PACKET \in Nat
  BY DmaAssumption
<1> DEFINE u(i) == <<p[1 + (i - 1) \div PACKET][1], p[1 + (i - 1) \div PACKET][2],
                     1 + ((i - 1) % PACKET)>>
           n == Len(p) * PACKET
<1>2. Flat(p) = [i \in 1 .. n |-> u(i)]
  BY DEF Flat
<1>3. ASSUME NEW k \in 0 .. Len(p) - 1, NEW j \in 1 .. PACKET
      PROVE  u(k * PACKET + j) = <<p[k + 1][1], p[k + 1][2], j>>
  <2>1. k \in Nat
    BY <1>1
  <2>2. ((k * PACKET + j) - 1) \div PACKET = k /\ ((k * PACKET + j) - 1) % PACKET = j - 1
    BY <2>1, Placed
  <2>3. 1 + (j - 1) = j /\ 1 + k = k + 1
    BY <1>1, <2>1
  <2> DEFINE i == k * PACKET + j
  <2>4. (i - 1) \div PACKET = k /\ (i - 1) % PACKET = j - 1
    BY <2>2
  <2> HIDE DEF i
  <2>5. u(i) = <<p[k + 1][1], p[k + 1][2], j>>
    BY <2>3, <2>4
  <2>6. QED
    BY <2>5 DEF i
<1>4. ASSUME NEW i \in 1 .. n PROVE u(i) \in Datum
  <2>1. PICK k \in 0 .. Len(p) - 1, j \in 1 .. PACKET : i = k * PACKET + j
    BY <1>1, PlaceOf
  <2>2. u(i) = <<p[k + 1][1], p[k + 1][2], j>>
    BY <1>3, <2>1
  <2>3. k + 1 \in 1 .. Len(p) /\ j \in Nat
    BY <1>1
  <2>4. p[k + 1] \in Packet
    BY <2>3
  <2>5. QED
    <3> HIDE DEF u
    <3> QED BY <2>2, <2>3, <2>4 DEF Packet, Datum
<1> HIDE DEF u
<1>5. Flat(p) \in Seq(Datum) /\ Len(Flat(p)) = n
  <2> HIDE DEF n
  <2>1. n \in Nat
    BY <1>1 DEF n
  <2>2. QED
    BY <1>2, <1>4, <2>1
<1>6. ASSUME NEW k \in 0 .. Len(p) - 1, NEW j \in 1 .. PACKET
      PROVE  Flat(p)[k * PACKET + j] = <<p[k + 1][1], p[k + 1][2], j>>
  <2>1. k * PACKET + j \in 1 .. n
    BY <1>1, Within
  <2>2. QED
    BY <1>2, <1>3, <2>1
<1>7. QED
  BY <1>1, <1>5, <1>6

LEMMA FlatCat ==
  ASSUME NEW a \in Seq(Packet), NEW b \in Seq(Packet)
  PROVE  Flat(a \o b) = Flat(a) \o Flat(b)
<1> DEFINE la == Len(a)
           lb == Len(b)
           x == Flat(a)
           y == Flat(b)
           z == Flat(a \o b)
<1>1. a \o b \in Seq(Packet) /\ Len(a \o b) = la + lb /\ la \in Nat /\ lb \in Nat
  OBVIOUS
<1>2. /\ PACKET \in Nat /\ la * PACKET \in Nat /\ lb * PACKET \in Nat
      /\ (la + lb) * PACKET = la * PACKET + lb * PACKET
  BY <1>1, DmaAssumption
<1>3. /\ x \in Seq(Datum) /\ Len(x) = la * PACKET /\ y \in Seq(Datum) /\ Len(y) = lb * PACKET
      /\ z \in Seq(Datum) /\ Len(z) = (la + lb) * PACKET
  BY <1>1, FlatIs
<1>4. /\ x \o y \in Seq(Datum) /\ Len(x \o y) = Len(z)
      /\ \A i \in 1 .. Len(x) : (x \o y)[i] = x[i]
      /\ \A i \in 1 .. Len(y) : (x \o y)[Len(x) + i] = y[i]
  <2> HIDE DEF x, y, z
  <2>1. /\ x \o y \in Seq(Datum) /\ Len(x \o y) = Len(x) + Len(y)
        /\ \A i \in 1 .. Len(x) : (x \o y)[i] = x[i]
        /\ \A i \in 1 .. Len(y) : (x \o y)[Len(x) + i] = y[i]
    <3>1. x \in Seq(Datum) /\ y \in Seq(Datum)
      BY <1>3
    <3>2. QED
      BY <3>1, CatIs
  <2>2. QED
    BY <1>2, <1>3, <2>1
<1>5. ASSUME NEW i \in 1 .. Len(z) PROVE (x \o y)[i] = z[i]
  <2>1. PICK k \in 0 .. la + lb - 1, j \in 1 .. PACKET : i = k * PACKET + j
    <3>1. la + lb \in Nat /\ Len(z) = (la + lb) * PACKET
      BY <1>1, <1>3
    <3> DEFINE n == la + lb
    <3>2. n \in Nat /\ i \in 1 .. n * PACKET
      BY <3>1
    <3> HIDE DEF n
    <3>3. \E k \in 0 .. n - 1, j \in 1 .. PACKET : i = k * PACKET + j
      BY <3>2, PlaceOf
    <3>4. QED
      BY <3>3 DEF n
  <2>2. z[i] = <<(a \o b)[k + 1][1], (a \o b)[k + 1][2], j>>
    <3> DEFINE ab == a \o b
    <3>1. ab \in Seq(Packet) /\ k \in 0 .. Len(ab) - 1
      BY <1>1
    <3>2. Flat(ab)[k * PACKET + j] = <<ab[k + 1][1], ab[k + 1][2], j>>
      <4> HIDE DEF ab
      <4> QED BY <3>1, FlatIs
    <3>3. QED
      BY <2>1, <3>2
  <2>3. CASE k < la
    <3>1. k \in 0 .. la - 1 /\ k + 1 \in 1 .. Len(a)
      BY <1>1, <2>3
    <3>2. (a \o b)[k + 1] = a[k + 1]
      BY <3>1, CatIs
    <3>3. x[i] = <<a[k + 1][1], a[k + 1][2], j>>
      BY <2>1, <3>1, FlatIs
    <3>4. i \in 1 .. Len(x)
      BY <1>1, <1>3, <2>1, <3>1, Within
    <3>5. (x \o y)[i] = x[i]
      BY <1>4, <3>4
    <3>6. QED
      BY <2>2, <3>2, <3>3, <3>5
  <2>4. CASE k >= la
    <3> DEFINE m == k - la
    <3>1. m \in 0 .. lb - 1 /\ k + 1 = Len(a) + (m + 1) /\ m + 1 \in 1 .. Len(b)
      BY <1>1, <2>4
    <3>2. (a \o b)[k + 1] = b[m + 1]
      <4>1. (a \o b)[Len(a) + (m + 1)] = b[m + 1]
        BY <3>1, CatIs
      <4> HIDE DEF m
      <4>2. QED
        BY <3>1, <4>1
    <3>3. y[m * PACKET + j] = <<b[m + 1][1], b[m + 1][2], j>>
      BY <3>1, FlatIs
    <3>4. m * PACKET + j \in 1 .. Len(y)
      BY <1>1, <1>3, <3>1, Within
    <3>5. i = Len(x) + (m * PACKET + j)
      <4>1. m * PACKET = k * PACKET - la * PACKET /\ k * PACKET \in Int
        BY <1>1, <1>2
      <4>2. Len(x) = la * PACKET
        BY <1>3
      <4> HIDE DEF m, la
      <4>3. QED
        BY <1>2, <2>1, <4>1, <4>2
    <3>6. (x \o y)[i] = y[m * PACKET + j]
      <4>1. (x \o y)[Len(x) + (m * PACKET + j)] = y[m * PACKET + j]
        BY <1>4, <3>4
      <4> HIDE DEF x, y, m
      <4>2. QED
        BY <3>5, <4>1
    <3>7. QED
      BY <2>2, <3>2, <3>3, <3>6
  <2>5. k < la \/ k >= la
    BY <1>1
  <2>6. QED
    <3> HIDE DEF x, y, z, la
    <3> QED BY <2>3, <2>4, <2>5
<1> HIDE DEF x, y, z
<1>6. z = x \o y
  BY <1>3, <1>4, <1>5, SameSeq
<1>7. QED
  BY <1>6 DEF x, y, z

LEMMA RunIs ==
  ASSUME NEW x \in Senders, NEW q \in Nat, NEW c \in Nat
  PROVE  /\ Run(x, q, c) \in Seq(Packet) /\ Len(Run(x, q, c)) = c
         /\ \A k \in 1 .. c : Run(x, q, c)[k] = <<x, q + k>>
<1>1. \A k \in 1 .. c : q + k \in Nat \ {0}
  OBVIOUS
<1>2. \A k \in 1 .. c : <<x, q + k>> \in Packet
  BY <1>1 DEF Packet
<1>3. QED
  BY <1>2 DEF Run

\* The first d packets of a run and the others.
LEMMA RunSplit ==
  ASSUME NEW x \in Senders, NEW q \in Nat, NEW c \in Nat, NEW d \in 0 .. c
  PROVE  Run(x, q, c) = Run(x, q, d) \o Run(x, q + d, c - d)
<1> DEFINE r == Run(x, q, c)
           a == Run(x, q, d)
           b == Run(x, q + d, c - d)
<1>0. d \in Nat /\ c - d \in Nat /\ q + d \in Nat
  OBVIOUS
<1>1. r \in Seq(Packet) /\ Len(r) = c /\ \A k \in 1 .. c : r[k] = <<x, q + k>>
  BY RunIs
<1>2. a \in Seq(Packet) /\ Len(a) = d /\ \A k \in 1 .. d : a[k] = <<x, q + k>>
  BY <1>0, RunIs
<1>3. /\ b \in Seq(Packet) /\ Len(b) = c - d
      /\ \A k \in 1 .. c - d : b[k] = <<x, q + d + k>>
  BY <1>0, RunIs
<1> HIDE DEF r, a, b
<1>4. /\ a \o b \in Seq(Packet) /\ Len(a \o b) = Len(r)
      /\ \A i \in 1 .. Len(a) : (a \o b)[i] = a[i]
      /\ \A i \in 1 .. Len(a) + Len(b) : i > Len(a) => (a \o b)[i] = b[i - Len(a)]
  <2>1. /\ a \o b \in Seq(Packet) /\ Len(a \o b) = Len(a) + Len(b)
        /\ \A i \in 1 .. Len(a) : (a \o b)[i] = a[i]
        /\ \A i \in 1 .. Len(a) + Len(b) : i > Len(a) => (a \o b)[i] = b[i - Len(a)]
    BY <1>2, <1>3, CatIs
  <2>2. Len(a) + Len(b) = Len(r)
    BY <1>0, <1>1, <1>2, <1>3
  <2>3. QED
    BY <2>1, <2>2
<1>5. ASSUME NEW k \in 1 .. Len(r) PROVE r[k] = (a \o b)[k]
  <2>1. CASE k <= d
    <3>1. k \in 1 .. Len(a) /\ k \in 1 .. c
      BY <1>1, <1>2, <2>1
    <3>2. QED
      BY <1>1, <1>2, <1>4, <3>1
  <2>2. CASE k > d
    <3>1. /\ k - d \in 1 .. c - d /\ q + d + (k - d) = q + k
          /\ k \in 1 .. Len(a) + Len(b) /\ k > Len(a)
      BY <1>0, <1>1, <1>2, <1>3, <2>2
    <3>2. (a \o b)[k] = b[k - Len(a)]
      BY <1>4, <3>1
    <3>3. r[k] = <<x, q + k>> /\ b[k - d] = <<x, q + d + (k - d)>>
      BY <1>1, <1>3, <3>1
    <3>4. QED
      BY <1>2, <3>1, <3>2, <3>3
  <2>3. k <= d \/ k > d
    BY <1>0, <1>1
  <2>4. QED
    BY <2>1, <2>2, <2>3
<1>6. r = a \o b
  BY <1>1, <1>4, <1>5, SameSeq
<1>7. QED
  BY <1>6 DEF r, a, b

\* What a sender sends next.
LEMMA UnitsAre ==
  ASSUME NEW x \in Senders, NEW m \in Nat, sent[x] \in Nat
  PROVE  Units(x, m) = Flat(Run(x, sent[x], m))
<1> DEFINE r == Run(x, sent[x], m)
<1>1. r \in Seq(Packet) /\ Len(r) = m /\ \A k \in 1 .. m : r[k] = <<x, sent[x] + k>>
  BY RunIs
<1>2. PACKET \in Nat /\ PACKET > 0 /\ m * PACKET \in Nat
  BY DmaAssumption
<1> DEFINE k(i) == 1 + (i - 1) \div PACKET
<1>3. ASSUME NEW i \in 1 .. m * PACKET
      PROVE  /\ r[k(i)][1] = x
             /\ r[k(i)][2] = sent[x] + 1 + (i - 1) \div PACKET
  <2>1. PICK d \in 0 .. m - 1, j \in 1 .. PACKET : i = d * PACKET + j
    BY PlaceOf
  <2>2. (i - 1) \div PACKET = d
    BY <2>1, Placed
  <2>3. k(i) \in 1 .. m /\ k(i) = 1 + d /\ sent[x] + (1 + d) = sent[x] + 1 + d
    BY <2>2
  <2>4. r[k(i)] = <<x, sent[x] + k(i)>>
    BY <1>1, <2>3
  <2>5. QED
    BY <2>2, <2>3, <2>4
<1> HIDE DEF r
<1>4. Flat(r) = [i \in 1 .. m * PACKET |-> <<x, sent[x] + 1 + (i - 1) \div PACKET,
                                             1 + ((i - 1) % PACKET)>>]
  BY <1>1, <1>3 DEF Flat
<1>5. QED
  BY <1>4 DEF Units, r

-----------------------------------------------------------------------------
(***************************************************************************)
(* The order of the packets.                                               *)
(***************************************************************************)
\* Of sender x, the packets up to number q are in p, but for those lost.
Reaches(p, x, q, lost) ==
  /\ \A i \in 1 .. Len(p) : p[i][1] = x => p[i][2] <= q
  /\ \A k \in 1 .. q : <<x, k>> \in lost \cup {p[i] : i \in 1 .. Len(p)}

LEMMA InOrderPrefix ==
  ASSUME NEW p \in Seq(Packet), NEW t \in Seq(Packet), NEW X, NEW lost, InOrder(p \o t, X, lost)
  PROVE  InOrder(p, X, lost)
<1> DEFINE a == p \o t
<1>1. /\ Len(p) \in Nat /\ Len(a) \in Nat /\ Len(p) <= Len(a)
      /\ \A i \in 1 .. Len(p) : a[i] = p[i]
  <2>1. Len(a) = Len(p) + Len(t) /\ Len(p) \in Nat /\ Len(t) \in Nat
    BY CatIs
  <2>2. QED
    BY <2>1, CatIs
<1> SUFFICES ASSUME NEW j \in 1 .. Len(p)
             PROVE  /\ p[j][1] \in X
                    /\ \A i \in 1 .. j - 1 : p[i][1] = p[j][1] => p[i][2] < p[j][2]
                    /\ \A k \in 1 .. p[j][2] - 1 :
                         <<p[j][1], k>> \in lost \cup {p[i] : i \in 1 .. j - 1}
  BY DEF InOrder
<1>2. InOrder(a, X, lost)
  OBVIOUS
<1> HIDE DEF a
<1>3. j \in 1 .. Len(a) /\ a[j] = p[j] /\ \A i \in 1 .. j - 1 : a[i] = p[i]
  BY <1>1
<1>4. /\ a[j][1] \in X
      /\ \A i \in 1 .. j - 1 : a[i][1] = a[j][1] => a[i][2] < a[j][2]
      /\ \A k \in 1 .. a[j][2] - 1 : <<a[j][1], k>> \in lost \cup {a[i] : i \in 1 .. j - 1}
  BY <1>2, <1>3 DEF InOrder
<1>5. {a[i] : i \in 1 .. j - 1} = {p[i] : i \in 1 .. j - 1}
  BY <1>3
<1>6. QED
  BY <1>3, <1>4, <1>5

LEMMA InOrderMore ==
  ASSUME NEW p, NEW X, NEW lost, NEW more, lost \subseteq more, InOrder(p, X, lost)
  PROVE  InOrder(p, X, more)
  BY DEF InOrder

LEMMA ReachesMore ==
  ASSUME NEW p, NEW x, NEW q, NEW lost, NEW more, lost \subseteq more, Reaches(p, x, q, lost)
  PROVE  Reaches(p, x, q, more)
  BY DEF Reaches

\* Packets that are lost count.
LEMMA ReachesLost ==
  ASSUME NEW p, NEW x, NEW q \in Nat, NEW c \in Nat, NEW lost, Reaches(p, x, q, lost),
         \A i \in 1 .. Len(p) : p[i][2] \in Nat,
         \A k \in 1 .. c : <<x, q + k>> \in lost
  PROVE  Reaches(p, x, q + c, lost)
<1>1. \A i \in 1 .. Len(p) : p[i][1] = x => p[i][2] <= q + c
  <2>1. \A n \in Nat : n <= q => n <= q + c
    OBVIOUS
  <2>2. QED
    BY <2>1 DEF Reaches
<1>2. ASSUME NEW k \in 1 .. q + c PROVE <<x, k>> \in lost \cup {p[i] : i \in 1 .. Len(p)}
  <2>1. CASE k <= q
    <3>1. k \in 1 .. q
      BY <2>1
    <3>2. QED
      BY <3>1 DEF Reaches
  <2>2. CASE k > q
    <3>1. k - q \in 1 .. c /\ q + (k - q) = k
      BY <2>2
    <3>2. <<x, q + (k - q)>> \in lost
      BY <3>1
    <3>3. QED
      BY <3>1, <3>2
  <2>3. k <= q \/ k > q
    OBVIOUS
  <2>4. QED
    BY <2>1, <2>2, <2>3
<1>3. QED
  BY <1>1, <1>2 DEF Reaches

LEMMA InOrderRun ==
  ASSUME NEW p \in Seq(Packet), NEW X, NEW lost, NEW x \in Senders, NEW q \in Nat, NEW c \in Nat,
         x \in X, InOrder(p, X, lost), Reaches(p, x, q, lost)
  PROVE  InOrder(p \o Run(x, q, c), X, lost)
<1> DEFINE r == Run(x, q, c)
           a == p \o r
           n == Len(p)
<1>1. /\ r \in Seq(Packet) /\ Len(r) = c /\ \A k \in 1 .. c : r[k] = <<x, q + k>>
  BY RunIs
<1> HIDE DEF r
<1>2. /\ n \in Nat /\ Len(a) = n + c
      /\ \A i \in 1 .. n : a[i] = p[i]
      /\ \A i \in 1 .. Len(a) : i > n => a[i] = r[i - n]
  <2>1. /\ Len(p) \in Nat /\ Len(p \o r) = Len(p) + Len(r)
        /\ \A i \in 1 .. Len(p) : (p \o r)[i] = p[i]
        /\ \A i \in 1 .. Len(p) + Len(r) : i > Len(p) => (p \o r)[i] = r[i - Len(p)]
    <3>1. r \in Seq(Packet)
      BY <1>1
    <3>2. QED
      BY <3>1, CatIs
  <2>2. QED
    BY <1>1, <2>1
<1> HIDE DEF a, n
<1>3. \A i \in 1 .. Len(a) : i > n => a[i] = <<x, q + (i - n)>>
  BY <1>1, <1>2
<1> SUFFICES ASSUME NEW j \in 1 .. Len(a)
             PROVE  /\ a[j][1] \in X
                    /\ \A i \in 1 .. j - 1 : a[i][1] = a[j][1] => a[i][2] < a[j][2]
                    /\ \A k \in 1 .. a[j][2] - 1 :
                         <<a[j][1], k>> \in lost \cup {a[i] : i \in 1 .. j - 1}
  BY DEF InOrder, a, r
<1>4. CASE j <= n
  <2>1. j \in 1 .. Len(p) /\ a[j] = p[j] /\ \A i \in 1 .. j - 1 : a[i] = p[i]
    BY <1>2, <1>4 DEF n
  <2>2. /\ p[j][1] \in X
        /\ \A i \in 1 .. j - 1 : p[i][1] = p[j][1] => p[i][2] < p[j][2]
        /\ \A k \in 1 .. p[j][2] - 1 : <<p[j][1], k>> \in lost \cup {p[i] : i \in 1 .. j - 1}
    BY <2>1 DEF InOrder
  <2>3. {a[i] : i \in 1 .. j - 1} = {p[i] : i \in 1 .. j - 1}
    BY <2>1
  <2>4. QED
    BY <2>1, <2>2, <2>3
<1>5. CASE j > n
  <2>1. a[j] = <<x, q + (j - n)>> /\ a[j][1] = x /\ a[j][2] = q + (j - n) /\ j - n \in 1 .. c
    BY <1>2, <1>3, <1>5
  <2>2. ASSUME NEW i \in 1 .. j - 1, a[i][1] = x PROVE a[i][2] < q + (j - n)
    <3>1. CASE i <= n
      <4>1. i \in 1 .. Len(p) /\ a[i] = p[i]
        BY <1>2, <3>1 DEF n
      <4>2. p[i][2] <= q /\ p[i] \in Packet
        BY <2>2, <4>1 DEF Reaches
      <4>3. p[i][2] \in Nat
        BY <4>2 DEF Packet
      <4>4. QED
        BY <2>1, <4>1, <4>2, <4>3, <1>2
    <3>2. CASE i > n
      <4>1. i \in 1 .. Len(a)
        BY <1>2
      <4>2. a[i][2] = q + (i - n)
        BY <1>3, <3>2, <4>1
      <4>3. QED
        BY <1>2, <4>2
    <3>3. i <= n \/ i > n
      BY <1>2
    <3>4. QED
      BY <3>1, <3>2, <3>3
  <2>3. ASSUME NEW k \in 1 .. q + (j - n) - 1
        PROVE  <<x, k>> \in lost \cup {a[i] : i \in 1 .. j - 1}
    <3>1. CASE k <= q
      <4>1. k \in 1 .. q
        BY <3>1
      <4>2. <<x, k>> \in lost \/ \E i \in 1 .. Len(p) : <<x, k>> = p[i]
        BY <4>1 DEF Reaches
      <4>3. \A i \in 1 .. Len(p) : i \in 1 .. j - 1 /\ a[i] = p[i]
        BY <1>2, <1>5 DEF n
      <4>4. QED
        BY <4>2, <4>3
    <3>2. CASE k > q
      <4> DEFINE i == n + (k - q)
      <4>1. /\ i \in 1 .. j - 1 /\ i \in 1 .. Len(a) /\ i > n /\ q + (i - n) = k
        BY <1>2, <2>1, <3>2
      <4> HIDE DEF i
      <4>2. a[i] = <<x, q + (i - n)>>
        BY <1>3, <4>1
      <4>3. a[i] = <<x, k>>
        BY <4>1, <4>2
      <4>4. QED
        BY <4>1, <4>3
    <3>3. k <= q \/ k > q
      OBVIOUS
    <3>4. QED
      BY <3>1, <3>2, <3>3
  <2> DEFINE y == a[j][1]
             z == a[j][2]
  <2>4. y = x /\ z = q + (j - n)
    BY <2>1
  <2> HIDE DEF y, z
  <2>5. /\ y \in X
        /\ \A i \in 1 .. j - 1 : a[i][1] = y => a[i][2] < z
        /\ \A k \in 1 .. z - 1 : <<y, k>> \in lost \cup {a[i] : i \in 1 .. j - 1}
    <3>1. y \in X
      BY <2>4
    <3>2. \A i \in 1 .. j - 1 : a[i][1] = y => a[i][2] < z
      BY <2>2, <2>4
    <3>3. \A k \in 1 .. z - 1 : <<y, k>> \in lost \cup {a[i] : i \in 1 .. j - 1}
      <4> DEFINE S == lost \cup {a[i] : i \in 1 .. j - 1}
      <4>1. \A k \in 1 .. q + (j - n) - 1 : <<x, k>> \in S
        BY <2>3
      <4> HIDE DEF S
      <4>2. \A k \in 1 .. z - 1 : <<y, k>> \in S
        <5>1. \A k \in 1 .. z - 1 : k \in 1 .. q + (j - n) - 1
          BY <1>2, <2>1, <2>4
        <5>2. QED
          BY <2>4, <4>1, <5>1
      <4>3. QED
        BY <4>2 DEF S
    <3>4. QED
      BY <3>1, <3>2, <3>3
  <2>6. QED
    BY <2>5 DEF y, z
<1>6. j <= n \/ j > n
  BY <1>2
<1>7. QED
  BY <1>4, <1>5, <1>6

LEMMA ReachesRun ==
  ASSUME NEW p \in Seq(Packet), NEW lost, NEW x \in Senders, NEW q \in Nat, NEW c \in Nat,
         Reaches(p, x, q, lost)
  PROVE  Reaches(p \o Run(x, q, c), x, q + c, lost)
<1> DEFINE r == Run(x, q, c)
           a == p \o r
           n == Len(p)
<1>1. /\ r \in Seq(Packet) /\ Len(r) = c /\ \A k \in 1 .. c : r[k] = <<x, q + k>>
  BY RunIs
<1> HIDE DEF r
<1>2. /\ n \in Nat /\ Len(a) = n + c
      /\ \A i \in 1 .. n : a[i] = p[i]
      /\ \A i \in 1 .. Len(a) : i > n => a[i] = r[i - n]
  <2>1. /\ Len(p) \in Nat /\ Len(p \o r) = Len(p) + Len(r)
        /\ \A i \in 1 .. Len(p) : (p \o r)[i] = p[i]
        /\ \A i \in 1 .. Len(p) + Len(r) : i > Len(p) => (p \o r)[i] = r[i - Len(p)]
    <3>1. r \in Seq(Packet)
      BY <1>1
    <3>2. QED
      BY <3>1, CatIs
  <2>2. QED
    BY <1>1, <2>1
<1> HIDE DEF a, n
<1>3. \A i \in 1 .. Len(a) : i > n => a[i] = <<x, q + (i - n)>>
  BY <1>1, <1>2
<1>4. ASSUME NEW i \in 1 .. Len(a), a[i][1] = x PROVE a[i][2] <= q + c
  <2>1. CASE i <= n
    <3>1. i \in 1 .. Len(p) /\ a[i] = p[i]
      BY <1>2, <2>1 DEF n
    <3>2. p[i][2] <= q /\ p[i] \in Packet
      BY <1>4, <3>1 DEF Reaches
    <3>3. p[i][2] \in Nat
      BY <3>2 DEF Packet
    <3>4. QED
      BY <3>1, <3>2, <3>3
  <2>2. CASE i > n
    <3>1. a[i][2] = q + (i - n)
      BY <1>3, <2>2
    <3>2. QED
      BY <1>2, <3>1
  <2>3. i <= n \/ i > n
    BY <1>2
  <2>4. QED
    BY <2>1, <2>2, <2>3
<1>5. ASSUME NEW k \in 1 .. q + c PROVE <<x, k>> \in lost \cup {a[i] : i \in 1 .. Len(a)}
  <2>1. CASE k <= q
    <3>1. k \in 1 .. q
      BY <2>1
    <3>2. <<x, k>> \in lost \/ \E i \in 1 .. Len(p) : <<x, k>> = p[i]
      BY <3>1 DEF Reaches
    <3>3. \A i \in 1 .. Len(p) : i \in 1 .. Len(a) /\ a[i] = p[i]
      BY <1>2 DEF n
    <3>4. QED
      BY <3>2, <3>3
  <2>2. CASE k > q
    <3> DEFINE i == n + (k - q)
    <3>1. i \in 1 .. Len(a) /\ i > n /\ q + (i - n) = k
      BY <1>2, <2>2
    <3> HIDE DEF i
    <3>2. a[i] = <<x, q + (i - n)>>
      BY <1>3, <3>1
    <3>3. a[i] = <<x, k>>
      BY <3>1, <3>2
    <3>4. QED
      BY <3>1, <3>3
  <2>3. k <= q \/ k > q
    OBVIOUS
  <2>4. QED
    BY <2>1, <2>2, <2>3
<1>6. QED
  BY <1>4, <1>5 DEF Reaches, a, r

LEMMA ReachesOther ==
  ASSUME NEW p \in Seq(Packet), NEW lost, NEW x \in Senders, NEW q \in Nat, NEW c \in Nat,
         NEW y, NEW n, y # x, Reaches(p, y, n, lost)
  PROVE  Reaches(p \o Run(x, q, c), y, n, lost)
<1> DEFINE r == Run(x, q, c)
           a == p \o r
<1>1. /\ r \in Seq(Packet) /\ Len(r) = c /\ \A k \in 1 .. c : r[k] = <<x, q + k>>
  BY RunIs
<1> HIDE DEF r
<1>2. /\ Len(p) \in Nat /\ Len(a) = Len(p) + c
      /\ \A i \in 1 .. Len(p) : a[i] = p[i]
      /\ \A i \in 1 .. Len(a) : i > Len(p) => a[i] = r[i - Len(p)]
  <2>1. /\ Len(a) = Len(p) + Len(r) /\ \A i \in 1 .. Len(p) : a[i] = p[i]
        /\ \A i \in 1 .. Len(p) + Len(r) : i > Len(p) => a[i] = r[i - Len(p)]
    <3>1. r \in Seq(Packet)
      BY <1>1
    <3>2. QED
      BY <3>1, CatIs
  <2> HIDE DEF a
  <2>2. Len(p) \in Nat
    OBVIOUS
  <2>3. QED
    BY <1>1, <2>1, <2>2
<1> HIDE DEF a
<1>3. ASSUME NEW i \in 1 .. Len(a), a[i][1] = y PROVE a[i][2] <= n
  <2>1. CASE i > Len(p)
    <3>1. i - Len(p) \in 1 .. c
      BY <1>2, <2>1
    <3>2. a[i][1] = x
      BY <1>1, <1>2, <2>1, <3>1
    <3>3. QED
      BY <1>3, <3>2
  <2>2. CASE ~(i > Len(p))
    <3>1. i \in 1 .. Len(p)
      BY <1>2, <2>2
    <3>2. QED
      BY <1>2, <1>3, <3>1 DEF Reaches
  <2>3. QED
    BY <2>1, <2>2
<1>4. ASSUME NEW k \in 1 .. n PROVE <<y, k>> \in lost \cup {a[i] : i \in 1 .. Len(a)}
  <2>1. <<y, k>> \in lost \/ \E i \in 1 .. Len(p) : <<y, k>> = p[i]
    BY DEF Reaches
  <2>2. \A i \in 1 .. Len(p) : i \in 1 .. Len(a) /\ a[i] = p[i]
    BY <1>2
  <2>3. QED
    BY <2>1, <2>2
<1>5. QED
  BY <1>3, <1>4 DEF Reaches, a, r

\* In what the board sends, the next packet of a sender has the next number.
LEMMA NextNumber ==
  ASSUME NEW p \in Seq(Packet), NEW u \in Seq(Packet), NEW X, NEW x, NEW q \in Nat,
         InOrder(p \o u, X, {}), Reaches(p, x, q, {}), 1 <= Len(u), u[1][1] = x
  PROVE  u[1] = <<x, q + 1>>
<1> DEFINE a == p \o u
           j == Len(p) + 1
           n == u[1][2]
<1>1. /\ Len(p) \in Nat /\ Len(u) \in Nat /\ Len(a) = Len(p) + Len(u)
      /\ \A i \in 1 .. Len(p) : a[i] = p[i]
      /\ \A i \in 1 .. Len(u) : a[Len(p) + i] = u[i]
  BY CatIs
<1>2. InOrder(a, X, {})
  OBVIOUS
<1> HIDE DEF a
<1>3. j \in 1 .. Len(a) /\ a[j] = u[1] /\ j - 1 = Len(p)
  <2>1. 1 \in 1 .. Len(u)
    BY <1>1
  <2>2. QED
    BY <1>1, <2>1
<1>4. u[1] \in Packet
  BY <1>1
<1>5. u[1] = <<x, n>> /\ n \in Nat \ {0}
  BY <1>4 DEF Packet
<1>6. /\ \A i \in 1 .. j - 1 : a[i][1] = x => a[i][2] < n
      /\ \A k \in 1 .. n - 1 : <<x, k>> \in {a[i] : i \in 1 .. j - 1}
  <2> HIDE DEF j, n
  <2>1. /\ \A i \in 1 .. j - 1 : a[i][1] = a[j][1] => a[i][2] < a[j][2]
        /\ \A k \in 1 .. a[j][2] - 1 : <<a[j][1], k>> \in {} \cup {a[i] : i \in 1 .. j - 1}
    BY <1>2, <1>3 DEF InOrder
  <2>2. a[j][1] = x /\ a[j][2] = n
    BY <1>3, <1>5
  <2>3. QED
    BY <2>1, <2>2
<1>7. /\ \A i \in 1 .. Len(p) : p[i][1] = x => p[i][2] < n
      /\ \A k \in 1 .. n - 1 : \E i \in 1 .. Len(p) : <<x, k>> = p[i]
  <2> HIDE DEF n, j
  <2>1. \A i \in 1 .. Len(p) : i \in 1 .. j - 1 /\ a[i] = p[i]
    BY <1>1, <1>3
  <2>2. \A k \in 1 .. n - 1 : \E i \in 1 .. j - 1 : <<x, k>> = a[i]
    BY <1>6
  <2>3. 1 .. j - 1 = 1 .. Len(p)
    BY <1>3
  <2>4. \A k \in 1 .. n - 1 : \E i \in 1 .. Len(p) : <<x, k>> = p[i]
    BY <2>1, <2>2, <2>3
  <2>5. QED
    BY <1>6, <2>1, <2>4
<1> HIDE DEF n, j
<1>8. n > q
  <2>1. CASE q = 0
    BY <1>5, <2>1
  <2>2. CASE q # 0
    <3>1. q \in 1 .. q
      BY <2>2
    <3>2. PICK i \in 1 .. Len(p) : <<x, q>> = p[i]
      BY <3>1 DEF Reaches
    <3>3. p[i][1] = x /\ p[i][2] = q
      BY <3>2
    <3>4. q < n
      BY <1>7, <3>3
    <3>5. QED
      BY <1>5, <3>4
  <2>3. QED
    BY <2>1, <2>2
<1>9. ASSUME n > q + 1 PROVE FALSE
  <2>1. q + 1 \in 1 .. n - 1
    BY <1>5, <1>9
  <2>2. PICK i \in 1 .. Len(p) : <<x, q + 1>> = p[i]
    BY <1>7, <2>1
  <2>3. p[i][1] = x /\ p[i][2] = q + 1
    BY <2>2
  <2>4. q + 1 <= q
    BY <2>3 DEF Reaches
  <2>5. QED
    BY <2>4
<1>10. n = q + 1
  BY <1>5, <1>8, <1>9
<1>11. QED
  BY <1>5, <1>10

\* s is the beginning of whole packets in order: it carries packets in order, the last
\* of which may be incomplete.
LEMMA CarriesPrefix ==
  ASSUME NEW s \in Seq(Datum), NEW t \in Seq(Datum), NEW p \in Seq(Packet), NEW X,
         s \o t = Flat(p), InOrder(p, X, log.lost)
  PROVE  Carries(s, X)
<1> DEFINE L == Len(s)
           m == (L + PACKET - 1) \div PACKET
<1>1. PACKET \in Nat /\ PACKET > 0 /\ L \in Nat /\ Len(p) \in Nat
  BY DmaAssumption
<1>2. /\ Len(Flat(p)) = Len(p) * PACKET
      /\ \A k \in 0 .. Len(p) - 1, j \in 1 .. PACKET :
           Flat(p)[k * PACKET + j] = <<p[k + 1][1], p[k + 1][2], j>>
  BY FlatIs
<1>3. L <= Len(p) * PACKET /\ \A i \in 1 .. L : s[i] = Flat(p)[i]
  <2>1. /\ Len(s \o t) = Len(s) + Len(t) /\ Len(t) \in Nat
        /\ \A i \in 1 .. Len(s) : (s \o t)[i] = s[i]
    BY CatIs
  <2>2. QED
    BY <1>1, <1>2, <2>1
<1>4. /\ m \in Nat /\ L <= m * PACKET /\ m * PACKET < L + PACKET
  <2> DEFINE v == L + PACKET - 1
  <2>1. v \in Nat
    BY <1>1
  <2>2. v = PACKET * (v \div PACKET) + (v % PACKET) /\ v % PACKET \in 0 .. PACKET - 1
        /\ v \div PACKET \in Nat
    <3> HIDE DEF v
    <3>1. /\ v % PACKET \in 0 .. PACKET - 1
          /\ v \div PACKET \in Int /\ v \div PACKET >= 0
      <4>1. v % PACKET \in 0 .. PACKET - 1
        BY <1>1, <2>1
      <4>2. v \div PACKET \in Int
        BY <1>1, <2>1
      <4>3. v \div PACKET >= 0
        BY <2>1, Quotient
      <4>4. QED
        BY <4>1, <4>2, <4>3
    <3>2. v = PACKET * (v \div PACKET) + (v % PACKET)
      BY <1>1, <2>1
    <3>3. QED
      BY <3>1, <3>2
  <2> DEFINE d == v \div PACKET
             e == v % PACKET
  <2>3. d \in Nat /\ e \in 0 .. PACKET - 1 /\ v = PACKET * d + e /\ m = d
    BY <2>2
  <2> HIDE DEF d, e, m
  <2>4. d * PACKET = PACKET * d /\ PACKET * d \in Nat
    BY <1>1, <2>3
  <2>5. QED
    BY <1>1, <2>3, <2>4
<1> HIDE DEF m
<1>5. m <= Len(p)
  <2>1. ASSUME m > Len(p) PROVE FALSE
    <3>1. Len(p) * PACKET + PACKET <= m * PACKET
      BY <1>1, <1>4, <2>1, TimesLess
    <3>2. Len(p) * PACKET \in Nat /\ m * PACKET \in Nat
      BY <1>1, <1>4
    <3>3. QED
      BY <1>1, <1>3, <1>4, <3>1, <3>2
  <2>2. QED
    BY <1>1, <1>4, <2>1
<1>6. ASSUME NEW i \in 1 .. m PROVE <<s[(i - 1) * PACKET + 1][1], s[(i - 1) * PACKET + 1][2]>> = p[i]
  <2> DEFINE k == i - 1
  <2>1. k \in 0 .. Len(p) - 1 /\ 1 \in 1 .. PACKET /\ k + 1 = i /\ k \in Nat
    BY <1>1, <1>4, <1>5
  <2>2. Flat(p)[k * PACKET + 1] = <<p[i][1], p[i][2], 1>>
    <3>1. Flat(p)[k * PACKET + 1] = <<p[k + 1][1], p[k + 1][2], 1>>
      BY <1>2, <2>1
    <3> HIDE DEF k
    <3>2. QED
      BY <2>1, <3>1
  <2>3. k * PACKET + 1 \in 1 .. L
    <3>1. k * PACKET \in Nat /\ (k + 1) * PACKET = k * PACKET + PACKET
      BY <1>1, <2>1
    <3>2. (k + 1) * PACKET <= m * PACKET
      BY <1>1, <1>4, <2>1
    <3>3. m * PACKET \in Nat
      BY <1>1, <1>4
    <3> HIDE DEF k
    <3>4. QED
      BY <1>1, <1>4, <3>1, <3>2, <3>3
  <2>4. s[k * PACKET + 1] = <<p[i][1], p[i][2], 1>>
    BY <1>3, <2>2, <2>3
  <2>5. p[i] = <<p[i][1], p[i][2]>>
    <3>1. i \in 1 .. Len(p)
      BY <1>1, <1>4, <1>5
    <3>2. p[i] \in Packet
      BY <3>1
    <3>3. QED
      BY <3>2 DEF Packet
  <2>6. QED
    BY <2>4, <2>5
<1>7. Packets(s) = SubSeq(p, 1, m)
  <2>1. /\ SubSeq(p, 1, m) \in Seq(Packet) /\ Len(SubSeq(p, 1, m)) = m
        /\ \A i \in 1 .. m : SubSeq(p, 1, m)[i] = p[i]
    BY <1>1, <1>4, <1>5
  <2>2. Packets(s) = [i \in 1 .. m |-> <<s[(i - 1) * PACKET + 1][1], s[(i - 1) * PACKET + 1][2]>>]
    BY DEF Packets, m
  <2>3. Packets(s) = [i \in 1 .. m |-> p[i]]
    BY <1>6, <2>2
  <2>4. QED
    BY <1>1, <1>4, <1>5, <2>3
<1>8. InOrder(Packets(s), X, log.lost)
  <2>1. m \in 0 .. Len(p)
    BY <1>1, <1>4, <1>5
  <2>2. p = SubSeq(p, 1, m) \o SubSeq(p, m + 1, Len(p))
    BY <2>1, SplitAt
  <2>3. SubSeq(p, 1, m) \in Seq(Packet) /\ SubSeq(p, m + 1, Len(p)) \in Seq(Packet)
    BY <1>1, <2>1
  <2>4. InOrder(SubSeq(p, 1, m) \o SubSeq(p, m + 1, Len(p)), X, log.lost)
    BY <2>2
  <2> DEFINE a == SubSeq(p, 1, m)
             b == SubSeq(p, m + 1, Len(p))
  <2>5. a \in Seq(Packet) /\ b \in Seq(Packet) /\ InOrder(a \o b, X, log.lost)
    BY <2>3, <2>4
  <2> HIDE DEF a, b
  <2>6. InOrder(a, X, log.lost)
    BY <2>5, InOrderPrefix
  <2>7. QED
    BY <1>7, <2>6 DEF a
<1>9. ASSUME NEW i \in 1 .. L
      PROVE  LET r == Packets(s)[1 + (i - 1) \div PACKET] IN
             s[i] = <<r[1], r[2], 1 + ((i - 1) % PACKET)>>
  <2>1. i \in 1 .. Len(p) * PACKET /\ i \in 1 .. m * PACKET
    <3>1. Len(p) * PACKET \in Nat /\ m * PACKET \in Nat
      BY <1>1, <1>4
    <3>2. QED
      BY <1>1, <1>3, <1>4, <3>1
  <2>2. PICK k \in 0 .. m - 1, j \in 1 .. PACKET : i = k * PACKET + j
    BY <1>4, <2>1, PlaceOf
  <2>3. k \in Nat /\ k \in 0 .. Len(p) - 1 /\ 1 + k = k + 1 /\ k + 1 \in 1 .. m /\ 1 + (j - 1) = j
    BY <1>1, <1>4, <1>5
  <2>4. (i - 1) \div PACKET = k /\ (i - 1) % PACKET = j - 1
    BY <2>2, <2>3, Placed
  <2>5. s[i] = <<p[k + 1][1], p[k + 1][2], j>>
    BY <1>2, <1>3, <2>2, <2>3
  <2>6. Packets(s)[k + 1] = p[k + 1]
    BY <1>1, <1>4, <1>5, <1>7, <2>3
  <2>7. QED
    BY <2>3, <2>4, <2>5, <2>6
<1>10. QED
  BY <1>8, <1>9 DEF Carries

-----------------------------------------------------------------------------
(***************************************************************************)
(* What is in a ring: the units from where the next read begins, those of  *)
(* a write under way included.                                             *)
(***************************************************************************)
Slot(p, j) == IF p + j <= BUFFER THEN (p + j) - 1 ELSE ((p + j) - 1) - BUFFER

Holds(f, w, r, s) == /\ (f.level - r.n) + w.n = Len(s)
                     /\ \A j \in 1 .. Len(s) : f.data[Slot(Moved(f.read, r), j)] = s[j]

LEMMA SlotIs ==
  ASSUME NEW p \in 0 .. BUFFER, NEW j \in 1 .. BUFFER
  PROVE  (p + j - 1) % BUFFER = Slot(p, j) /\ Slot(p, j) \in 0 .. BUFFER - 1
<1>1. BUFFER \in Nat /\ BUFFER > 0
  BY DmaAssumption
<1>2. Slot(p, j) \in 0 .. BUFFER - 1
  BY <1>1 DEF Slot
<1> DEFINE x == p + j - 1
           d == x \div BUFFER
           e == x % BUFFER
<1>3. x \in Int /\ (x = Slot(p, j) \/ x = BUFFER + Slot(p, j))
  BY <1>1 DEF Slot
<1>4. x = BUFFER * d + e /\ e \in 0 .. BUFFER - 1 /\ d \in Int
  <2> HIDE DEF x
  <2> QED BY <1>1, <1>3
<1> HIDE DEF x, d, e
<1>5. d >= 2 => BUFFER * d >= BUFFER + BUFFER
  BY <1>1, <1>4
<1>6. d <= -1 => BUFFER * d <= -BUFFER
  BY <1>1, <1>4
<1>7. d = 0 \/ d = 1
  <2>1. BUFFER * d \in Int
    BY <1>1, <1>4
  <2>2. x >= 0 /\ x < BUFFER + BUFFER
    BY <1>1, <1>2, <1>3
  <2>3. ~(d >= 2) /\ ~(d <= -1)
    BY <1>1, <1>4, <1>5, <1>6, <2>1, <2>2
  <2>4. QED
    BY <1>4, <2>3
<1>8. BUFFER * 0 = 0 /\ BUFFER * 1 = BUFFER
  BY <1>1
<1>9. e = Slot(p, j)
  BY <1>1, <1>2, <1>3, <1>4, <1>7, <1>8
<1>10. QED
  BY <1>2, <1>9 DEF e, x

LEMMA SlotShift ==
  ASSUME NEW p \in 0 .. BUFFER, NEW h \in 0 .. BUFFER, NEW n \in Nat, NEW j \in Nat,
         1 <= j, n + j <= BUFFER, h = p + n \/ (h = (p + n) - BUFFER /\ p + n > BUFFER)
  PROVE  Slot(h, j) = Slot(p, n + j)
<1>1. BUFFER \in Nat
  BY DmaAssumption
<1>2. CASE h = p + n
  <2>1. h + j = p + (n + j)
    BY <1>1, <1>2
  <2>2. QED
    BY <2>1 DEF Slot
<1>3. CASE h = (p + n) - BUFFER /\ p + n > BUFFER
  <2>1. Slot(h, j) = (h + j) - 1
    BY <1>1, <1>3 DEF Slot
  <2>2. Slot(p, n + j) = ((p + (n + j)) - 1) - BUFFER
    BY <1>1, <1>3 DEF Slot
  <2>3. QED
    BY <1>1, <1>3, <2>1, <2>2
<1>4. QED
  BY <1>2, <1>3

\* How far position q is ahead of position p.
Ahead(p, q) == IF q >= p THEN q - p ELSE q + BUFFER - p

Behind(h, l, p) == \/ p = (h + l) - BUFFER \/ p = h + l
                   \/ p = (h + l) + BUFFER \/ p = ((h + l) - BUFFER) - BUFFER

LEMMA BehindIs ==
  ASSUME NEW h \in 0 .. BUFFER, NEW l \in 0 .. BUFFER, NEW p \in 0 .. BUFFER,
         NEW b \in Int, NEW n \in Int, h = b + n,
         p - b - (l + n) \in {k * BUFFER : k \in -3 .. 2}
  PROVE  Behind(h, l, p)
<1>1. BUFFER \in Nat /\ BUFFER > 0
  BY DmaAssumption
<1> DEFINE x == p - b - (l + n)
<1>2. x \in Int /\ x = p - (h + l)
  BY <1>1
<1>3. \/ x = -(3 * BUFFER) \/ x = -(2 * BUFFER) \/ x = -BUFFER
      \/ x = 0 \/ x = BUFFER \/ x = 2 * BUFFER
  BY <1>2, RoundsAre
<1> HIDE DEF x
<1>4. QED
  BY <1>1, <1>2, <1>3 DEF Behind

\* With l units from h on, p is where the free room begins.
LEMMA AheadIs ==
  ASSUME NEW p \in 0 .. BUFFER, NEW h \in 0 .. BUFFER, NEW l \in 0 .. BUFFER, Behind(h, l, p)
  PROVE  /\ \A j \in 1 .. l : Ahead(p, Slot(h, j)) >= BUFFER - l
         /\ \A i \in 1 .. BUFFER - l : Ahead(p, Slot(h, l + i)) = i - 1
<1>1. BUFFER \in Nat
  BY DmaAssumption
<1>2. ASSUME NEW j \in 1 .. l PROVE Ahead(p, Slot(h, j)) >= BUFFER - l
  <2>1. CASE h + j <= BUFFER
    <3>1. Slot(h, j) = (h + j) - 1
      BY <2>1 DEF Slot
    <3>2. QED
      BY <1>1, <2>1, <3>1 DEF Ahead, Behind
  <2>2. CASE h + j > BUFFER
    <3>1. Slot(h, j) = ((h + j) - 1) - BUFFER
      BY <1>1, <2>2 DEF Slot
    <3>2. QED
      BY <1>1, <2>2, <3>1 DEF Ahead, Behind
  <2>3. QED
    BY <1>1, <2>1, <2>2
<1>3. ASSUME NEW i \in 1 .. BUFFER - l PROVE Ahead(p, Slot(h, l + i)) = i - 1
  <2>1. CASE h + (l + i) <= BUFFER
    <3>1. Slot(h, l + i) = (h + (l + i)) - 1
      BY <2>1 DEF Slot
    <3>2. QED
      BY <1>1, <2>1, <3>1 DEF Ahead, Behind
  <2>2. CASE h + (l + i) > BUFFER
    <3>1. Slot(h, l + i) = ((h + (l + i)) - 1) - BUFFER
      BY <1>1, <2>2 DEF Slot
    <3>2. QED
      BY <1>1, <2>2, <3>1 DEF Ahead, Behind
  <2>3. QED
    BY <1>1, <2>1, <2>2
<1>4. QED
  BY <1>2, <1>3

\* Where a read that is under way will have left the pointer.
LEMMA HeadIs ==
  ASSUME NEW f, NEW w, NEW r, Ring(f, w, r)
  PROVE  /\ Moved(f.read, r) \in 0 .. BUFFER /\ Moved(f.read, r) = Before(f.read, r) + r.n
         /\ r.n \in Nat /\ w.n \in Nat /\ f.level \in 0 .. BUFFER
         /\ r.n <= f.level /\ w.n <= BUFFER - f.level
         /\ f.read \in 0 .. BUFFER /\ f.write \in 0 .. BUFFER
<1>1. /\ r \in Transfers /\ w \in Transfers /\ Fits(f.read, r) /\ BUFFER \in Nat
      /\ f.read \in 0 .. BUFFER /\ f.write \in 0 .. BUFFER /\ f.level \in 0 .. BUFFER
      /\ r.n <= f.level /\ w.n <= BUFFER - f.level
  BY DmaAssumption DEF Ring, Sound
<1>2. r.n \in Nat /\ r.last \in Nat /\ w.n \in Nat
  BY <1>1 DEF Transfers
<1>3. Moved(f.read, r) \in 0 .. BUFFER /\ Moved(f.read, r) = Before(f.read, r) + r.n
  BY <1>1, <1>2 DEF Moved, Before, Fits
<1>4. QED
  BY <1>1, <1>2, <1>3

LEMMA HoldsLen ==
  ASSUME NEW f, NEW w, NEW r, NEW s, Ring(f, w, r), Holds(f, w, r, s)
  PROVE  Len(s) \in 0 .. BUFFER
<1>1. BUFFER \in Nat
  BY DmaAssumption
<1>2. QED
  BY <1>1, HeadIs DEF Holds

\* A read takes the first units, the others stay.
LEMMA HoldsRead ==
  ASSUME NEW S, NEW s \in Seq(S), NEW f, NEW w, NEW n \in Nat,
         Ring(f, w, Idle), Holds(f, w, Idle, s), n <= f.level
  PROVE  /\ n <= Len(s) /\ Contents(f, n) = SubSeq(s, 1, n)
         /\ Holds(ReadCopied(f, n), w, Transfer(f.read, n), SubSeq(s, n + 1, Len(s)))
<1> DEFINE g == ReadCopied(f, n)
           t == Transfer(f.read, n)
           L == Len(s)
<1>1. /\ f.read \in 0 .. BUFFER /\ f.level \in 0 .. BUFFER /\ w.n \in Nat
      /\ w.n <= BUFFER - f.level /\ BUFFER \in Nat /\ Moved(f.read, Idle) = f.read
      /\ Idle.n = 0
  <2>1. BUFFER \in Nat
    BY DmaAssumption
  <2>2. f.read \in 0 .. BUFFER /\ f.level \in 0 .. BUFFER /\ w.n \in Nat
        /\ w.n <= BUFFER - f.level
    BY HeadIs
  <2>3. Moved(f.read, Idle) = f.read /\ Idle.n = 0
    BY <2>1, <2>2 DEF Moved, Idle
  <2>4. QED
    BY <2>1, <2>2, <2>3
<1>2. /\ f.level + w.n = L /\ L \in 0 .. BUFFER /\ n <= L
      /\ \A j \in 1 .. L : f.data[Slot(f.read, j)] = s[j]
  <2>1. /\ (f.level - Idle.n) + w.n = L
        /\ \A j \in 1 .. L : f.data[Slot(Moved(f.read, Idle), j)] = s[j]
    BY DEF Holds
  <2>2. L \in Nat
    OBVIOUS
  <2> HIDE DEF L
  <2>3. QED
    BY <1>1, <2>1, <2>2
<1>3. Contents(f, n) = SubSeq(s, 1, n)
  <2>1. ASSUME NEW i \in 1 .. n PROVE f.data[(f.read + i - 1) % BUFFER] = s[i]
    <3>1. i \in 1 .. BUFFER /\ i \in 1 .. L
      BY <1>1, <1>2
    <3>2. (f.read + i - 1) % BUFFER = Slot(f.read, i)
      BY <1>1, <3>1, SlotIs
    <3>3. QED
      BY <1>2, <3>1, <3>2
  <2>2. Contents(f, n) = [i \in 1 .. n |-> s[i]]
    BY <2>1 DEF Contents
  <2>3. QED
    BY <1>2, <2>2
<1>4. g.data = f.data /\ g.level = f.level /\ g.read = Wrapped(f.read, n)
  <2>1. IsFifo(f)
    BY DEF Ring
  <2>2. g = [f EXCEPT !.read = Wrapped(f.read, n)]
    BY DEF ReadCopied
  <2> HIDE DEF g
  <2>3. QED
    BY <2>1, <2>2 DEF IsFifo
<1>5. t.n = n /\ t.last = LastCopy(f.read, n)
  BY DEF Transfer
<1> HIDE DEF g, t
<1> DEFINE H == Moved(g.read, t)
<1>6. H \in 0 .. BUFFER /\ (H = f.read + n \/ (H = f.read + n - BUFFER /\ f.read + n > BUFFER))
  <2>1. CASE n <= BUFFER - f.read
    <3>1. g.read = f.read /\ t.last = n
      BY <1>4, <1>5, <2>1 DEF Wrapped, LastCopy
    <3>2. H = f.read + n
      BY <1>5, <3>1 DEF Moved
    <3>3. QED
      BY <1>1, <2>1, <3>2
  <2>2. CASE ~(n <= BUFFER - f.read)
    <3>1. g.read = 0 /\ t.last = n - (BUFFER - f.read)
      BY <1>4, <1>5, <2>2 DEF Wrapped, LastCopy
    <3>2. H = n - (BUFFER - f.read)
      <4>1. CASE t.last # t.n
        BY <3>1, <4>1 DEF Moved
      <4>2. CASE t.last = t.n
        <5>1. H = 0 + t.last
          BY <3>1, <4>2 DEF Moved
        <5>2. QED
          BY <1>1, <3>1, <5>1
      <4>3. QED
        BY <4>1, <4>2
    <3>3. QED
      BY <1>1, <1>2, <2>2, <3>2
  <2>3. QED
    BY <2>1, <2>2
<1> HIDE DEF H
<1> DEFINE v == SubSeq(s, n + 1, L)
<1>7. Len(v) = L - n /\ \A j \in 1 .. L - n : v[j] = s[n + j]
  <2>1. L \in Nat /\ n + 1 \in 1 .. L + 1 /\ L \in n + 1 - 1 .. L
    BY <1>1, <1>2
  <2>2. Len(v) = L - (n + 1) + 1 /\ \A j \in 1 .. L - (n + 1) + 1 : v[j] = s[n + 1 + j - 1]
    BY <2>1, SubIs
  <2>3. L - (n + 1) + 1 = L - n /\ \A j \in 1 .. L - n : n + 1 + j - 1 = n + j
    BY <2>1
  <2> HIDE DEF v, L
  <2>4. QED
    BY <2>2, <2>3
<1> HIDE DEF v, L
<1>8. ASSUME NEW j \in 1 .. L - n PROVE g.data[Slot(H, j)] = v[j]
  <2>1. Slot(H, j) = Slot(f.read, n + j)
    <3>1. j \in Nat /\ 1 <= j /\ n + j <= BUFFER
      BY <1>1, <1>2
    <3>2. H = f.read + n \/ (H = (f.read + n) - BUFFER /\ f.read + n > BUFFER)
      BY <1>1, <1>6
    <3>3. QED
      BY <1>1, <1>6, <3>1, <3>2, SlotShift
  <2>2. n + j \in 1 .. L
    BY <1>1, <1>2
  <2>3. QED
    BY <1>2, <1>4, <1>7, <2>1, <2>2
<1>9. (g.level - t.n) + w.n = L - n
  BY <1>1, <1>2, <1>4, <1>5
<1>10. Holds(g, w, t, v)
  BY <1>7, <1>8, <1>9 DEF Holds, H
<1>11. QED
  BY <1>2, <1>3, <1>10 DEF g, t, v, L

LEMMA HoldsReadDone ==
  ASSUME NEW f, NEW w, NEW r, NEW s, Ring(f, w, r), Holds(f, w, r, s)
  PROVE  Holds(ReadDone(f, r), w, Idle, s)
<1> DEFINE g == ReadDone(f, r)
<1>1. IsFifo(f) /\ Moved(f.read, r) \in 0 .. BUFFER /\ r.n \in Nat /\ f.level \in Int /\ BUFFER \in Nat
  <2>1. BUFFER \in Nat /\ IsFifo(f)
    BY DmaAssumption DEF Ring
  <2>2. QED
    BY <2>1, HeadIs
<1>2. g.data = f.data /\ g.level = f.level - r.n /\ g.read = Moved(f.read, r)
  <2>1. g = [f EXCEPT !.level = f.level - r.n, !.read = Moved(f.read, r)]
    BY DEF ReadDone
  <2> HIDE DEF g
  <2>2. QED
    BY <1>1, <2>1 DEF IsFifo
<1> HIDE DEF g
<1>3. Moved(g.read, Idle) = Moved(f.read, r)
  <2>1. Moved(g.read, Idle) = g.read + 0
    BY DEF Moved, Idle
  <2>2. QED
    BY <1>1, <1>2, <2>1
<1>4. (g.level - Idle.n) + w.n = Len(s)
  <2>1. (f.level - r.n) + w.n = Len(s) /\ Idle.n = 0 /\ w.n \in Nat
    BY HeadIs DEF Holds, Idle
  <2>2. QED
    BY <1>1, <1>2, <2>1
<1>5. QED
  BY <1>2, <1>3, <1>4 DEF Holds, g

LEMMA HoldsWriteDone ==
  ASSUME NEW f, NEW w, NEW r, NEW s, Ring(f, w, r), Holds(f, w, r, s)
  PROVE  Holds(WriteDone(f, w), Idle, r, s)
<1> DEFINE g == WriteDone(f, w)
<1>1. IsFifo(f) /\ r.n \in Nat /\ f.level \in Int /\ w.n \in Nat
  <2>1. BUFFER \in Nat /\ IsFifo(f)
    BY DmaAssumption DEF Ring
  <2>2. QED
    BY <2>1, HeadIs
<1>2. g.data = f.data /\ g.level = f.level + w.n /\ g.read = f.read
  <2>1. g = [f EXCEPT !.level = f.level + w.n, !.write = Moved(f.write, w)]
    BY DEF WriteDone
  <2> HIDE DEF g
  <2>2. QED
    BY <1>1, <2>1 DEF IsFifo
<1> HIDE DEF g
<1>3. (g.level - r.n) + Idle.n = Len(s)
  <2>1. (f.level - r.n) + w.n = Len(s) /\ Idle.n = 0
    BY DEF Holds, Idle
  <2>2. QED
    BY <1>1, <1>2, <2>1
<1>4. QED
  BY <1>2, <1>3 DEF Holds, g

LEMMA HoldsNothing ==
  ASSUME NEW f, f.level = 0 PROVE Holds(f, Idle, Idle, <<>>)
<1>1. Len(<<>>) = 0 /\ Idle.n = 0 /\ 1 .. 0 = {}
  BY DEF Idle
<1>2. (f.level - Idle.n) + Idle.n = Len(<<>>)
  BY <1>1
<1>3. QED
  BY <1>1, <1>2 DEF Holds

\* A write appends its units.
LEMMA HoldsWrite ==
  ASSUME NEW S, NEW s \in Seq(S), NEW u \in Seq(S), NEW f, NEW r, NEW n \in Nat,
         Ring(f, Idle, r), Holds(f, Idle, r, s), n = Len(u), n <= BUFFER - f.level
  PROVE  Holds(WriteCopied(f, u, n), Transfer(f.write, n), r, s \o u)
<1> DEFINE g == WriteCopied(f, u, n)
           t == Transfer(f.write, n)
           L == Len(s)
           H == Moved(f.read, r)
           at(q) == Ahead(f.write, q)
           d == [q \in 0 .. BUFFER - 1 |-> IF at(q) < n THEN u[at(q) + 1] ELSE f.data[q]]
<1>1. /\ BUFFER \in Nat /\ H \in 0 .. BUFFER /\ H = Before(f.read, r) + r.n
      /\ r.n \in Nat /\ f.level \in 0 .. BUFFER /\ r.n <= f.level
      /\ f.write \in 0 .. BUFFER
  <2>1. BUFFER \in Nat
    BY DmaAssumption
  <2>2. QED
    BY <2>1, HeadIs
<1>2. L = f.level - r.n /\ L \in 0 .. BUFFER /\ L + n <= BUFFER
      /\ \A j \in 1 .. L : f.data[Slot(H, j)] = s[j]
  <2>1. (f.level - r.n) + Idle.n = L /\ Idle.n = 0
        /\ \A j \in 1 .. L : f.data[Slot(H, j)] = s[j]
    BY DEF Holds, Idle
  <2>2. L \in Nat
    OBVIOUS
  <2> HIDE DEF L
  <2>3. QED
    BY <1>1, <2>1, <2>2
<1>3. Behind(H, L, f.write)
  <2> DEFINE x == Before(f.write, Idle) - Before(f.read, r) - f.level
  <2>1. x \in {k * BUFFER : k \in -3 .. 2}
    BY DEF Ring, Sound
  <2>2. Before(f.write, Idle) = f.write
    BY DEF Before, Idle
  <2>3. Before(f.read, r) \in Int
    <3>1. r \in Transfers /\ f.read \in Int
      BY <1>1, HeadIs DEF Ring
    <3>2. QED
      BY <3>1 DEF Before, Transfers
  <2>4. f.level = L + r.n
    BY <1>1, <1>2
  <2>5. f.write - Before(f.read, r) - (L + r.n) \in {k * BUFFER : k \in -3 .. 2}
    <3> HIDE DEF L
    <3> QED BY <2>1, <2>2, <2>4
  <2>6. QED
    <3> DEFINE b == Before(f.read, r)
               p == f.write
               m == r.n
    <3>1. /\ b \in Int /\ m \in Int /\ H = b + m /\ p \in 0 .. BUFFER
          /\ H \in 0 .. BUFFER /\ L \in 0 .. BUFFER
          /\ p - b - (L + m) \in {k * BUFFER : k \in -3 .. 2}
      BY <1>1, <1>2, <2>3, <2>5
    <3> HIDE DEF b, p, m, H, L
    <3>2. Behind(H, L, p)
      BY <3>1, BehindIs
    <3>3. QED
      BY <3>2 DEF p
<1>4. g.data = d /\ g.level = f.level /\ g.read = f.read
  <2>1. IsFifo(f)
    BY DEF Ring
  <2>2. g = [f EXCEPT !.data = [q \in 0 .. BUFFER - 1 |-> IF at(q) < n THEN u[at(q) + 1] ELSE @[q]],
                      !.write = Wrapped(f.write, n)]
    BY DEF WriteCopied, Ahead
  <2>3. g = [f EXCEPT !.data = d, !.write = Wrapped(f.write, n)]
    BY <2>2
  <2> HIDE DEF g, d
  <2>4. QED
    BY <2>1, <2>3 DEF IsFifo
<1>5. t.n = n
  BY DEF Transfer
<1> HIDE DEF g, t
<1>6. ASSUME NEW j \in 1 .. L PROVE d[Slot(H, j)] = s[j]
  <2>1. Slot(H, j) \in 0 .. BUFFER - 1
    <3>1. j \in 1 .. BUFFER
      BY <1>1, <1>2
    <3>2. QED
      BY <1>1, <3>1, SlotIs
  <2> DEFINE q == Slot(H, j)
  <2>2. ~(at(q) < n)
    <3>1. at(q) >= BUFFER - L
      BY <1>1, <1>2, <1>3, AheadIs
    <3>2. at(q) \in Int
      BY <1>1, <2>1 DEF Ahead
    <3> HIDE DEF H, L, at
    <3>3. QED
      BY <1>1, <1>2, <3>1, <3>2
  <2>3. d[q] = f.data[q]
    <3> HIDE DEF q, at
    <3>1. q \in 0 .. BUFFER - 1
      BY <2>1 DEF q
    <3>2. QED
      BY <2>2, <3>1
  <2>4. QED
    BY <1>2, <2>3
<1>7. ASSUME NEW i \in 1 .. n PROVE d[Slot(H, L + i)] = u[i]
  <2>1. Slot(H, L + i) \in 0 .. BUFFER - 1
    <3>1. L + i \in 1 .. BUFFER
      BY <1>1, <1>2
    <3>2. QED
      BY <1>1, <3>1, SlotIs
  <2> DEFINE q == Slot(H, L + i)
  <2>2. at(q) = i - 1
    <3>1. i \in 1 .. BUFFER - L
      BY <1>1, <1>2
    <3>2. QED
      BY <1>1, <1>2, <1>3, <3>1, AheadIs
  <2>3. at(q) < n /\ at(q) + 1 = i
    <3> HIDE DEF at, q
    <3> QED BY <2>2
  <2>4. d[q] = u[at(q) + 1]
    <3> HIDE DEF q, at
    <3>1. q \in 0 .. BUFFER - 1
      BY <2>1 DEF q
    <3>2. QED
      BY <2>3, <3>1
  <2>5. QED
    <3> HIDE DEF q, at, d
    <3> QED BY <2>3, <2>4 DEF q
<1> DEFINE v == s \o u
<1>8. /\ Len(v) = L + n /\ \A j \in 1 .. L : v[j] = s[j]
      /\ \A i \in 1 .. n : v[L + i] = u[i]
  BY CatIs
<1> HIDE DEF v, d, L, H
<1>9. ASSUME NEW j \in 1 .. L + n PROVE g.data[Slot(H, j)] = v[j]
  <2>1. CASE j <= L
    <3>1. j \in 1 .. L
      BY <1>2, <2>1
    <3>2. QED
      BY <1>4, <1>6, <1>8, <3>1
  <2>2. CASE j > L
    <3>1. j - L \in 1 .. n /\ L + (j - L) = j
      BY <1>2, <2>2
    <3> DEFINE i == j - L
    <3>2. i \in 1 .. n /\ L + i = j
      BY <3>1
    <3> HIDE DEF i
    <3>3. QED
      BY <1>4, <1>7, <1>8, <3>2
  <2>3. j <= L \/ j > L
    BY <1>2
  <2>4. QED
    BY <2>1, <2>2, <2>3
<1>10. (g.level - r.n) + t.n = L + n
  BY <1>1, <1>2, <1>4, <1>5
<1>11. Holds(g, t, r, v)
  BY <1>4, <1>8, <1>9, <1>10 DEF Holds, H
<1>12. QED
  BY <1>11 DEF g, t, v

LEMMA TimesOrder ==
  ASSUME NEW a \in Nat, NEW b \in Nat, a * PACKET <= b * PACKET
  PROVE  a <= b
<1>1. PACKET \in Nat /\ PACKET > 0
  BY DmaAssumption
<1>2. ASSUME b < a PROVE FALSE
  <2>1. b * PACKET + PACKET <= a * PACKET /\ a * PACKET \in Nat /\ b * PACKET \in Nat
    BY <1>2, TimesLess
  <2>2. QED
    BY <1>1, <2>1
<1>3. QED
  BY <1>2

\* What is taken are whole packets.
LEMMA WholeIs ==
  ASSUME NEW n \in Nat
  PROVE  n \div PACKET \in Nat /\ Whole(n) = (n \div PACKET) * PACKET
         /\ Whole(n) \div PACKET = n \div PACKET
<1>1. n \div PACKET \in Nat
  BY Quotient
<1> DEFINE k == n \div PACKET
<1>2. k \in Nat /\ Whole(n) = k * PACKET
  BY <1>1 DEF Whole
<1> HIDE DEF k
<1>3. PACKET \in Nat /\ 1 \in 1 .. PACKET /\ k * PACKET \in Nat
  BY <1>2, DmaAssumption
<1>4. ((k * PACKET + 1) - 1) \div PACKET = k
  BY <1>2, <1>3, Placed
<1>5. (k * PACKET + 1) - 1 = k * PACKET
  BY <1>3
<1>6. QED
  BY <1>2, <1>4, <1>5 DEF k

LEMMA FlatNothing == Flat(<<>>) = <<>> /\ <<>> \in Seq(Packet)
<1>1. <<>> \in Seq(Packet) /\ Len(<<>>) = 0
  OBVIOUS
<1>2. Flat(<<>>) \in Seq(Datum) /\ Len(Flat(<<>>)) = 0 * PACKET
  BY <1>1, FlatIs
<1>3. 0 * PACKET = 0
  BY DmaAssumption
<1> DEFINE s == Flat(<<>>)
<1>4. s \in Seq(Datum) /\ Len(s) = 0
  BY <1>2, <1>3
<1> HIDE DEF s
<1>5. s = <<>>
  BY <1>4
<1>6. QED
  BY <1>1, <1>5 DEF s

LEMMA RunNothing ==
  ASSUME NEW x \in Senders, NEW q \in Nat PROVE Run(x, q, 0) = <<>>
<1>1. Run(x, q, 0) \in Seq(Packet) /\ Len(Run(x, q, 0)) = 0
  BY RunIs
<1> DEFINE s == Run(x, q, 0)
<1> HIDE DEF s
<1>2. s \in Seq(Packet) /\ Len(s) = 0
  BY <1>1 DEF s
<1>3. s = <<>>
  BY <1>2
<1>4. QED
  BY <1>3 DEF s

LEMMA FlatRunIs ==
  ASSUME NEW x \in Senders, NEW q \in Nat, NEW c \in Nat
  PROVE  /\ Flat(Run(x, q, c)) \in Seq(Datum) /\ Len(Flat(Run(x, q, c))) = c * PACKET
         /\ c * PACKET \in Nat /\ Run(x, q, c) \in Seq(Packet)
<1> DEFINE r == Run(x, q, c)
<1>1. r \in Seq(Packet) /\ Len(r) = c
  BY RunIs
<1> HIDE DEF r
<1>2. Flat(r) \in Seq(Datum) /\ Len(Flat(r)) = Len(r) * PACKET /\ Len(r) * PACKET \in Nat
  BY <1>1, FlatIs
<1>3. QED
  BY <1>1, <1>2 DEF r

LEMMA FlatRunSplit ==
  ASSUME NEW x \in Senders, NEW q \in Nat, NEW c \in Nat, NEW d \in 0 .. c
  PROVE  LET s == Flat(Run(x, q, c)) IN
         /\ SubSeq(s, 1, d * PACKET) = Flat(Run(x, q, d))
         /\ SubSeq(s, d * PACKET + 1, Len(s)) = Flat(Run(x, q + d, c - d))
<1> DEFINE s == Flat(Run(x, q, c))
           a == Flat(Run(x, q, d))
           b == Flat(Run(x, q + d, c - d))
<1>1. d \in Nat /\ c - d \in Nat /\ q + d \in Nat
  OBVIOUS
<1>2. Run(x, q, c) = Run(x, q, d) \o Run(x, q + d, c - d)
  BY RunSplit
<1>3. Run(x, q, d) \in Seq(Packet) /\ Run(x, q + d, c - d) \in Seq(Packet)
  BY <1>1, RunIs
<1>4. s = a \o b
  BY <1>2, <1>3, FlatCat
<1>5. a \in Seq(Datum) /\ b \in Seq(Datum) /\ Len(a) = d * PACKET
  BY <1>1, FlatRunIs
<1> HIDE DEF s, a, b
<1>6. SubSeq(a \o b, 1, Len(a)) = a /\ SubSeq(a \o b, Len(a) + 1, Len(a \o b)) = b
  BY <1>5, Parts
<1>7. SubSeq(s, 1, d * PACKET) = a /\ SubSeq(s, d * PACKET + 1, Len(s)) = b
  BY <1>4, <1>5, <1>6
<1>8. QED
  BY <1>7 DEF s, a, b

\* u is s and then t.
Joined(u, s, t) == u = s \o t

LEMMA FlatRunJoin ==
  ASSUME NEW x \in Senders, NEW q \in Nat, NEW c \in Nat, NEW d \in Nat,
         NEW r \in Nat, r = q + c, NEW e \in Nat, e = c + d
  PROVE  Joined(Flat(Run(x, q, e)), Flat(Run(x, q, c)), Flat(Run(x, r, d)))
<1>1. c \in 0 .. e /\ e - c = d
  OBVIOUS
<1>2. Run(x, q, e) = Run(x, q, c) \o Run(x, q + c, e - c)
  BY <1>1, RunSplit
<1>3. Run(x, q, e) = Run(x, q, c) \o Run(x, r, d)
  BY <1>1, <1>2
<1>4. Run(x, q, c) \in Seq(Packet) /\ Run(x, r, d) \in Seq(Packet)
  BY RunIs
<1>5. Flat(Run(x, q, e)) = Flat(Run(x, q, c)) \o Flat(Run(x, r, d))
  BY <1>3, <1>4, FlatCat
<1>6. QED
  BY <1>5 DEF Joined

\* What open throws away.
LEMMA HeldIs ==
  ASSUME NEW f, NEW x \in Senders, NEW q \in Nat, NEW c \in Nat, Ring(f, Idle, Idle),
         Holds(f, Idle, Idle, Flat(Run(x, q, c)))
  PROVE  \A k \in 1 .. c : <<x, q + k>> \in Held(f)
<1> DEFINE s == Flat(Run(x, q, c))
           n == f.level
<1>1. s \in Seq(Datum) /\ Len(s) = c * PACKET /\ c * PACKET \in Nat
  BY FlatRunIs
<1>2. n \in Nat /\ n = Len(s)
  <2>1. f.level \in 0 .. BUFFER /\ BUFFER \in Nat
    BY HeadIs, DmaAssumption
  <2>2. (f.level - Idle.n) + Idle.n = Len(s) /\ Idle.n = 0
    BY DEF Holds, Idle
  <2> HIDE DEF s
  <2>3. QED
    BY <2>1, <2>2
<1>3. Contents(f, n) = s
  <2>1. Holds(f, Idle, Idle, s)
    OBVIOUS
  <2> HIDE DEF s, n
  <2>2. n <= f.level
    BY <1>2 DEF n
  <2>3. Contents(f, n) = SubSeq(s, 1, n)
    BY <1>1, <1>2, <2>1, <2>2, HoldsRead
  <2>4. SubSeq(s, 1, Len(s)) = s
    BY <1>1
  <2>5. QED
    BY <1>2, <2>3, <2>4
<1>4. ASSUME NEW k \in 1 .. c PROVE <<x, q + k>> \in Held(f)
  <2> DEFINE r == Run(x, q, c)
             d == k - 1
             i == d * PACKET + 1
  <2>1. r \in Seq(Packet) /\ Len(r) = c /\ r[k] = <<x, q + k>>
    BY RunIs
  <2>2. d \in 0 .. c - 1 /\ d + 1 = k /\ 1 \in 1 .. PACKET /\ PACKET \in Nat
    BY DmaAssumption
  <2>3. i \in 1 .. c * PACKET
    BY <2>2, Within
  <2>4. s[i] = <<r[k][1], r[k][2], 1>>
    <3> HIDE DEF r, d
    <3>1. Flat(r)[d * PACKET + 1] = <<r[d + 1][1], r[d + 1][2], 1>>
      BY <2>1, <2>2, FlatIs
    <3>2. QED
      BY <2>2, <3>1 DEF r
  <2>5. s[i] = <<x, q + k, 1>>
    BY <2>1, <2>4
  <2> HIDE DEF s, i
  <2>6. i \in DOMAIN s
    BY <1>1, <2>3
  <2>7. s[i] \in Range(s)
    BY <2>6 DEF Range
  <2>8. <<s[i][1], s[i][2]>> \in Held(f)
    <3>1. s[i] \in Range(Contents(f, f.level))
      BY <1>3, <2>7
    <3>2. QED
      BY <3>1 DEF Held
  <2>9. QED
    BY <2>5, <2>8
<1>5. QED
  BY <1>4

-----------------------------------------------------------------------------
(***************************************************************************)
(* The invariant: where the packets of each sender are.                    *)
(***************************************************************************)
InFlight == IF engine.op = "tx" THEN SubSeq(tx[engine.half], 1, engine.n) ELSE <<>>
\* All that has left the network's queue and the program's ring, in the order in
\* which it gets to the board,
Outgoing == (log.arrived \o InFlight) \o tx[dma_txOffset]
\* and all that has left the board and was not filtered yet.
Incoming == SubSeq(Received, filter.done + 1, Len(Received)) \o mopQueue

StreamTypes ==
  /\ tx \in [{0, 1} -> Seq(Datum)]
  /\ frag \in Seq(Datum) /\ fresh \in Seq(Datum) /\ mopQueue \in Seq(Datum)
  /\ log = [arrived |-> log.arrived, got |-> log.got, handled |-> log.handled,
            lost |-> log.lost]
  /\ log.arrived \in Seq(Datum) /\ log.got \in Seq(Datum) /\ log.handled \in Seq(Datum)
  /\ sent \in [Senders \cup {"open"} -> Nat]
  /\ engine \in [op : {"none", "tx", "rx"}, half : {0, 1}, n : Nat]
  /\ dma_state \in {"IDLE", "TX_PENDING", "RX_PENDING", "RX_DONE"}
  /\ dma_rxSize \in Nat /\ filter.done \in Nat /\ filter.todo \in Nat

\* The engine works on the half that is not filled, which else is empty.
TxShape ==
  /\ engine.op = "tx" <=> dma_state = "TX_PENDING"
  /\ engine.op = "tx" => engine.half = 1 - dma_txOffset /\ engine.n <= Len(tx[engine.half])
  /\ engine.op # "tx" => tx[1 - dma_txOffset] = <<>>

\* Nothing is read while there is something to filter, and the filter does not pass
\* the end of what was read.
RxShape ==
  /\ engine.op = "rx" <=> dma_state = "RX_PENDING"
  /\ engine.op = "rx" => /\ fresh = <<>> /\ engine.n <= Len(mopQueue)
                         /\ dma_rxSize = Len(frag) + engine.n
  /\ engine.op # "rx" => dma_rxSize = Len(frag) + Len(fresh)
  /\ dma_doFilter = FALSE => fresh = <<>>
  /\ filter.at \in {"idle", "queued"} => filter.done = 0
  /\ filter.at \in {"run", "stored"} => filter.done + filter.todo * PACKET <= dma_rxSize

\* What has left is packets t,
Departed(t) == Outgoing = Flat(t) /\ InOrder(t, {"program", "net"}, log.lost)
\* a of the network, of which b more wait, and c of the program, of which d wait.
FromNet(t, a, b) == /\ net_fifo = Flat(Run("net", a, b)) /\ a + b = sent["net"]
                    /\ Reaches(t, "net", a, log.lost)
FromProgram(t, c, d) ==
  /\ Holds(mip, move["write"], move["fetch"], Flat(Run("program", c, d)))
  /\ c + d = sent["program"] /\ Reaches(t, "program", c, log.lost)

TxFlow == \E t \in Seq(Packet), a, b, c, d \in Nat :
            Departed(t) /\ FromNet(t, a, b) /\ FromProgram(t, c, d)

\* The filter has had packets p, and u are to come;
Unfiltered(p, u) ==
  /\ Incoming = Flat(u) /\ InOrder(p \o u, {"answer", "frame"}, {})
  /\ Reaches(p \o u, "answer", sent["answer"], {}) /\ Reaches(p \o u, "frame", sent["frame"], {})
\* the program has got g, up to answer a, and b more wait in the ring;
Answers(p, g, a, b) ==
  /\ log.got = Flat(g) /\ InOrder(g, {"answer"}, log.lost) /\ Reaches(g, "answer", a, log.lost)
  /\ Holds(mop, move["store"], move["read"], Flat(Run("answer", a, b)))
  /\ Reaches(p, "answer", a + b, {})
\* and the network has got h, up to frame f.
Frames(p, h, f) ==
  /\ log.handled = Flat(h) /\ InOrder(h, {"frame"}, log.lost) /\ Reaches(h, "frame", f, log.lost)
  /\ Reaches(p, "frame", f, {})

RxFlow == \E p, u, g, h \in Seq(Packet), a, b, f \in Nat :
            Unfiltered(p, u) /\ Answers(p, g, a, b) /\ Frames(p, h, f)

SInv == StreamTypes /\ TxShape /\ RxShape /\ TxFlow /\ RxFlow

\* In a step the two rings keep what they hold.
MipKept == \A s \in Seq(Datum) : Holds(mip, move["write"], move["fetch"], s)
                                   => Holds(mip', move'["write"], move'["fetch"], s)
MopKept == \A s \in Seq(Datum) : Holds(mop, move["store"], move["read"], s)
                                   => Holds(mop', move'["store"], move'["read"], s)

LEMMA SendersAre ==
  /\ "program" \in Senders /\ "net" \in Senders /\ "answer" \in Senders /\ "frame" \in Senders
  /\ "program" # "net" /\ "answer" # "frame"
  BY DEF Senders

LEMMA FromProgramSame ==
  ASSUME NEW t, NEW c \in Nat, NEW d \in Nat, FromProgram(t, c, d), MipKept,
         log'.lost = log.lost, sent'["program"] = sent["program"]
  PROVE  FromProgram(t, c, d)'
<1>1. Flat(Run("program", c, d)) \in Seq(Datum)
  BY SendersAre, FlatRunIs
<1>2. Holds(mip', move'["write"], move'["fetch"], Flat(Run("program", c, d)))
  BY <1>1 DEF FromProgram, MipKept
<1>3. QED
  BY <1>2 DEF FromProgram

LEMMA FromNetSame ==
  ASSUME NEW t, NEW a \in Nat, NEW b \in Nat, FromNet(t, a, b), net_fifo' = net_fifo,
         log'.lost = log.lost, sent'["net"] = sent["net"]
  PROVE  FromNet(t, a, b)'
  BY DEF FromNet

LEMMA TxSame ==
  ASSUME TxFlow, MipKept, Outgoing' = Outgoing, net_fifo' = net_fifo, log'.lost = log.lost,
         sent'["net"] = sent["net"], sent'["program"] = sent["program"]
  PROVE  TxFlow'
<1>1. PICK t \in Seq(Packet), a, b, c, d \in Nat :
        Departed(t) /\ FromNet(t, a, b) /\ FromProgram(t, c, d)
  BY DEF TxFlow
<1>2. Departed(t)'
  BY <1>1 DEF Departed
<1>3. FromNet(t, a, b)' /\ FromProgram(t, c, d)'
  BY <1>1, FromNetSame, FromProgramSame
<1>4. QED
  BY <1>2, <1>3 DEF TxFlow

LEMMA UnfilteredSame ==
  ASSUME NEW p, NEW u, Unfiltered(p, u), Incoming' = Incoming,
         sent'["answer"] = sent["answer"], sent'["frame"] = sent["frame"]
  PROVE  Unfiltered(p, u)'
  BY DEF Unfiltered

LEMMA AnswersSame ==
  ASSUME NEW p, NEW g, NEW a \in Nat, NEW b \in Nat, Answers(p, g, a, b), MopKept,
         log'.lost = log.lost, log'.got = log.got
  PROVE  Answers(p, g, a, b)'
<1>1. Flat(Run("answer", a, b)) \in Seq(Datum)
  BY SendersAre, FlatRunIs
<1>2. Holds(mop', move'["store"], move'["read"], Flat(Run("answer", a, b)))
  BY <1>1 DEF Answers, MopKept
<1>3. QED
  BY <1>2 DEF Answers

LEMMA FramesSame ==
  ASSUME NEW p, NEW h, NEW f, Frames(p, h, f), log'.lost = log.lost, log'.handled = log.handled
  PROVE  Frames(p, h, f)'
  BY DEF Frames

LEMMA RxSame ==
  ASSUME RxFlow, MopKept, Incoming' = Incoming, log'.lost = log.lost,
         log'.got = log.got, log'.handled = log.handled,
         sent'["answer"] = sent["answer"], sent'["frame"] = sent["frame"]
  PROVE  RxFlow'
<1>1. PICK p, u, g, h \in Seq(Packet), a, b, f \in Nat :
        Unfiltered(p, u) /\ Answers(p, g, a, b) /\ Frames(p, h, f)
  BY DEF RxFlow
<1>2. Unfiltered(p, u)' /\ Answers(p, g, a, b)' /\ Frames(p, h, f)'
  BY <1>1, UnfilteredSame, AnswersSame, FramesSame
<1>3. QED
  BY <1>2 DEF RxFlow

LEMMA InFlightIs == ASSUME SInv, TxInv
  PROVE  /\ log.arrived \in Seq(Datum) /\ InFlight \in Seq(Datum)
         /\ tx[0] \in Seq(Datum) /\ tx[1] \in Seq(Datum) /\ dma_txOffset \in {0, 1}
         /\ tx[dma_txOffset] \in Seq(Datum)
<1>1. /\ log.arrived \in Seq(Datum) /\ dma_txOffset \in {0, 1}
      /\ engine.half \in {0, 1} /\ engine.n \in Nat
      /\ \A h \in {0, 1} : tx[h] \in Seq(Datum)
  BY DEF SInv, StreamTypes, TxInv
<1>2. InFlight \in Seq(Datum)
  <2> DEFINE s == tx[engine.half]
  <2>1. CASE engine.op = "tx"
    <3>1. s \in Seq(Datum) /\ engine.n <= Len(s)
      BY <1>1, <2>1 DEF SInv, TxShape
    <3> HIDE DEF s
    <3>2. SubSeq(s, 1, engine.n) \in Seq(Datum)
      BY <1>1, <3>1
    <3>3. QED
      BY <2>1, <3>2 DEF InFlight, s
  <2>2. CASE engine.op # "tx"
    BY <2>2 DEF InFlight
  <2>3. QED
    BY <2>1, <2>2
<1>3. QED
  BY <1>1, <1>2

\* The inductive invariant says what the streams are.
LEMMA Intact == ASSUME SInv, TxInv PROVE StreamsIntact
<1>1. Carries(log.arrived, {"program", "net"})
  <2>1. PICK t \in Seq(Packet) : Departed(t)
    BY DEF SInv, TxFlow
  <2> DEFINE x == log.arrived
             y == InFlight
             z == tx[dma_txOffset]
  <2>2. x \in Seq(Datum) /\ y \in Seq(Datum) /\ z \in Seq(Datum)
    BY InFlightIs
  <2>3. Outgoing = (x \o y) \o z
    BY DEF Outgoing
  <2> HIDE DEF x, y, z
  <2>4. y \o z \in Seq(Datum) /\ Outgoing = x \o (y \o z)
    <3>1. y \o z \in Seq(Datum)
      BY <2>2, CatIs
    <3>2. (x \o y) \o z = x \o (y \o z)
      BY <2>2, Associative
    <3>3. QED
      BY <2>3, <3>1, <3>2
  <2>5. Carries(x, {"program", "net"})
    BY <2>1, <2>2, <2>4, CarriesPrefix DEF Departed
  <2>6. QED
    BY <2>5 DEF x
<1>2. ASSUME NEW s \in Seq(Datum), NEW g \in Seq(Packet), NEW X, s = Flat(g),
             InOrder(g, X, log.lost)
      PROVE  Carries(s, X)
  <2>1. s \o <<>> = s /\ <<>> \in Seq(Datum)
    BY NothingMore
  <2>2. QED
    BY <1>2, <2>1, CarriesPrefix
<1>3. Carries(log.got, {"answer"}) /\ Carries(log.handled, {"frame"})
  <2>1. PICK p, u, g, h \in Seq(Packet), a, b, f \in Nat :
          Unfiltered(p, u) /\ Answers(p, g, a, b) /\ Frames(p, h, f)
    BY DEF SInv, RxFlow
  <2>2. log.got \in Seq(Datum) /\ log.handled \in Seq(Datum)
    BY DEF SInv, StreamTypes
  <2>3. log.got = Flat(g) /\ InOrder(g, {"answer"}, log.lost)
    BY <2>1 DEF Answers
  <2>4. log.handled = Flat(h) /\ InOrder(h, {"frame"}, log.lost)
    BY <2>1 DEF Frames
  <2>5. QED
    BY <1>2, <2>2, <2>3, <2>4
<1>4. QED
  BY <1>1, <1>3 DEF StreamsIntact

LEMMA SInvInit == ASSUME Init PROVE SInv
<1>1. /\ <<>> \in Seq(Datum) /\ <<>> \in Seq(Packet) /\ Len(<<>>) = 0
      /\ Flat(<<>>) = <<>> /\ <<>> \o <<>> = <<>>
      /\ Run("net", 0, 0) = <<>> /\ Run("program", 0, 0) = <<>> /\ Run("answer", 0, 0) = <<>>
  <2>1. 0 \in Nat /\ <<>> \in Seq(Datum) /\ Len(<<>>) = 0 /\ <<>> \o <<>> = <<>>
    OBVIOUS
  <2>2. QED
    BY <2>1, FlatNothing, RunNothing, SendersAre
<1>2. /\ \A X, lost : InOrder(<<>>, X, lost)
      /\ \A x, lost : Reaches(<<>>, x, 0, lost)
  <2>1. 1 .. Len(<<>>) = {} /\ 1 .. 0 = {}
    OBVIOUS
  <2>2. QED
    BY <2>1 DEF InOrder, Reaches
<1>3. StreamTypes
  <2>1. tx \in [{0, 1} -> Seq(Datum)]
    BY <1>1 DEF Init
  <2>2. /\ sent \in [Senders \cup {"open"} -> Nat]
    <3>1. DOMAIN Bound = Senders \cup {"open"}
      BY DmaAssumption
    <3>2. QED
      BY <3>1 DEF Init
  <2>3. QED
    BY <1>1, <2>1, <2>2 DEF Init, StreamTypes, NoDma, Asleep
<1>4. TxShape
  <2>1. tx[1] = <<>> /\ dma_txOffset = 0 /\ engine.op = "none" /\ dma_state = "IDLE"
    BY DEF Init, NoDma
  <2>2. tx[1 - dma_txOffset] = <<>>
    BY <2>1
  <2>3. QED
    BY <2>1, <2>2 DEF TxShape
<1>5. RxShape
  <2>1. /\ engine.op = "none" /\ dma_state = "IDLE" /\ fresh = <<>> /\ frag = <<>>
        /\ dma_rxSize = 0 /\ filter.at = "idle" /\ filter.done = 0
    BY DEF Init, NoDma, Asleep
  <2>2. dma_rxSize = Len(frag) + Len(fresh)
    BY <1>1, <2>1
  <2>3. QED
    BY <2>1, <2>2 DEF RxShape
<1>6. /\ \A s \in {"program", "net", "answer", "frame"} : sent[s] = 0
      /\ log.lost = {} /\ log.arrived = <<>> /\ log.got = <<>> /\ log.handled = <<>>
      /\ mip.level = 0 /\ mop.level = 0 /\ net_fifo = <<>>
      /\ move["write"] = Idle /\ move["read"] = Idle /\ move["fetch"] = Idle
      /\ move["store"] = Idle
  <2>1. DOMAIN Bound = Senders \cup {"open"}
    BY DmaAssumption
  <2>2. \A s \in {"program", "net", "answer", "frame"} : sent[s] = 0
    BY <2>1 DEF Init, Senders
  <2>3. QED
    BY <2>2 DEF Init, Empty
<1>7. Holds(mip, Idle, Idle, <<>>) /\ Holds(mop, Idle, Idle, <<>>)
  BY <1>6, HoldsNothing
<1>8. TxFlow
  <2>1. Outgoing = <<>>
    <3>1. InFlight = <<>> /\ tx[dma_txOffset] = <<>>
      BY DEF Init, NoDma, InFlight
    <3>2. QED
      BY <1>1, <1>6, <3>1 DEF Outgoing
  <2>2. Departed(<<>>)
    BY <1>1, <1>2, <2>1 DEF Departed
  <2>3. FromNet(<<>>, 0, 0) /\ FromProgram(<<>>, 0, 0)
    <3>1. 0 + 0 = 0
      OBVIOUS
    <3>2. QED
      BY <1>1, <1>2, <1>6, <1>7, <3>1 DEF FromNet, FromProgram
  <2>4. QED
    <3>1. 0 \in Nat
      OBVIOUS
    <3>2. QED
      BY <1>1, <2>2, <2>3, <3>1 DEF TxFlow
<1>9. RxFlow
  <2>1. Incoming = <<>>
    <3>1. Received = <<>> /\ mopQueue = <<>> /\ filter.done = 0
      BY <1>1 DEF Init, Received, Asleep
    <3>2. SubSeq(<<>>, 0 + 1, Len(<<>>)) = <<>>
      OBVIOUS
    <3>3. QED
      BY <1>1, <3>1, <3>2 DEF Incoming
  <2>2. Unfiltered(<<>>, <<>>)
    BY <1>1, <1>2, <1>6, <2>1 DEF Unfiltered
  <2>3. Answers(<<>>, <<>>, 0, 0) /\ Frames(<<>>, <<>>, 0)
    <3>1. 0 + 0 = 0
      OBVIOUS
    <3>2. QED
      BY <1>1, <1>2, <1>6, <1>7, <3>1 DEF Answers, Frames
  <2>4. QED
    <3>1. 0 \in Nat
      OBVIOUS
    <3>2. QED
      BY <1>1, <2>2, <2>3, <3>1 DEF RxFlow
<1>10. QED
  BY <1>3, <1>4, <1>5, <1>8, <1>9 DEF SInv

-----------------------------------------------------------------------------
(***************************************************************************)
(* The steps of the program and of the network, and those that end a       *)
(* transfer.                                                               *)
(***************************************************************************)
LEMMA OutgoingSame ==
  ASSUME tx' = tx, dma_txOffset' = dma_txOffset, engine' = engine, log'.arrived = log.arrived
  PROVE  Outgoing' = Outgoing
  BY DEF Outgoing, InFlight

LEMMA IncomingSame ==
  ASSUME frag' = frag, fresh' = fresh, mopQueue' = mopQueue, filter'.done = filter.done
  PROVE  Incoming' = Incoming
  BY DEF Incoming, Received

LEMMA MipSame ==
  ASSUME mip' = mip, move'["write"] = move["write"], move'["fetch"] = move["fetch"]
  PROVE  MipKept
  BY DEF MipKept

LEMMA MopSame ==
  ASSUME mop' = mop, move'["store"] = move["store"], move'["read"] = move["read"]
  PROVE  MopKept
  BY DEF MopKept

LEMMA ShapesSame ==
  ASSUME SInv, UNCHANGED <<tx, dma_txOffset, frag, fresh, mopQueue, engine, dma_rxSize,
                           dma_state, dma_doFilter, filter>>
  PROVE  TxShape' /\ RxShape'
  BY DEF SInv, TxShape, RxShape

\* Only the rings change, and they keep what they hold.
LEMMA StreamsSame ==
  ASSUME SInv, MipKept, MopKept,
         UNCHANGED <<tx, dma_txOffset, frag, fresh, mopQueue, engine, dma_rxSize,
                     dma_state, dma_doFilter, filter>>,
         UNCHANGED <<net_fifo, sent, log>>
  PROVE  SInv'
<1>1. TxShape' /\ RxShape'
  BY ShapesSame
<1>2. StreamTypes'
  BY DEF SInv, StreamTypes
<1>3. Outgoing' = Outgoing /\ Incoming' = Incoming
  BY OutgoingSame, IncomingSame
<1>4. TxFlow' /\ RxFlow'
  BY <1>3, TxSame, RxSame DEF SInv
<1>5. QED
  BY <1>1, <1>2, <1>4 DEF SInv

LEMMA SReleaseStep == ASSUME DInv, SInv, Release PROVE SInv'
<1>1. MipKept /\ MopKept
  BY MipSame, MopSame DEF Release, rings
<1>2. QED
  BY <1>1, StreamsSame DEF Release, daemon, rx, board

LEMMA SDmaBusyStep == ASSUME DInv, SInv, DmaBusy PROVE SInv'
<1>1. MipKept /\ MopKept
  BY MipSame, MopSame DEF DmaBusy, rings
<1>2. QED
  BY <1>1, StreamsSame DEF DmaBusy, rx, board

LEMMA SPauseStep == ASSUME DInv, SInv, Pause PROVE SInv'
<1>1. MipKept /\ MopKept
  BY MipSame, MopSame DEF Pause, rings
<1>2. QED
  BY <1>1, StreamsSame DEF Pause, rx, board

LEMMA SScheduleStep == ASSUME DInv, SInv, Schedule PROVE SInv'
<1>1. MipKept /\ MopKept
  BY MipSame, MopSame DEF Schedule, rings
<1>2. QED
  BY <1>1, StreamsSame DEF Schedule, rx, board

LEMMA SBoardTakesStep == ASSUME DInv, SInv, BoardTakes PROVE SInv'
<1>1. MipKept /\ MopKept
  BY MipSame, MopSame DEF BoardTakes, rings
<1>2. QED
  BY <1>1, StreamsSame DEF BoardTakes, daemon, rx

LEMMA SWriteEndStep == ASSUME DInv, SInv, WriteEnd PROVE SInv'
<1>1. move'["write"] = Idle /\ \A t \in {"read", "fetch", "store"} : move'[t] = move[t]
  BY DEF DInv, MoversInv, WriteEnd
<1>2. Ring(mip, move["write"], move["fetch"]) /\ mip' = WriteDone(mip, move["write"])
  BY DEF DInv, RingsInv, WriteEnd
<1>3. MipKept
  BY <1>1, <1>2, HoldsWriteDone DEF MipKept
<1>4. MopKept
  BY <1>1, MopSame DEF WriteEnd
<1>5. QED
  BY <1>3, <1>4, StreamsSame DEF WriteEnd, daemon, rx, board

LEMMA SReadEndStep == ASSUME DInv, SInv, ReadEnd PROVE SInv'
<1>1. move'["read"] = Idle /\ \A t \in {"write", "fetch", "store"} : move'[t] = move[t]
  BY DEF DInv, MoversInv, ReadEnd
<1>2. Ring(mop, move["store"], move["read"]) /\ mop' = ReadDone(mop, move["read"])
  BY DEF DInv, RingsInv, ReadEnd
<1>3. MopKept
  BY <1>1, <1>2, HoldsReadDone DEF MopKept
<1>4. MipKept
  BY <1>1, MipSame DEF ReadEnd
<1>5. QED
  BY <1>3, <1>4, StreamsSame DEF ReadEnd, daemon, rx, board

LEMMA SPrepareEndStep == ASSUME DInv, SInv, PrepareEnd PROVE SInv'
<1>1. move'["fetch"] = Idle /\ \A t \in {"write", "read", "store"} : move'[t] = move[t]
  BY DEF DInv, MoversInv, PrepareEnd
<1>2. Ring(mip, move["write"], move["fetch"]) /\ mip' = ReadDone(mip, move["fetch"])
  BY DEF DInv, RingsInv, PrepareEnd
<1>3. MipKept
  BY <1>1, <1>2, HoldsReadDone DEF MipKept
<1>4. MopKept
  BY <1>1, MopSame DEF PrepareEnd
<1>5. QED
  BY <1>3, <1>4, StreamsSame DEF PrepareEnd, rx, board

LEMMA SentIs ==
  ASSUME StreamTypes, NEW x \in Senders \cup {"open"}, NEW m \in Nat, Sends(x, m)
  PROVE  /\ sent' \in [Senders \cup {"open"} -> Nat] /\ sent'[x] = sent[x] + m
         /\ \A y \in Senders \cup {"open"} : y # x => sent'[y] = sent[y]
         /\ \A y \in Senders \cup {"open"} : sent[y] \in Nat
<1>1. sent \in [Senders \cup {"open"} -> Nat] /\ sent' = [sent EXCEPT ![x] = @ + m]
  BY DEF StreamTypes, Sends
<1>2. sent[x] \in Nat /\ sent[x] + m \in Nat
  BY <1>1
<1>3. QED
  BY <1>1, <1>2

LEMMA SOpenStep == ASSUME DInv, SInv, Open, OPEN_RACES = FALSE PROVE SInv'
<1>1. /\ move["write"] = Idle /\ move["read"] = Idle
      /\ move["fetch"] = Idle /\ move["store"] = Idle /\ move' = move
  BY Numbers, IdleWhenNone DEF DInv, MoversInv, Open
<1>2. Ring(mip, Idle, Idle) /\ Ring(mop, Idle, Idle) /\ IsFifo(mip) /\ IsFifo(mop)
  BY <1>1 DEF DInv, RingsInv, Ring
<1>3. mip' = Cleared(mip) /\ mop' = Cleared(mop) /\ mip'.level = 0 /\ mop'.level = 0
  BY <1>2 DEF Open, Cleared, IsFifo
<1>4. Holds(mip', Idle, Idle, <<>>) /\ Holds(mop', Idle, Idle, <<>>)
  BY <1>3, HoldsNothing
<1> DEFINE lost == (log.lost \cup Held(mip)) \cup Held(mop)
<1>5. log' = [arrived |-> log.arrived, got |-> log.got, handled |-> log.handled, lost |-> lost]
  <2>1. log' = [log EXCEPT !.lost = lost]
    BY DEF Open
  <2> HIDE DEF lost
  <2>2. QED
    BY <2>1 DEF SInv, StreamTypes
<1>6. /\ sent' \in [Senders \cup {"open"} -> Nat]
      /\ \A y \in {"program", "net", "answer", "frame"} : sent'[y] = sent[y]
  <2>1. Sends("open", 1) /\ 1 \in Nat /\ "open" \in Senders \cup {"open"}
    BY DEF Open
  <2>2. \A y \in {"program", "net", "answer", "frame"} : y \in Senders \cup {"open"} /\ y # "open"
    BY DEF Senders
  <2>3. QED
    BY <2>1, <2>2, SentIs DEF SInv
<1>7. /\ log.lost \subseteq lost /\ Held(mip) \subseteq lost /\ Held(mop) \subseteq lost
  OBVIOUS
<1> HIDE DEF lost
<1>8. UNCHANGED <<tx, dma_txOffset, frag, fresh, mopQueue, engine, dma_rxSize,
                  dma_state, dma_doFilter, filter, net_fifo>>
  BY DEF Open, daemon, rx, board
<1>9. TxShape' /\ RxShape'
  BY <1>8, ShapesSame
<1>10. StreamTypes'
  BY <1>5, <1>6, <1>8 DEF SInv, StreamTypes
<1>11. Outgoing' = Outgoing /\ Incoming' = Incoming
  BY <1>5, <1>8, OutgoingSame, IncomingSame
<1>12. TxFlow'
  <2>1. PICK t \in Seq(Packet), a, b, c, d \in Nat :
          Departed(t) /\ FromNet(t, a, b) /\ FromProgram(t, c, d)
    BY DEF SInv, TxFlow
  <2>2. Departed(t)'
    BY <1>5, <1>7, <1>11, <2>1, InOrderMore DEF Departed
  <2>3. FromNet(t, a, b)'
    BY <1>5, <1>6, <1>7, <1>8, <2>1, ReachesMore DEF FromNet
  <2>4. Reaches(t, "program", c + d, lost)
    <3>1. Reaches(t, "program", c, lost)
      BY <1>7, <2>1, ReachesMore DEF FromProgram
    <3>2. \A k \in 1 .. d : <<"program", c + k>> \in lost
      BY <1>1, <1>2, <1>7, <2>1, HeldIs, SendersAre DEF FromProgram
    <3>3. \A i \in 1 .. Len(t) : t[i][2] \in Nat
      BY DEF Packet
    <3>4. QED
      BY <3>1, <3>2, <3>3, ReachesLost
  <2>5. FromProgram(t, c + d, 0)'
    <3>1. c + d \in Nat /\ c + d + 0 = c + d
      OBVIOUS
    <3>2. Flat(Run("program", c + d, 0)) = <<>>
      BY <3>1, RunNothing, FlatNothing, SendersAre
    <3>3. c + d = sent["program"]
      BY <2>1 DEF FromProgram
    <3>4. QED
      BY <1>1, <1>4, <1>5, <1>6, <2>4, <3>1, <3>2, <3>3 DEF FromProgram
  <2>6. c + d \in Nat /\ 0 \in Nat
    OBVIOUS
  <2>7. QED
    BY <2>2, <2>3, <2>5, <2>6 DEF TxFlow
<1>13. RxFlow'
  <2>1. PICK p, u, g, h \in Seq(Packet), a, b, f \in Nat :
          Unfiltered(p, u) /\ Answers(p, g, a, b) /\ Frames(p, h, f)
    BY DEF SInv, RxFlow
  <2>2. Unfiltered(p, u)'
    BY <1>6, <1>11, <2>1, UnfilteredSame
  <2>3. Frames(p, h, f)'
    BY <1>5, <1>7, <2>1, InOrderMore, ReachesMore DEF Frames
  <2>4. Reaches(g, "answer", a + b, lost) /\ InOrder(g, {"answer"}, lost)
    <3>1. Reaches(g, "answer", a, lost) /\ InOrder(g, {"answer"}, lost)
      BY <1>7, <2>1, ReachesMore, InOrderMore DEF Answers
    <3>2. \A k \in 1 .. b : <<"answer", a + k>> \in lost
      BY <1>1, <1>2, <1>7, <2>1, HeldIs, SendersAre DEF Answers
    <3>3. \A i \in 1 .. Len(g) : g[i][2] \in Nat
      BY DEF Packet
    <3>4. QED
      BY <3>1, <3>2, <3>3, ReachesLost
  <2>5. Answers(p, g, a + b, 0)'
    <3>1. a + b \in Nat /\ a + b + 0 = a + b
      OBVIOUS
    <3>2. Flat(Run("answer", a + b, 0)) = <<>>
      BY <3>1, RunNothing, FlatNothing, SendersAre
    <3>3. log.got = Flat(g) /\ Reaches(p, "answer", a + b, {})
      BY <2>1 DEF Answers
    <3>4. QED
      BY <1>1, <1>4, <1>5, <2>4, <3>1, <3>2, <3>3 DEF Answers
  <2>6. a + b \in Nat /\ 0 \in Nat
    OBVIOUS
  <2>7. QED
    BY <2>2, <2>3, <2>5, <2>6 DEF RxFlow
<1>14. QED
  BY <1>9, <1>10, <1>12, <1>13 DEF SInv

LEMMA SWriteStep == ASSUME DInv, SInv, NEW count \in Counts, Write(count) PROVE SInv'
<1> DEFINE n == Whole(Least(count, BUFFER - mip.level))
           k == n \div PACKET
<1>1. n \in Nat /\ n <= BUFFER - mip.level /\ k \in Nat /\ n = k * PACKET
  <2>1. count \in Nat
    BY DmaAssumption
  <2> DEFINE l == Least(count, BUFFER - mip.level)
  <2>2. l \in Nat /\ l <= BUFFER - mip.level
    BY <2>1, Numbers DEF Least
  <2>3. Whole(l) \in Nat /\ Whole(l) <= l
    BY <2>2, WholeLess
  <2>4. l \div PACKET \in Nat /\ Whole(l) = (l \div PACKET) * PACKET
        /\ Whole(l) \div PACKET = l \div PACKET
    BY <2>2, WholeIs
  <2>5. BUFFER \in Nat /\ mip.level \in Int
    BY Numbers
  <2> HIDE DEF l
  <2>6. Whole(l) <= BUFFER - mip.level
    BY <2>2, <2>3, <2>5
  <2>7. QED
    BY <2>3, <2>4, <2>6 DEF l
<1>2. /\ move["write"] = Idle /\ move'["write"] = Transfer(mip.write, n)
      /\ \A t \in {"read", "fetch", "store"} : move'[t] = move[t]
  BY IdleWhenNone DEF DInv, MoversInv, Write
<1>3. Sends("program", k) /\ mip' = WriteCopied(mip, Units("program", k), n)
  BY DEF Write
<1> HIDE DEF n, k
<1>4. /\ sent' \in [Senders \cup {"open"} -> Nat] /\ sent'["program"] = sent["program"] + k
      /\ sent["program"] \in Nat
      /\ \A y \in {"net", "answer", "frame"} : sent'[y] = sent[y]
  <2>1. "program" \in Senders \cup {"open"} /\ "program" \in Senders
    BY DEF Senders
  <2>2. \A y \in {"net", "answer", "frame"} : y \in Senders \cup {"open"} /\ y # "program"
    BY DEF Senders
  <2>3. QED
    BY <1>1, <1>3, <2>1, <2>2, SentIs DEF SInv
<1>5. /\ UNCHANGED <<tx, dma_txOffset, frag, fresh, mopQueue, engine, dma_rxSize,
                     dma_state, dma_doFilter, filter>>
      /\ net_fifo' = net_fifo /\ log' = log /\ mop' = mop
  BY DEF Write, daemon, rx, board
<1>6. TxShape' /\ RxShape'
  BY <1>5, ShapesSame
<1>7. StreamTypes'
  BY <1>4, <1>5 DEF SInv, StreamTypes
<1>8. Outgoing' = Outgoing /\ Incoming' = Incoming
  BY <1>5, OutgoingSame, IncomingSame
<1>9. MopKept
  BY <1>2, <1>5, MopSame
<1>10. RxFlow'
  BY <1>4, <1>5, <1>8, <1>9, RxSame DEF SInv
<1>11. PICK t \in Seq(Packet), a, b, c, d \in Nat :
         Departed(t) /\ FromNet(t, a, b) /\ FromProgram(t, c, d)
  BY DEF SInv, TxFlow
<1>12. Departed(t)' /\ FromNet(t, a, b)'
  BY <1>4, <1>5, <1>8, <1>11, FromNetSame DEF Departed
<1>13. PICK e \in Nat : e = d + k
  <2>1. d + k \in Nat
    BY <1>1
  <2>2. QED
    BY <2>1
<1>14. c + e = sent["program"] + k /\ Reaches(t, "program", c, log.lost)
  <2>1. c + d = sent["program"] /\ c + (d + k) = (c + d) + k
    BY <1>1, <1>11 DEF FromProgram
  <2>2. QED
    BY <1>11, <1>13, <2>1 DEF FromProgram
<1>15. Holds(mip', move'["write"], move'["fetch"], Flat(Run("program", c, e)))
  <2> DEFINE q == c + d
             s == Flat(Run("program", c, d))
             v == Flat(Run("program", q, k))
  <2>1. q \in Nat /\ q = sent["program"]
    BY <1>11 DEF FromProgram
  <2> HIDE DEF q
  <2>2. s \o v = Flat(Run("program", c, e))
    <3>1. q = c + d /\ k \in Nat
      BY <1>1 DEF q
    <3>2. QED
      <4>1. PICK x \in Senders : x = "program"
        BY SendersAre
      <4>2. Joined(Flat(Run(x, c, e)), Flat(Run(x, c, d)), Flat(Run(x, q, k)))
        BY <1>13, <2>1, <3>1, FlatRunJoin
      <4>3. QED
        BY <4>1, <4>2 DEF Joined
  <2>3. Ring(mip, Idle, move["fetch"]) /\ Holds(mip, Idle, move["fetch"], s)
    BY <1>2, <1>11 DEF DInv, RingsInv, FromProgram
  <2>4. s \in Seq(Datum)
    BY FlatRunIs, SendersAre
  <2> HIDE DEF s
  <2>5. v \in Seq(Datum) /\ Len(v) = n
    BY <1>1, <2>1, FlatRunIs, SendersAre
  <2>6. Units("program", k) = v
    BY <1>1, <1>4, <2>1, UnitsAre, SendersAre
  <2> HIDE DEF v
  <2>7. Holds(WriteCopied(mip, v, n), Transfer(mip.write, n), move["fetch"], s \o v)
    BY <1>1, <2>3, <2>4, <2>5, HoldsWrite
  <2>8. QED
    BY <1>2, <1>3, <2>2, <2>6, <2>7
<1>16. FromProgram(t, c, e)'
  <2>1. c + e = sent'["program"] /\ Reaches(t, "program", c, log'.lost)
    BY <1>4, <1>5, <1>14
  <2>2. QED
    BY <1>15, <2>1 DEF FromProgram
<1>17. TxFlow'
  BY <1>12, <1>13, <1>16 DEF TxFlow
<1>18. QED
  BY <1>6, <1>7, <1>10, <1>17 DEF SInv

LEMMA SReadStep == ASSUME DInv, SInv, NEW count \in Counts, Read(count) PROVE SInv'
<1> DEFINE n == Whole(Least(count, mop.level))
           k == n \div PACKET
<1>1. n \in Nat /\ n <= mop.level /\ k \in Nat /\ n = k * PACKET
  <2>1. count \in Nat
    BY DmaAssumption
  <2> DEFINE l == Least(count, mop.level)
  <2>2. l \in Nat /\ l <= mop.level
    BY <2>1, Numbers DEF Least
  <2>3. Whole(l) \in Nat /\ Whole(l) <= l
    BY <2>2, WholeLess
  <2>4. l \div PACKET \in Nat /\ Whole(l) = (l \div PACKET) * PACKET
        /\ Whole(l) \div PACKET = l \div PACKET
    BY <2>2, WholeIs
  <2>5. mop.level \in Int
    BY Numbers
  <2> HIDE DEF l
  <2>6. Whole(l) <= mop.level
    BY <2>2, <2>3, <2>5
  <2>7. QED
    BY <2>3, <2>4, <2>6 DEF l
<1>2. /\ move["read"] = Idle /\ move'["read"] = Transfer(mop.read, n)
      /\ \A t \in {"write", "fetch", "store"} : move'[t] = move[t]
  BY IdleWhenNone DEF DInv, MoversInv, Read
<1>3. /\ log' = [log EXCEPT !.got = @ \o Contents(mop, n)] /\ mop' = ReadCopied(mop, n)
  BY DEF Read
<1> HIDE DEF n, k
<1>4. /\ UNCHANGED <<tx, dma_txOffset, frag, fresh, mopQueue, engine, dma_rxSize,
                     dma_state, dma_doFilter, filter>>
      /\ net_fifo' = net_fifo /\ sent' = sent /\ mip' = mip
  BY DEF Read, daemon, rx, board
<1>5. log' = [arrived |-> log.arrived, got |-> log.got \o Contents(mop, n),
              handled |-> log.handled, lost |-> log.lost]
  BY <1>3 DEF SInv, StreamTypes
<1>6. TxShape' /\ RxShape'
  BY <1>4, ShapesSame
<1>7. Outgoing' = Outgoing /\ Incoming' = Incoming
  BY <1>4, <1>5, OutgoingSame, IncomingSame
<1>8. MipKept
  BY <1>2, <1>4, MipSame
<1>9. TxFlow'
  BY <1>4, <1>5, <1>7, <1>8, TxSame DEF SInv
<1>10. PICK p, u, g, h \in Seq(Packet), a, b, f \in Nat :
         Unfiltered(p, u) /\ Answers(p, g, a, b) /\ Frames(p, h, f)
  BY DEF SInv, RxFlow
<1>11. Unfiltered(p, u)' /\ Frames(p, h, f)'
  BY <1>4, <1>5, <1>7, <1>10, UnfilteredSame, FramesSame
<1> DEFINE s == Flat(Run("answer", a, b))
           r == Run("answer", a, k)
<1>12. /\ s \in Seq(Datum) /\ Len(s) = b * PACKET /\ r \in Seq(Packet)
  BY <1>1, FlatRunIs, SendersAre
<1>13. /\ n <= Len(s) /\ Contents(mop, n) = SubSeq(s, 1, n)
       /\ Holds(ReadCopied(mop, n), move["store"], Transfer(mop.read, n), SubSeq(s, n + 1, Len(s)))
  <2>1. Ring(mop, move["store"], Idle) /\ Holds(mop, move["store"], Idle, s)
    BY <1>2, <1>10 DEF DInv, RingsInv, Answers
  <2> HIDE DEF s
  <2>2. QED
    BY <1>1, <1>12, <2>1, HoldsRead
<1>14. k \in 0 .. b
  <2>1. k * PACKET <= b * PACKET
    BY <1>1, <1>12, <1>13
  <2>2. QED
    BY <1>1, <2>1, TimesOrder
<1>15. PICK a2 \in Nat, b2 \in Nat : a2 = a + k /\ b2 = b - k
  <2>1. a + k \in Nat /\ b - k \in Nat
    BY <1>14
  <2>2. QED
    BY <2>1
<1>16. a2 + b2 = a + b
  BY <1>14, <1>15
<1>17. Contents(mop, n) = Flat(r) /\ SubSeq(s, n + 1, Len(s)) = Flat(Run("answer", a2, b2))
  <2>1. /\ SubSeq(s, 1, k * PACKET) = Flat(r)
        /\ SubSeq(s, k * PACKET + 1, Len(s)) = Flat(Run("answer", a + k, b - k))
    BY <1>14, FlatRunSplit, SendersAre
  <2> HIDE DEF s, r
  <2>2. QED
    BY <1>1, <1>13, <1>15, <2>1
<1>18. PICK g2 \in Seq(Packet) : g2 = g \o r
  <2> HIDE DEF r
  <2> QED BY <1>12, CatIs
<1>19. InOrder(g2, {"answer"}, log.lost) /\ Reaches(g2, "answer", a2, log.lost)
  BY <1>1, <1>10, <1>15, <1>18, InOrderRun, ReachesRun, SendersAre DEF Answers
<1> HIDE DEF s, r
<1>20. log'.got = Flat(g2) /\ log'.lost = log.lost
  <2>1. Flat(g2) = Flat(g) \o Flat(r)
    BY <1>12, <1>18, FlatCat
  <2>2. QED
    BY <1>5, <1>10, <1>17, <2>1 DEF Answers
<1>21. Holds(mop', move'["store"], move'["read"], Flat(Run("answer", a2, b2)))
  BY <1>2, <1>3, <1>13, <1>17
<1>22. Answers(p, g2, a2, b2)'
  <2>1. Reaches(p, "answer", a2 + b2, {})
    BY <1>10, <1>16 DEF Answers
  <2>2. QED
    BY <1>19, <1>20, <1>21, <2>1 DEF Answers
<1>23. RxFlow'
  BY <1>11, <1>22 DEF RxFlow
<1>24. StreamTypes'
  <2>1. log'.got \in Seq(Datum)
    BY <1>20, FlatIs
  <2>2. QED
    BY <1>4, <1>5, <2>1 DEF SInv, StreamTypes
<1>25. QED
  BY <1>6, <1>9, <1>23, <1>24 DEF SInv

LEMMA SNetSendStep == ASSUME DInv, SInv, NetSend PROVE SInv'
<1>1. /\ sent' \in [Senders \cup {"open"} -> Nat] /\ sent'["net"] = sent["net"] + 1
      /\ sent["net"] \in Nat
      /\ \A y \in {"program", "answer", "frame"} : sent'[y] = sent[y]
  <2>1. "net" \in Senders \cup {"open"} /\ 1 \in Nat /\ Sends("net", 1)
    BY DEF Senders, NetSend
  <2>2. \A y \in {"program", "answer", "frame"} : y \in Senders \cup {"open"} /\ y # "net"
    BY DEF Senders
  <2>3. QED
    BY <2>1, <2>2, SentIs DEF SInv
<1>2. /\ UNCHANGED <<tx, dma_txOffset, frag, fresh, mopQueue, engine, dma_rxSize,
                     dma_state, dma_doFilter, filter>>
      /\ net_fifo' = net_fifo \o Units("net", 1) /\ log' = log /\ mop' = mop /\ mip' = mip
      /\ move' = move
  BY DEF NetSend, rings, daemon, rx, board
<1>3. TxShape' /\ RxShape'
  BY <1>2, ShapesSame
<1>4. StreamTypes'
  BY <1>1, <1>2 DEF SInv, StreamTypes
<1>5. Outgoing' = Outgoing /\ Incoming' = Incoming
  BY <1>2, OutgoingSame, IncomingSame
<1>6. MopKept /\ MipKept
  BY <1>2, MopSame, MipSame
<1>7. RxFlow'
  BY <1>1, <1>2, <1>5, <1>6, RxSame DEF SInv
<1>8. PICK t \in Seq(Packet), a, b, c, d \in Nat :
        Departed(t) /\ FromNet(t, a, b) /\ FromProgram(t, c, d)
  BY DEF SInv, TxFlow
<1>9. Departed(t)' /\ FromProgram(t, c, d)'
  BY <1>1, <1>2, <1>5, <1>6, <1>8, FromProgramSame DEF Departed
<1>10. PICK e \in Nat : e = b + 1
  OBVIOUS
<1>11. Flat(Run("net", a, b)) \o Flat(Run("net", a + b, 1)) = Flat(Run("net", a, e))
  <2>1. PICK q \in Nat : q = a + b
    OBVIOUS
  <2>2. 1 \in Nat
    OBVIOUS
  <2>3. Flat(Run("net", a, b)) \o Flat(Run("net", q, 1)) = Flat(Run("net", a, e))
    <3>1. PICK x \in Senders : x = "net"
      BY SendersAre
    <3>2. Joined(Flat(Run(x, a, e)), Flat(Run(x, a, b)), Flat(Run(x, q, 1)))
      BY <1>10, <2>1, <2>2, FlatRunJoin
    <3>3. QED
      BY <3>1, <3>2 DEF Joined
  <2>4. QED
    BY <2>1, <2>3
<1>12. FromNet(t, a, e)'
  <2>1. /\ a + b = sent["net"] /\ net_fifo = Flat(Run("net", a, b))
        /\ Reaches(t, "net", a, log.lost)
    BY <1>8 DEF FromNet
  <2>2. Units("net", 1) = Flat(Run("net", a + b, 1))
    <3>1. 1 \in Nat
      OBVIOUS
    <3>2. Units("net", 1) = Flat(Run("net", sent["net"], 1))
      BY <1>1, <3>1, UnitsAre, SendersAre
    <3>3. QED
      BY <2>1, <3>2
  <2>3. a + e = sent'["net"] /\ net_fifo' = Flat(Run("net", a, e))
    BY <1>1, <1>2, <1>10, <1>11, <2>1, <2>2
  <2>4. QED
    BY <1>2, <2>1, <2>3 DEF FromNet
<1>13. TxFlow'
  BY <1>9, <1>10, <1>12 DEF TxFlow
<1>14. QED
  BY <1>3, <1>4, <1>7, <1>13 DEF SInv

-----------------------------------------------------------------------------
(***************************************************************************)
(* The steps of the daemon, the interrupt and the filter that pass         *)
(* packets on without a change of what is where.                           *)
(***************************************************************************)
LEMMA FlowsSame ==
  ASSUME SInv, MipKept, MopKept, Outgoing' = Outgoing, Incoming' = Incoming,
         net_fifo' = net_fifo, sent' = sent, log'.got = log.got,
         log'.handled = log.handled, log'.lost = log.lost
  PROVE  TxFlow' /\ RxFlow'
  BY TxSame, RxSame DEF SInv

LEMMA MemoryIs ==
  ASSUME NEW s \in Seq(Datum), NEW n \in 0 .. Len(s)
  PROVE  Memory(s, n) = SubSeq(s, 1, n)
<1>1. \A i \in 1 .. n : i <= Len(s)
  OBVIOUS
<1>2. Memory(s, n) = [i \in 1 .. n |-> s[i]]
  BY <1>1 DEF Memory
<1>3. QED
  BY <1>2

\* Of equal sequences, the parts.
LEMMA Cancel ==
  ASSUME NEW S, NEW a \in Seq(S), NEW b \in Seq(S), NEW c \in Seq(S), NEW d \in Seq(S),
         Len(a) = Len(c), a \o b = c \o d
  PROVE  a = c /\ b = d
<1>1. SubSeq(a \o b, 1, Len(a)) = a /\ SubSeq(a \o b, Len(a) + 1, Len(a \o b)) = b
  BY Parts
<1>2. SubSeq(c \o d, 1, Len(c)) = c /\ SubSeq(c \o d, Len(c) + 1, Len(c \o d)) = d
  BY Parts
<1> DEFINE x == a \o b
           y == c \o d
<1>3. x = y
  OBVIOUS
<1> HIDE DEF x, y
<1>4. SubSeq(x, 1, Len(a)) = a /\ SubSeq(x, Len(a) + 1, Len(x)) = b
  BY <1>1 DEF x
<1>5. SubSeq(y, 1, Len(c)) = c /\ SubSeq(y, Len(c) + 1, Len(y)) = d
  BY <1>2 DEF y
<1>6. QED
  BY <1>3, <1>4, <1>5

LEMMA SubSub ==
  ASSUME NEW S, NEW s \in Seq(S), NEW a \in 0 .. Len(s), NEW b \in 0 .. Len(s) - a
  PROVE  LET r == SubSeq(s, a + 1, Len(s)) IN
         /\ r \in Seq(S) /\ Len(r) = Len(s) - a
         /\ SubSeq(r, b + 1, Len(r)) = SubSeq(s, (a + b) + 1, Len(s))
<1> DEFINE r == SubSeq(s, a + 1, Len(s))
           n == Len(s)
           x == SubSeq(r, b + 1, n - a)
           y == SubSeq(s, (a + b) + 1, n)
<1>1. n \in Nat /\ a + 1 \in 1 .. n + 1 /\ n \in a + 1 - 1 .. n
  OBVIOUS
<1>2. r \in Seq(S) /\ Len(r) = n - (a + 1) + 1
      /\ \A i \in 1 .. n - (a + 1) + 1 : r[i] = s[a + 1 + i - 1]
  BY <1>1, SubIs
<1> HIDE DEF r, n
<1>3. Len(r) = n - a /\ \A i \in 1 .. n - a : r[i] = s[a + i]
  <2>1. n - (a + 1) + 1 = n - a /\ \A i \in 1 .. n - a : a + 1 + i - 1 = a + i
    BY <1>1
  <2>2. QED
    BY <1>2, <2>1
<1>4. b + 1 \in 1 .. (n - a) + 1 /\ n - a \in b + 1 - 1 .. n - a
      /\ (a + b) + 1 \in 1 .. n + 1 /\ n \in (a + b) + 1 - 1 .. n
  BY <1>1 DEF n
<1>5. x \in Seq(S) /\ Len(x) = (n - a) - (b + 1) + 1
      /\ \A i \in 1 .. (n - a) - (b + 1) + 1 : x[i] = r[b + 1 + i - 1]
  <2> DEFINE f == b + 1
             l == n - a
  <2>1. f \in 1 .. Len(r) + 1 /\ l \in f - 1 .. Len(r)
    BY <1>3, <1>4
  <2>2. x = SubSeq(r, f, l)
    OBVIOUS
  <2> HIDE DEF f, l, x
  <2>3. SubSeq(r, f, l) \in Seq(S) /\ Len(SubSeq(r, f, l)) = l - f + 1
        /\ \A i \in 1 .. l - f + 1 : SubSeq(r, f, l)[i] = r[f + i - 1]
    BY <1>2, <2>1, SubIs
  <2>4. QED
    BY <2>2, <2>3 DEF f, l
<1>6. y \in Seq(S) /\ Len(y) = n - ((a + b) + 1) + 1
      /\ \A i \in 1 .. n - ((a + b) + 1) + 1 : y[i] = s[(a + b) + 1 + i - 1]
  BY <1>4, SubIs DEF n
<1> HIDE DEF x, y
<1>7. Len(x) = Len(y) /\ Len(x) = (n - a) - b
  BY <1>1, <1>4, <1>5, <1>6
<1>8. ASSUME NEW i \in 1 .. Len(x) PROVE x[i] = y[i]
  <2>1. /\ i \in 1 .. (n - a) - (b + 1) + 1 /\ i \in 1 .. n - ((a + b) + 1) + 1
        /\ b + 1 + i - 1 \in 1 .. n - a /\ a + (b + 1 + i - 1) = (a + b) + 1 + i - 1
    BY <1>1, <1>7
  <2>2. x[i] = r[b + 1 + i - 1] /\ y[i] = s[(a + b) + 1 + i - 1]
    BY <1>5, <1>6, <2>1
  <2>3. r[b + 1 + i - 1] = s[a + (b + 1 + i - 1)]
    BY <1>3, <2>1
  <2>4. QED
    BY <2>1, <2>2, <2>3
<1>9. x = y
  BY <1>5, <1>6, <1>7, <1>8, SameSeq
<1>10. QED
  BY <1>2, <1>3, <1>9 DEF x, y, n, r

\* All of a sequence.
LEMMA AllOf == ASSUME NEW S, NEW s \in Seq(S) PROVE SubSeq(s, 0 + 1, Len(s)) = s
  OBVIOUS

\* While nothing is filtered, what was received is what is to come.
LEMMA IncomingAsleep ==
  ASSUME frag \in Seq(Datum), fresh \in Seq(Datum), filter.done = 0
  PROVE  Incoming = (frag \o fresh) \o mopQueue
<1> DEFINE r == frag \o fresh
<1>1. r \in Seq(Datum)
  BY CatIs
<1>2. Incoming = SubSeq(r, 0 + 1, Len(r)) \o mopQueue
  BY DEF Incoming, Received
<1> HIDE DEF r
<1>3. SubSeq(r, 0 + 1, Len(r)) = r
  BY <1>1, AllOf
<1>4. QED
  BY <1>2, <1>3 DEF r

LEMMA SLookStep == ASSUME DInv, SInv, Look PROVE SInv'
<1>1. MipKept /\ MopKept
  BY MipSame, MopSame DEF Look, rings
<1>2. /\ UNCHANGED <<tx, dma_txOffset, frag, fresh, mopQueue, engine, dma_rxSize, dma_doFilter>>
      /\ net_fifo' = net_fifo /\ sent' = sent /\ log' = log
  BY DEF Look, board
<1>3. \/ dma_state' = dma_state /\ filter' = filter
      \/ dma_state = "RX_DONE" /\ dma_state' = "IDLE" /\ filter' = [filter EXCEPT !.at = "queued"]
  BY DEF Look
<1>4. CASE dma_state' = dma_state /\ filter' = filter
  BY <1>1, <1>2, <1>4, StreamsSame
<1>5. CASE dma_state = "RX_DONE" /\ dma_state' = "IDLE" /\ filter' = [filter EXCEPT !.at = "queued"]
  <2>1. filter.at = "idle" /\ filter \in [at : {"idle", "queued", "run", "stored"}, todo : Int, done : Int]
    BY <1>5 DEF DInv, FilterInv
  <2>2. filter'.at = "queued" /\ filter'.done = filter.done /\ filter'.todo = filter.todo
    BY <1>5, <2>1
  <2>3. filter.done = 0
    BY <2>1 DEF SInv, RxShape
  <2>4. StreamTypes'
    BY <1>2, <1>5, <2>2 DEF SInv, StreamTypes
  <2>5. engine.op # "tx" /\ engine.op # "rx"
    BY <1>5 DEF SInv, TxShape, RxShape
  <2>6. TxShape'
    BY <1>2, <1>5, <2>5 DEF SInv, TxShape
  <2>7. RxShape'
    BY <1>2, <1>5, <2>2, <2>3, <2>5 DEF SInv, RxShape
  <2>8. Outgoing' = Outgoing /\ Incoming' = Incoming
    BY <1>2, <2>2, OutgoingSame, IncomingSame
  <2>9. QED
    BY <1>1, <1>2, <2>4, <2>6, <2>7, <2>8, FlowsSame DEF SInv
<1>6. QED
  BY <1>3, <1>4, <1>5

\* The filter has stored the packet: the ring keeps what it holds, now without a write.
LEMMA SFilterStoredStep == ASSUME DInv, SInv, FilterStored PROVE SInv'
<1>1. move'["store"] = Idle /\ \A t \in {"write", "read", "fetch"} : move'[t] = move[t]
  BY DEF DInv, MoversInv, FilterStored
<1>2. Ring(mop, move["store"], move["read"]) /\ mop' = WriteDone(mop, move["store"])
  BY DEF DInv, RingsInv, FilterStored
<1>3. MopKept
  BY <1>1, <1>2, HoldsWriteDone DEF MopKept
<1>4. MipKept
  BY <1>1, MipSame DEF FilterStored
<1>5. /\ UNCHANGED <<tx, dma_txOffset, frag, fresh, mopQueue, engine, dma_rxSize, dma_doFilter>>
      /\ dma_state' = dma_state /\ net_fifo' = net_fifo /\ sent' = sent /\ log' = log
  BY DEF FilterStored, daemon, board
<1>6. /\ filter.at = "stored" /\ filter'.at = "run"
      /\ filter'.done = filter.done /\ filter'.todo = filter.todo
  <2>1. filter \in [at : {"idle", "queued", "run", "stored"}, todo : Int, done : Int]
    BY DEF DInv, FilterInv
  <2>2. QED
    BY <2>1 DEF FilterStored
<1>7. StreamTypes' /\ TxShape'
  BY <1>5, <1>6 DEF SInv, StreamTypes, TxShape
<1>8. RxShape'
  BY <1>5, <1>6 DEF SInv, RxShape
<1>9. Outgoing' = Outgoing /\ Incoming' = Incoming
  BY <1>5, <1>6, OutgoingSame, IncomingSame
<1>10. QED
  BY <1>3, <1>4, <1>5, <1>7, <1>8, <1>9, FlowsSame DEF SInv

LEMMA SFilterStartStep == ASSUME DInv, SInv, FilterStart PROVE SInv'
<1> DEFINE x == IF dma_rxSize > BUFFER - mop.level THEN BUFFER - mop.level ELSE dma_rxSize
           todo == x \div PACKET
<1>1. MipKept /\ MopKept
  BY MipSame, MopSame DEF FilterStart, rings
<1>2. /\ UNCHANGED <<tx, dma_txOffset, frag, fresh, mopQueue, engine, dma_rxSize, dma_doFilter>>
      /\ dma_state' = dma_state /\ net_fifo' = net_fifo /\ sent' = sent /\ log' = log
  BY DEF FilterStart, daemon, board
<1>3. filter.at = "queued" /\ filter' = [at |-> "run", done |-> 0, todo |-> todo]
  BY DEF FilterStart
<1>4. x \in Nat /\ x <= dma_rxSize
  <2>1. dma_rxSize \in Nat /\ mop.level \in 0 .. BUFFER /\ BUFFER \in Nat
    BY Numbers DEF SInv, StreamTypes
  <2>2. QED
    BY <2>1
<1> HIDE DEF x
<1>5. todo \in Nat /\ todo * PACKET <= dma_rxSize /\ todo * PACKET \in Nat
  <2>1. x \div PACKET \in Nat /\ Whole(x) = (x \div PACKET) * PACKET
    BY <1>4, WholeIs
  <2>2. Whole(x) <= x /\ Whole(x) \in Nat
    BY <1>4, WholeLess
  <2>3. dma_rxSize \in Nat
    BY DEF SInv, StreamTypes
  <2>4. Whole(x) <= dma_rxSize
    BY <1>4, <2>2, <2>3
  <2>5. QED
    BY <2>1, <2>2, <2>4
<1> HIDE DEF todo
<1>6. filter'.at = "run" /\ filter'.done = 0 /\ filter'.todo = todo /\ filter.done = 0
  BY <1>3 DEF SInv, RxShape
<1>7. StreamTypes' /\ TxShape'
  BY <1>2, <1>5, <1>6 DEF SInv, StreamTypes, TxShape
<1>8. RxShape'
  <2>1. 0 + todo * PACKET <= dma_rxSize
    <3> DEFINE y == todo * PACKET
    <3>1. y \in Nat /\ y <= dma_rxSize
      BY <1>5
    <3> HIDE DEF y
    <3>2. 0 + y = y
      BY <3>1
    <3>3. QED
      BY <3>1, <3>2 DEF y
  <2>2. QED
    BY <1>2, <1>6, <2>1 DEF SInv, RxShape
<1>9. Outgoing' = Outgoing /\ Incoming' = Incoming
  BY <1>2, <1>6, OutgoingSame, IncomingSame
<1>10. QED
  BY <1>1, <1>2, <1>7, <1>8, <1>9, FlowsSame DEF SInv

\* Where the filter stands, the received units are complete.
LEMMA ReceivedIs ==
  ASSUME DInv, SInv, filter.at = "run"
  PROVE  /\ Received \in Seq(Datum) /\ Len(Received) = dma_rxSize /\ dma_rxSize \in Nat
         /\ filter.done \in 0 .. dma_rxSize /\ engine.op # "rx"
         /\ filter.todo \in Nat /\ filter.done + filter.todo * PACKET <= dma_rxSize
<1>1. dma_state # "RX_PENDING" /\ engine.op # "rx"
  BY DEF DInv, FilterInv, SInv, RxShape
<1>2. /\ Received \in Seq(Datum) /\ Len(Received) = dma_rxSize
  <2>1. frag \in Seq(Datum) /\ fresh \in Seq(Datum)
    BY DEF SInv, StreamTypes
  <2>2. frag \o fresh \in Seq(Datum) /\ Len(frag \o fresh) = Len(frag) + Len(fresh)
    BY <2>1, CatIs
  <2>3. dma_rxSize = Len(frag) + Len(fresh)
    BY <1>1 DEF SInv, RxShape
  <2>4. QED
    BY <2>2, <2>3 DEF Received
<1>3. dma_rxSize \in Nat /\ filter.done \in Nat /\ filter.todo \in Nat
  BY DEF SInv, StreamTypes
<1>4. filter.done + filter.todo * PACKET <= dma_rxSize
  BY DEF SInv, RxShape
<1>5. filter.done \in 0 .. dma_rxSize
  <2> DEFINE x == filter.todo * PACKET
  <2>1. x \in Nat
    BY <1>3, DmaAssumption
  <2> HIDE DEF x
  <2>2. filter.done + x <= dma_rxSize
    BY <1>4 DEF x
  <2>3. QED
    BY <1>3, <2>1, <2>2
<1>6. QED
  BY <1>1, <1>2, <1>3, <1>4, <1>5

LEMMA SFilterEndStep == ASSUME DInv, SInv, FilterEnd PROVE SInv'
<1> DEFINE n == dma_rxSize - filter.done
           r == SubSeq(Received, filter.done + 1, Len(Received))
<1>1. MipKept /\ MopKept
  BY MipSame, MopSame DEF FilterEnd, rings
<1>2. /\ UNCHANGED <<tx, dma_txOffset, mopQueue, engine>>
      /\ dma_state' = dma_state /\ net_fifo' = net_fifo /\ sent' = sent /\ log' = log
  BY DEF FilterEnd, daemon, board
<1>3. /\ filter.at = "run" /\ frag' = Memory(r, n) /\ dma_rxSize' = n /\ fresh' = <<>>
      /\ dma_doFilter' = FALSE /\ filter' = Asleep
  BY DEF FilterEnd
<1>4. /\ Received \in Seq(Datum) /\ Len(Received) = dma_rxSize /\ dma_rxSize \in Nat
      /\ filter.done \in 0 .. dma_rxSize /\ engine.op # "rx"
  BY <1>3, ReceivedIs
<1>5. r \in Seq(Datum) /\ Len(r) = n /\ n \in Nat
  <2>1. 0 \in 0 .. Len(Received) - filter.done
    BY <1>4
  <2>2. QED
    BY <1>4, <2>1, SubSub
<1>6. Incoming = r \o mopQueue
  BY DEF Incoming
<1> HIDE DEF r, n
<1>7. frag' = r
  <2>1. n \in 0 .. Len(r) /\ SubSeq(r, 1, Len(r)) = r
    BY <1>5
  <2>2. QED
    BY <1>3, <1>5, <2>1, MemoryIs
<1>8. /\ filter'.at = "idle" /\ filter'.done = 0 /\ filter'.todo = 0
      /\ <<>> \in Seq(Datum) /\ Len(<<>>) = 0
  BY <1>3 DEF Asleep
<1>9. StreamTypes'
  BY <1>2, <1>3, <1>5, <1>7, <1>8 DEF SInv, StreamTypes
<1>10. TxShape'
  BY <1>2 DEF SInv, TxShape
<1>11. RxShape'
  <2>1. Len(frag') + Len(fresh') = n
    BY <1>3, <1>5, <1>7, <1>8
  <2>2. QED
    BY <1>2, <1>3, <1>4, <1>8, <2>1 DEF SInv, RxShape
<1>12. Incoming' = Incoming
  <2>1. /\ frag' \in Seq(Datum) /\ fresh' \in Seq(Datum) /\ filter'.done = 0
    BY <1>8, <1>9 DEF StreamTypes
  <2>2. Incoming' = (frag' \o fresh') \o mopQueue'
    <3> DEFINE q == frag' \o fresh'
    <3>1. q \in Seq(Datum)
      BY <2>1, CatIs
    <3>2. Incoming' = SubSeq(q, 0 + 1, Len(q)) \o mopQueue'
      BY <2>1 DEF Incoming, Received
    <3> HIDE DEF q
    <3>3. SubSeq(q, 0 + 1, Len(q)) = q
      BY <3>1, AllOf
    <3>4. QED
      BY <3>2, <3>3 DEF q
  <2>3. r \o <<>> = r
    BY <1>5, NothingMore
  <2>4. QED
    BY <1>2, <1>3, <1>6, <1>7, <2>2, <2>3
<1>13. Outgoing' = Outgoing
  BY <1>2, OutgoingSame
<1>14. QED
  BY <1>1, <1>2, <1>9, <1>10, <1>11, <1>12, <1>13, FlowsSame DEF SInv

\* The engine stands still while the daemon may start it.
LEMMA SDoRxStep == ASSUME DInv, SInv, DoRx PROVE SInv'
<1>1. MipKept /\ MopKept
  BY MipSame, MopSame DEF DoRx, rings
<1>2. /\ UNCHANGED <<tx, dma_txOffset, frag, filter>>
      /\ net_fifo' = net_fifo /\ sent' = sent /\ log' = log
  BY DEF DoRx
<1>3. CASE ~(MayRead /\ mopQueue # <<>>)
  <2>1. UNCHANGED <<dma_state, dma_rxSize, dma_doFilter, fresh, mopQueue, engine>>
    BY <1>3 DEF DoRx
  <2>2. QED
    BY <1>1, <1>2, <2>1, StreamsSame
<1>4. CASE MayRead /\ mopQueue # <<>>
  <2> DEFINE n == Len(mopQueue)
  <2>1. dma_state = "IDLE" /\ dma_doFilter = FALSE /\ dma_doFilter' = TRUE
    BY <1>4 DEF MayRead, DoRx, DInv, FilterInv
  <2>2. filter.at = "idle" /\ filter.done = 0 /\ engine.op # "rx" /\ engine.op # "tx"
    BY <2>1 DEF DInv, FilterInv, SInv, RxShape, TxShape
  <2>3. /\ fresh = <<>> /\ frag \in Seq(Datum) /\ mopQueue \in Seq(Datum)
        /\ n \in Nat /\ dma_rxSize \in Nat /\ Len(<<>>) = 0 /\ <<>> \in Seq(Datum)
    BY <2>1 DEF SInv, StreamTypes, RxShape
  <2>4. dma_rxSize = Len(frag) /\ Len(frag) \in Nat
    <3>1. dma_rxSize = Len(frag) + Len(fresh)
      BY <2>2 DEF SInv, RxShape
    <3>2. QED
      BY <2>3, <3>1
  <2>5. PICK left \in Leftover(n) :
          IF left = n
          THEN /\ dma_state' = "RX_DONE" /\ dma_rxSize' = dma_rxSize + n
               /\ fresh' = mopQueue /\ mopQueue' = <<>> /\ engine' = engine
          ELSE /\ dma_state' = "RX_PENDING" /\ dma_rxSize' = dma_rxSize + n - left
               /\ engine' = [op |-> "rx", half |-> 0, n |-> n - left]
               /\ fresh' = fresh /\ mopQueue' = mopQueue
    BY <1>4 DEF DoRx
  <2> HIDE DEF n
  <2>6. left \in Nat /\ left <= n
    BY <2>3, LeftoverLess
  <2>7. Outgoing = (log.arrived \o <<>>) \o tx[dma_txOffset]
    BY <2>2 DEF Outgoing, InFlight
  <2>8. Incoming = (frag \o <<>>) \o mopQueue
    BY <2>2, <2>3, IncomingAsleep
  <2>9. CASE left = n
    <3>1. /\ dma_state' = "RX_DONE" /\ dma_rxSize' = dma_rxSize + n
          /\ fresh' = mopQueue /\ mopQueue' = <<>> /\ engine' = engine
      BY <2>5, <2>9
    <3>2. StreamTypes'
      BY <1>2, <2>3, <3>1 DEF SInv, StreamTypes
    <3>3. TxShape'
      BY <1>2, <2>2, <3>1 DEF SInv, TxShape
    <3>4. RxShape'
      <4>1. dma_rxSize' = Len(frag') + Len(fresh')
        BY <1>2, <2>4, <3>1 DEF n
      <4>2. QED
        BY <1>2, <2>1, <2>2, <3>1, <4>1 DEF SInv, RxShape
    <3>5. Outgoing' = Outgoing
      BY <1>2, <3>1, OutgoingSame
    <3>6. Incoming' = Incoming
      <4> DEFINE q == frag \o mopQueue
      <4>1. q \in Seq(Datum)
        BY <2>3, CatIs
      <4>2. frag \o <<>> = frag
        BY <2>3, NothingMore
      <4>3. Incoming = q
        BY <2>8, <4>2
      <4>4. Incoming' = SubSeq(q, 0 + 1, Len(q)) \o <<>>
        BY <1>2, <2>2, <3>1 DEF Incoming, Received
      <4> HIDE DEF q
      <4>5. SubSeq(q, 0 + 1, Len(q)) = q /\ q \o <<>> = q
        BY <4>1, AllOf, NothingMore
      <4>6. QED
        BY <4>3, <4>4, <4>5
    <3>7. QED
      BY <1>1, <1>2, <3>2, <3>3, <3>4, <3>5, <3>6, FlowsSame DEF SInv
  <2>10. CASE left # n
    <3>1. /\ dma_state' = "RX_PENDING" /\ dma_rxSize' = dma_rxSize + n - left
          /\ engine' = [op |-> "rx", half |-> 0, n |-> n - left]
          /\ fresh' = fresh /\ mopQueue' = mopQueue
      BY <2>5, <2>10
    <3>2. n - left \in Nat /\ n - left <= n /\ dma_rxSize' \in Nat
          /\ dma_rxSize' = Len(frag) + (n - left)
      BY <2>3, <2>4, <2>6, <3>1
    <3>3. /\ engine'.op = "rx" /\ engine'.n = n - left /\ engine'.half = 0
          /\ engine' \in [op : {"none", "tx", "rx"}, half : {0, 1}, n : Nat]
      BY <3>1, <3>2
    <3>4. StreamTypes'
      BY <1>2, <3>1, <3>2, <3>3 DEF SInv, StreamTypes
    <3>5. TxShape'
      BY <1>2, <2>2, <3>1, <3>3 DEF SInv, TxShape
    <3>6. RxShape'
      <4>1. engine'.n <= Len(mopQueue') /\ dma_rxSize' = Len(frag') + engine'.n
        BY <1>2, <3>1, <3>2, <3>3 DEF n
      <4>2. QED
        BY <1>2, <2>1, <2>2, <2>3, <3>1, <3>3, <4>1 DEF RxShape
    <3>7. Outgoing' = Outgoing
      BY <1>2, <2>7, <3>3 DEF Outgoing, InFlight
    <3>8. Incoming' = Incoming
      BY <1>2, <3>1, IncomingSame
    <3>9. QED
      BY <1>1, <1>2, <3>4, <3>5, <3>6, <3>7, <3>8, FlowsSame DEF SInv
  <2>11. QED
    BY <2>9, <2>10
<1>5. QED
  BY <1>3, <1>4

LEMMA SIsrStep == ASSUME DInv, SInv, Isr("own") PROVE SInv'
<1>1. MipKept /\ MopKept
  BY MipSame, MopSame DEF Isr, rings
<1>2. /\ UNCHANGED <<dma_txOffset, frag, dma_rxSize, dma_doFilter, filter>>
      /\ net_fifo' = net_fifo /\ sent' = sent /\ engine' = NoDma
  BY DEF Isr
<1>3. /\ engine.op # "none" /\ engine.op \in {"none", "tx", "rx"} /\ engine.n \in Nat
      /\ engine'.op = "none" /\ engine' \in [op : {"none", "tx", "rx"}, half : {0, 1}, n : Nat]
  <2>1. NoDma.op = "none" /\ NoDma \in [op : {"none", "tx", "rx"}, half : {0, 1}, n : Nat]
    BY DEF NoDma
  <2>2. QED
    BY <1>2, <2>1 DEF Isr, SInv, StreamTypes
<1>4. <<>> \in Seq(Datum) /\ Len(<<>>) = 0
  OBVIOUS
<1>5. CASE engine.op = "tx"
  <2> DEFINE h == engine.half
             s == SubSeq(tx[h], 1, engine.n)
             y == tx[dma_txOffset]
  <2>1. dma_state = "TX_PENDING" /\ h = 1 - dma_txOffset /\ engine.n <= Len(tx[h])
    BY <1>5 DEF SInv, TxShape
  <2>2. dma_txOffset \in {0, 1} /\ h \in {0, 1} /\ h # dma_txOffset
    BY <2>1 DEF DInv, TxInv
  <2>3. /\ tx \in [{0, 1} -> Seq(Datum)] /\ tx[h] \in Seq(Datum) /\ y \in Seq(Datum)
        /\ log.arrived \in Seq(Datum)
        /\ log = [arrived |-> log.arrived, got |-> log.got, handled |-> log.handled,
                  lost |-> log.lost]
    BY <2>2 DEF SInv, StreamTypes
  <2>4. Memory(tx[h], engine.n) = s /\ s \in Seq(Datum)
    <3> DEFINE z == tx[h]
               m == engine.n
    <3>1. z \in Seq(Datum) /\ m \in 0 .. Len(z)
      BY <1>3, <2>1, <2>3
    <3> HIDE DEF z, m
    <3>2. Memory(z, m) = SubSeq(z, 1, m) /\ SubSeq(z, 1, m) \in Seq(Datum)
      BY <3>1, MemoryIs
    <3>3. QED
      BY <3>2 DEF z, m
  <2>5. /\ dma_state' = "IDLE" /\ tx' = [tx EXCEPT ![h] = <<>>]
        /\ fresh' = fresh /\ mopQueue' = mopQueue
        /\ log' = [log EXCEPT !.arrived = log.arrived \o s]
    BY <1>5, <2>1, <2>4 DEF Isr
  <2>6. Outgoing = (log.arrived \o s) \o y
    BY <1>5 DEF Outgoing, InFlight
  <2> HIDE DEF s, y
  <2>7. log' = [arrived |-> log.arrived \o s, got |-> log.got, handled |-> log.handled,
                lost |-> log.lost]
    BY <2>3, <2>5
  <2>8. log.arrived \o s \in Seq(Datum)
    BY <2>3, <2>4, CatIs
  <2>9. tx'[h] = <<>> /\ tx'[dma_txOffset] = y /\ tx' \in [{0, 1} -> Seq(Datum)]
    BY <1>4, <2>2, <2>3, <2>5 DEF y
  <2>10. StreamTypes'
    BY <1>2, <1>3, <2>5, <2>7, <2>8, <2>9 DEF SInv, StreamTypes
  <2>11. TxShape'
    BY <1>2, <1>3, <2>1, <2>5, <2>9 DEF TxShape
  <2>12. RxShape'
    BY <1>2, <1>3, <1>5, <2>5 DEF SInv, RxShape
  <2>13. Outgoing' = Outgoing
    <3> DEFINE z == log.arrived \o s
    <3>1. Outgoing' = (z \o <<>>) \o y
      BY <1>2, <1>3, <2>7, <2>9 DEF Outgoing, InFlight
    <3>2. z \in Seq(Datum) /\ Outgoing = z \o y
      BY <2>6, <2>8
    <3> HIDE DEF z
    <3>3. z \o <<>> = z
      BY <3>2, NothingMore
    <3>4. QED
      BY <3>1, <3>2, <3>3
  <2>14. Incoming' = Incoming
    BY <1>2, <2>5, IncomingSame
  <2>15. QED
    BY <1>1, <1>2, <2>7, <2>10, <2>11, <2>12, <2>13, <2>14, FlowsSame DEF SInv
<1>6. CASE engine.op = "rx"
  <2> DEFINE n == engine.n
             a == SubSeq(mopQueue, 1, n)
             b == SubSeq(mopQueue, n + 1, Len(mopQueue))
  <2>1. /\ dma_state = "RX_PENDING" /\ fresh = <<>> /\ n <= Len(mopQueue)
        /\ dma_rxSize = Len(frag) + n
    BY <1>6 DEF SInv, RxShape
  <2>2. /\ dma_state' = "RX_DONE" /\ fresh' = a /\ mopQueue' = b /\ tx' = tx /\ log' = log
    BY <1>6, <2>1 DEF Isr
  <2>3. filter.at = "idle" /\ dma_doFilter = TRUE /\ filter.done = 0
    BY <2>1 DEF DInv, FilterInv, SInv, RxShape
  <2>4. mopQueue \in Seq(Datum) /\ frag \in Seq(Datum) /\ fresh \in Seq(Datum)
    BY DEF SInv, StreamTypes
  <2>5. n \in 0 .. Len(mopQueue)
    BY <1>3, <2>1, <2>4
  <2>6. mopQueue = a \o b
    BY <2>4, <2>5, SplitAt
  <2>7. a \in Seq(Datum) /\ b \in Seq(Datum) /\ Len(a) = n
    <3> HIDE DEF n
    <3> QED BY <2>4, <2>5
  <2>8. Incoming = (frag \o <<>>) \o mopQueue
    BY <2>1, <2>3, <2>4, IncomingAsleep
  <2> HIDE DEF a, b, n
  <2>9. StreamTypes'
    BY <1>2, <1>3, <2>2, <2>7 DEF SInv, StreamTypes
  <2>10. TxShape'
    BY <1>2, <1>3, <1>6, <2>2 DEF SInv, TxShape
  <2>11. RxShape'
    BY <1>2, <1>3, <2>1, <2>2, <2>3, <2>7 DEF SInv, RxShape
  <2>12. Outgoing' = Outgoing
    BY <1>2, <1>3, <1>6, <2>2 DEF Outgoing, InFlight
  <2>13. Incoming' = Incoming
    <3> DEFINE q == frag \o a
    <3>1. q \in Seq(Datum) /\ q \o b = frag \o (a \o b)
      <4>1. frag \o a \in Seq(Datum)
        BY <2>4, <2>7, CatIs
      <4>2. (frag \o a) \o b = frag \o (a \o b)
        <5>1. frag \in Seq(Datum) /\ a \in Seq(Datum) /\ b \in Seq(Datum)
          BY <2>4, <2>7
        <5>2. QED
          BY <5>1
      <4>3. QED
        BY <4>1, <4>2
    <3>2. Incoming' = SubSeq(q, 0 + 1, Len(q)) \o b
      BY <1>2, <2>2, <2>3 DEF Incoming, Received
    <3> HIDE DEF q
    <3>3. SubSeq(q, 0 + 1, Len(q)) = q
      BY <3>1, AllOf
    <3>4. frag \o <<>> = frag
      BY <2>4, NothingMore
    <3>5. QED
      BY <2>6, <2>8, <3>1, <3>2, <3>3, <3>4
  <2>14. QED
    BY <1>1, <1>2, <2>2, <2>9, <2>10, <2>11, <2>12, <2>13, FlowsSame DEF SInv
<1>7. QED
  BY <1>3, <1>5, <1>6

\* What does not fit is the beginning of the other half.
LEMMA SDoTxStep == ASSUME DInv, SInv, DoTx PROVE SInv'
<1> DEFINE h == dma_txOffset
           n == Least(Len(tx[h]), HALF - mipLevel)
           s == tx[h]
<1>1. MipKept /\ MopKept
  BY MipSame, MopSame DEF DoTx, rings
<1>2. /\ UNCHANGED <<frag, fresh, mopQueue, dma_rxSize, dma_doFilter, filter>>
      /\ net_fifo' = net_fifo /\ sent' = sent /\ dma_state = "IDLE"
  BY DEF DoTx, rx
<1>3. engine.op # "tx" /\ engine.op # "rx"
  BY <1>2 DEF SInv, TxShape, RxShape
<1>4. /\ h \in {0, 1} /\ 1 - h \in {0, 1} /\ 1 - h # h /\ 1 - (1 - h) = h /\ mipLevel \in Int
  BY DEF DInv, TxInv
<1>5. /\ tx \in [{0, 1} -> Seq(Datum)] /\ s \in Seq(Datum) /\ log.arrived \in Seq(Datum)
      /\ log = [arrived |-> log.arrived, got |-> log.got, handled |-> log.handled,
                lost |-> log.lost]
      /\ <<>> \in Seq(Datum)
  BY <1>4 DEF SInv, StreamTypes
<1>6. Outgoing = (log.arrived \o <<>>) \o s
  BY <1>3 DEF Outgoing, InFlight
<1>7. Incoming' = Incoming
  BY <1>2, IncomingSame
<1>8. CASE ~(dma_doTx /\ n > 0)
  <2>1. UNCHANGED <<log, tx, dma_state, engine, dma_txOffset>>
    BY <1>8 DEF DoTx
  <2>2. QED
    BY <1>1, <1>2, <2>1, StreamsSame
<1>9. CASE dma_doTx /\ n > 0
  <2>1. n \in Nat /\ n <= Len(s)
    <3> DEFINE l == Len(s)
               r == HALF - mipLevel
    <3>1. l \in Int /\ r \in Int /\ n = Least(l, r)
      BY <1>4, <1>5, Numbers
    <3> HIDE DEF l, r, n
    <3>2. n \in Int /\ n <= l
      BY <3>1, LeastLess
    <3>3. QED
      BY <1>9, <3>2 DEF l
  <2>2. PICK left \in Leftover(n) :
          IF left = n
          THEN /\ log' = [log EXCEPT !.arrived = @ \o SubSeq(s, 1, n)]
               /\ tx' = [tx EXCEPT ![1 - h] = Rest(s, n, 0), ![h] = <<>>]
               /\ dma_state' = dma_state /\ engine' = engine
          ELSE /\ dma_state' = "TX_PENDING"
               /\ engine' = [op |-> "tx", half |-> h, n |-> n - left]
               /\ tx' = [tx EXCEPT ![1 - h] = Rest(s, n, left)]
               /\ log' = log
    BY <1>9 DEF DoTx
  <2>3. dma_txOffset' = 1 - h
    BY <1>9 DEF DoTx
  <2> HIDE DEF n
  <2>4. left \in Nat /\ left <= n
    BY <2>1, LeftoverLess
  <2>5. \A k \in 0 .. n : /\ SubSeq(s, 1, k) \in Seq(Datum) /\ SubSeq(s, k + 1, Len(s)) \in Seq(Datum)
                          /\ s = SubSeq(s, 1, k) \o SubSeq(s, k + 1, Len(s))
    <3> HIDE DEF s
    <3> TAKE k \in 0 .. n
    <3>1. k \in 0 .. Len(s) /\ Len(s) \in Nat
      BY <1>5, <2>1
    <3>2. SubSeq(s, 1, k) \in Seq(Datum) /\ SubSeq(s, k + 1, Len(s)) \in Seq(Datum)
      BY <1>5, <3>1
    <3>3. QED
      BY <1>5, <3>1, <3>2, SplitAt
  <2>6. CASE left = n
    <3> DEFINE a == SubSeq(s, 1, n)
               b == SubSeq(s, n + 1, Len(s))
    <3>1. a \in Seq(Datum) /\ b \in Seq(Datum) /\ s = a \o b
      <4>1. n \in 0 .. n
        BY <2>1
      <4> HIDE DEF s
      <4>2. QED
        BY <2>5, <4>1
    <3>2. Rest(s, n, 0) = b
      BY <2>1 DEF Rest
    <3>3. /\ log' = [log EXCEPT !.arrived = log.arrived \o a]
          /\ tx' = [tx EXCEPT ![1 - h] = b, ![h] = <<>>]
          /\ dma_state' = dma_state /\ engine' = engine
      BY <2>2, <2>6, <3>2
    <3> HIDE DEF a, b, s
    <3>4. log' = [arrived |-> log.arrived \o a, got |-> log.got, handled |-> log.handled,
                  lost |-> log.lost]
      BY <1>5, <3>3
    <3>5. tx'[1 - h] = b /\ tx'[h] = <<>> /\ tx' \in [{0, 1} -> Seq(Datum)]
      BY <1>4, <1>5, <3>1, <3>3
    <3>6. log.arrived \o a \in Seq(Datum)
      BY <1>5, <3>1, CatIs
    <3>7. StreamTypes'
      BY <1>2, <3>3, <3>4, <3>5, <3>6 DEF SInv, StreamTypes
    <3>8. TxShape'
      <4>1. tx'[1 - dma_txOffset'] = <<>>
        BY <1>4, <2>3, <3>5
      <4>2. QED
        BY <1>2, <1>3, <3>3, <4>1 DEF TxShape
    <3>9. RxShape'
      BY <1>2, <1>3, <3>3 DEF SInv, RxShape
    <3>10. Outgoing' = Outgoing
      <4> DEFINE x == log.arrived
      <4>1. Outgoing' = ((x \o a) \o <<>>) \o b
        BY <1>3, <2>3, <3>3, <3>4, <3>5 DEF Outgoing, InFlight
      <4>2. x \in Seq(Datum)
        BY <1>5
      <4> HIDE DEF x
      <4>3. (x \o a) \o <<>> = x \o a /\ x \o <<>> = x /\ (x \o a) \o b = x \o (a \o b)
        BY <3>1, <4>2, CatIs, NothingMore, Associative
      <4>4. QED
        BY <1>6, <3>1, <4>1, <4>3 DEF x
    <3>11. QED
      BY <1>1, <1>2, <1>7, <3>4, <3>7, <3>8, <3>9, <3>10, FlowsSame DEF SInv
  <2>7. CASE left # n
    <3> DEFINE k == n - left
               a == SubSeq(s, 1, k)
               b == SubSeq(s, k + 1, Len(s))
    <3>1. k \in 0 .. n
      BY <2>1, <2>4
    <3>2. a \in Seq(Datum) /\ b \in Seq(Datum) /\ s = a \o b
      BY <2>5, <3>1
    <3>3. Rest(s, n, left) = b
      BY DEF Rest
    <3>4. /\ dma_state' = "TX_PENDING" /\ engine' = [op |-> "tx", half |-> h, n |-> k]
          /\ tx' = [tx EXCEPT ![1 - h] = b] /\ log' = log
      BY <2>2, <2>7, <3>3
    <3>5. k \in Nat /\ k <= Len(s)
      BY <1>5, <2>1, <3>1
    <3> HIDE DEF a, b, k
    <3>6. tx'[1 - h] = b /\ tx'[h] = s /\ tx' \in [{0, 1} -> Seq(Datum)]
      BY <1>4, <1>5, <3>2, <3>4
    <3>7. /\ engine'.op = "tx" /\ engine'.half = h /\ engine'.n = k
          /\ engine' \in [op : {"none", "tx", "rx"}, half : {0, 1}, n : Nat]
      BY <1>4, <3>4, <3>5
    <3>8. StreamTypes'
      BY <1>2, <3>4, <3>6, <3>7 DEF SInv, StreamTypes
    <3>9. TxShape'
      <4>1. engine'.half = 1 - dma_txOffset' /\ engine'.n <= Len(tx'[engine'.half])
        BY <1>4, <2>3, <3>5, <3>6, <3>7
      <4>2. QED
        BY <3>4, <3>7, <4>1 DEF TxShape
    <3>10. RxShape'
      BY <1>2, <1>3, <3>4, <3>7 DEF SInv, RxShape
    <3>11. Outgoing' = Outgoing
      <4> DEFINE x == log.arrived
      <4>1. InFlight' = SubSeq(s, 1, k)
        BY <3>6, <3>7 DEF InFlight
      <4>2. Outgoing' = (x \o a) \o b
        BY <2>3, <3>4, <3>6, <4>1 DEF Outgoing, a
      <4>3. x \in Seq(Datum)
        BY <1>5
      <4> HIDE DEF x
      <4>4. x \o <<>> = x /\ (x \o a) \o b = x \o (a \o b)
        BY <3>2, <4>3, NothingMore, Associative
      <4>5. QED
        BY <1>6, <3>2, <4>2, <4>4 DEF x
    <3>12. QED
      BY <1>1, <1>2, <1>7, <3>4, <3>8, <3>9, <3>10, <3>11, FlowsSame DEF SInv
  <2>8. QED
    BY <2>6, <2>7
<1>10. QED
  BY <1>8, <1>9

-----------------------------------------------------------------------------
(***************************************************************************)
(* The steps that take a packet from the board and that bring one.         *)
(***************************************************************************)
\* What the filter does next is the next packet of those to come.
LEMMA NextIs ==
  ASSUME DInv, SInv, filter.at = "run", filter.todo > 0, NEW u \in Seq(Packet),
         Incoming = Flat(u)
  PROVE  /\ 1 <= Len(u)
         /\ \E v \in Seq(Packet), x \in Senders, q \in Nat :
              /\ u[1] = <<x, q + 1>> /\ u = Run(x, q, 1) \o v
              /\ Next1 = Flat(Run(x, q, 1)) /\ Next1[1][1] = x /\ Len(Next1) = PACKET
              /\ SubSeq(Received, (filter.done + PACKET) + 1, Len(Received)) \o mopQueue = Flat(v)
<1> DEFINE R == Received
           d == filter.done
           r == SubSeq(R, d + 1, Len(R))
           c == SubSeq(r, 1, PACKET)
           e == SubSeq(r, PACKET + 1, Len(r))
           m == mopQueue
<1>1. PACKET \in Nat /\ PACKET > 0 /\ 1 \in 1 .. PACKET
  BY DmaAssumption
<1>2. /\ R \in Seq(Datum) /\ d \in 0 .. Len(R) /\ Len(R) \in Nat /\ m \in Seq(Datum)
      /\ PACKET \in 0 .. Len(R) - d
  <2>1. /\ R \in Seq(Datum) /\ Len(R) = dma_rxSize /\ dma_rxSize \in Nat
        /\ d \in 0 .. dma_rxSize /\ filter.todo \in Nat
        /\ d + filter.todo * PACKET <= dma_rxSize
    BY ReceivedIs
  <2>2. PACKET <= filter.todo * PACKET /\ filter.todo * PACKET \in Nat
    <3>1. \A i, j \in Nat : i > 0 => j <= i * j /\ i * j \in Nat
      OBVIOUS
    <3>2. QED
      BY <1>1, <2>1, <3>1
  <2> DEFINE y == filter.todo * PACKET
  <2>3. y \in Nat /\ PACKET <= y /\ d + y <= dma_rxSize
    BY <2>1, <2>2
  <2> HIDE DEF y, R, d
  <2>4. PACKET \in 0 .. dma_rxSize - d
    BY <1>1, <2>1, <2>3
  <2>5. m \in Seq(Datum)
    BY DEF SInv, StreamTypes
  <2>6. QED
    BY <2>1, <2>4, <2>5
<1>3. Incoming = r \o m
  BY DEF Incoming
<1> HIDE DEF R, d
<1>4. /\ r \in Seq(Datum) /\ Len(r) = Len(R) - d
      /\ e = SubSeq(R, (d + PACKET) + 1, Len(R))
  BY <1>2, SubSub
<1> HIDE DEF r
<1>5. PACKET \in 0 .. Len(r) /\ Len(r) \in Nat
  BY <1>2, <1>4
<1>6. r = c \o e /\ c \in Seq(Datum) /\ e \in Seq(Datum) /\ Len(c) = PACKET
  <2>1. r = c \o e
    BY <1>4, <1>5, SplitAt
  <2>2. c \in Seq(Datum) /\ e \in Seq(Datum) /\ Len(c) = PACKET
    BY <1>1, <1>4, <1>5
  <2>3. QED
    BY <2>1, <2>2
<1>7. Next1 = c
  BY <1>4, <1>5, MemoryIs DEF Next1, r, R, d
<1> HIDE DEF c, e
<1>8. c \o (e \o m) = Flat(u) /\ e \o m \in Seq(Datum)
  <2> DEFINE w == m
  <2>1. w \in Seq(Datum) /\ Incoming = r \o w
    BY <1>2, <1>3
  <2> HIDE DEF w
  <2>2. (c \o e) \o w = c \o (e \o w) /\ e \o w \in Seq(Datum)
    BY <1>6, <2>1, Associative, CatIs
  <2>3. QED
    BY <1>6, <2>1, <2>2 DEF w
<1> HIDE DEF m
<1>9. 1 <= Len(u) /\ Len(u) \in Nat
  <2>1. Len(c \o (e \o m)) = PACKET + Len(e \o m) /\ Len(e \o m) \in Nat
    BY <1>6, <1>8, CatIs
  <2>2. Len(Flat(u)) = Len(u) * PACKET /\ Len(u) \in Nat
    BY FlatIs
  <2>3. Len(u) * PACKET >= PACKET
    BY <1>1, <1>8, <2>1, <2>2
  <2>4. Len(u) # 0
    BY <1>1, <2>2, <2>3
  <2>5. QED
    BY <2>2, <2>4
<1>10. PICK x \in Senders, q \in Nat : u[1] = <<x, q + 1>>
  <2>1. u[1] \in Packet
    BY <1>9
  <2>2. PICK x \in Senders, n \in Nat \ {0} : u[1] = <<x, n>>
    BY <2>1 DEF Packet
  <2>3. n - 1 \in Nat /\ (n - 1) + 1 = n
    OBVIOUS
  <2>4. QED
    BY <2>2, <2>3
<1> DEFINE a == Run(x, q, 1)
           v == SubSeq(u, 1 + 1, Len(u))
<1>11. a \in Seq(Packet) /\ Len(a) = 1 /\ a[1] = <<x, q + 1>>
  <2>1. 1 \in Nat /\ 1 \in 1 .. 1
    OBVIOUS
  <2>2. /\ Run(x, q, 1) \in Seq(Packet) /\ Len(Run(x, q, 1)) = 1
        /\ \A k \in 1 .. 1 : Run(x, q, 1)[k] = <<x, q + k>>
    BY <2>1, RunIs
  <2>3. QED
    BY <2>1, <2>2
<1>12. u = SubSeq(u, 1, 1) \o v /\ v \in Seq(Packet)
  <2>1. 1 \in 0 .. Len(u)
    BY <1>9
  <2>2. v \in Seq(Packet)
    BY <1>9
  <2>3. QED
    BY <2>1, <2>2, SplitAt
<1> HIDE DEF a, v
<1>13. SubSeq(u, 1, 1) = a
  <2> DEFINE b == SubSeq(u, 1, 1)
  <2>1. b \in Seq(Packet) /\ Len(b) = 1 /\ b[1] = u[1]
    BY <1>9
  <2> HIDE DEF b
  <2>2. \A i \in 1 .. Len(b) : b[i] = a[i]
    BY <1>10, <1>11, <2>1
  <2>3. b = a
    BY <1>11, <2>1, <2>2, SameSeq
  <2>4. QED
    BY <2>3 DEF b
<1>14. Flat(u) = Flat(a) \o Flat(v)
  BY <1>11, <1>12, <1>13, FlatCat
<1>15. Flat(a) \in Seq(Datum) /\ Len(Flat(a)) = PACKET /\ Flat(v) \in Seq(Datum)
       /\ Flat(a)[1] = <<x, q + 1, 1>>
  <2>1. Len(Flat(a)) = 1 * PACKET /\ Flat(a) \in Seq(Datum) /\ Flat(v) \in Seq(Datum)
    BY <1>11, <1>12, FlatIs
  <2>2. 0 \in 0 .. Len(a) - 1
    BY <1>11
  <2>3. Flat(a)[0 * PACKET + 1] = <<a[0 + 1][1], a[0 + 1][2], 1>>
    BY <1>1, <1>11, <2>2, FlatIs
  <2>4. 0 * PACKET + 1 = 1 /\ 1 * PACKET = PACKET /\ 0 + 1 = 1
    BY <1>1
  <2>5. QED
    BY <1>11, <2>1, <2>3, <2>4
<1>16. c = Flat(a) /\ e \o m = Flat(v)
  <2> DEFINE y == Flat(a)
             z == Flat(v)
             w == e \o m
  <2>1. /\ y \in Seq(Datum) /\ z \in Seq(Datum) /\ w \in Seq(Datum) /\ c \in Seq(Datum)
        /\ Len(c) = Len(y) /\ c \o w = y \o z
    BY <1>6, <1>8, <1>14, <1>15
  <2> HIDE DEF y, z, w
  <2>2. c = y /\ w = z
    BY <2>1, Cancel
  <2>3. QED
    BY <2>2 DEF y, z, w
<1>17. /\ Next1 = Flat(Run(x, q, 1)) /\ Next1[1][1] = x /\ Len(Next1) = PACKET
       /\ u = Run(x, q, 1) \o v
  <2>1. Next1 = Flat(a) /\ Len(Next1) = PACKET /\ u = a \o v
    BY <1>6, <1>7, <1>12, <1>13, <1>16
  <2>2. Next1[1] = <<x, q + 1, 1>>
    BY <1>15, <2>1
  <2>3. Next1[1][1] = x
    BY <2>2
  <2>4. QED
    BY <2>1, <2>3 DEF a
<1>18. SubSeq(Received, (filter.done + PACKET) + 1, Len(Received)) \o mopQueue = Flat(v)
  BY <1>4, <1>16 DEF R, d, m
<1>19. QED
  BY <1>9, <1>10, <1>12, <1>17, <1>18

\* The shapes after a packet was passed on.
LEMMA PassedShape ==
  ASSUME DInv, SInv, filter.at = "run", filter.todo > 0,
         filter'.at \in {"run", "stored"}, filter'.todo = Passed.todo, filter'.done = Passed.done,
         UNCHANGED <<tx, dma_txOffset, frag, fresh, mopQueue, engine, dma_rxSize, dma_doFilter,
                     dma_state>>
  PROVE  /\ TxShape' /\ RxShape' /\ filter'.todo \in Nat /\ filter'.done \in Nat
         /\ filter'.done = filter.done + PACKET
<1>1. /\ Passed.todo = filter.todo - 1 /\ Passed.done = filter.done + PACKET
      /\ Passed.todo * PACKET = filter.todo * PACKET - PACKET
  BY PassedIs
<1>2. /\ filter.todo \in Nat /\ filter.done \in Nat /\ PACKET \in Nat /\ dma_rxSize \in Nat
      /\ filter.done + filter.todo * PACKET <= dma_rxSize
  BY ReceivedIs, DmaAssumption
<1>3. filter'.todo \in Nat /\ filter'.done \in Nat /\ filter'.done = filter.done + PACKET
  BY <1>1, <1>2
<1>4. filter'.done + filter'.todo * PACKET <= dma_rxSize
  <2> DEFINE y == filter.todo * PACKET
             z == Passed.todo * PACKET
  <2>1. y \in Int /\ z = y - PACKET /\ filter.done + y <= dma_rxSize
    BY <1>1, <1>2
  <2> HIDE DEF y, z
  <2>2. (filter.done + PACKET) + z <= dma_rxSize
    BY <1>2, <2>1
  <2>3. QED
    BY <1>1, <2>2 DEF z
<1>5. TxShape'
  BY DEF SInv, TxShape
<1>6. RxShape'
  BY <1>4 DEF SInv, RxShape
<1>7. QED
  BY <1>3, <1>5, <1>6

\* The packet moves from those to come to those that the filter has had.
LEMMA UnfilteredNext ==
  ASSUME NEW p \in Seq(Packet), NEW u \in Seq(Packet), NEW v \in Seq(Packet),
         NEW x \in Senders, NEW q \in Nat, Unfiltered(p, u), u = Run(x, q, 1) \o v,
         Incoming' = Flat(v), sent' = sent
  PROVE  Unfiltered(p \o Run(x, q, 1), v)'
<1> DEFINE a == Run(x, q, 1)
<1>1. a \in Seq(Packet) /\ u = a \o v
  <2>1. 1 \in Nat
    OBVIOUS
  <2>2. QED
    BY <2>1, RunIs
<1>2. Unfiltered(p \o a, v)'
  <2> HIDE DEF a
  <2>1. (p \o a) \o v = p \o u
    <3>1. (p \o a) \o v = p \o (a \o v)
      BY <1>1
    <3>2. QED
      BY <1>1, <3>1
  <2>2. QED
    BY <2>1 DEF Unfiltered
<1>3. QED
  BY <1>2

LEMMA SFilterNetStep == ASSUME DInv, SInv, FilterNet PROVE SInv'
<1>1. MipKept /\ MopKept
  BY MipSame, MopSame DEF FilterNet, rings
<1>2. /\ UNCHANGED <<tx, dma_txOffset, frag, fresh, mopQueue, engine, dma_rxSize, dma_doFilter,
                     dma_state>>
      /\ net_fifo' = net_fifo /\ sent' = sent
  BY DEF FilterNet, daemon, board
<1>3. /\ filter.at = "run" /\ filter.todo > 0 /\ Next1[1][1] = "frame" /\ filter' = Passed
      /\ log' = [log EXCEPT !.handled = @ \o Next1]
  BY DEF FilterNet
<1>4. /\ TxShape' /\ RxShape' /\ filter'.todo \in Nat /\ filter'.done \in Nat
      /\ filter'.done = filter.done + PACKET
  BY <1>2, <1>3, PassedIs, PassedShape
<1>5. log' = [arrived |-> log.arrived, got |-> log.got, handled |-> log.handled \o Next1,
              lost |-> log.lost]
  BY <1>3 DEF SInv, StreamTypes
<1>6. Outgoing' = Outgoing
  BY <1>2, <1>5, OutgoingSame
<1>7. TxFlow'
  BY <1>1, <1>2, <1>5, <1>6, TxSame DEF SInv
<1>8. PICK p, u, g, h \in Seq(Packet), a, b, f \in Nat :
         Unfiltered(p, u) /\ Answers(p, g, a, b) /\ Frames(p, h, f)
  BY DEF SInv, RxFlow
<1>9. Incoming = Flat(u)
  BY <1>8 DEF Unfiltered
<1>10. 1 <= Len(u)
  BY <1>3, <1>9, NextIs
<1>11. PICK v \in Seq(Packet), x \in Senders, q \in Nat :
         /\ u[1] = <<x, q + 1>> /\ u = Run(x, q, 1) \o v
         /\ Next1 = Flat(Run(x, q, 1)) /\ Next1[1][1] = x /\ Len(Next1) = PACKET
         /\ SubSeq(Received, (filter.done + PACKET) + 1, Len(Received)) \o mopQueue = Flat(v)
  BY <1>3, <1>9, NextIs
<1>12. x = "frame" /\ u[1][1] = x
  <2>1. x = "frame" /\ u[1] = <<x, q + 1>>
    BY <1>3, <1>11
  <2>2. QED
    BY <2>1
<1>13. q = f
  <2>1. InOrder(p \o u, {"answer", "frame"}, {}) /\ Reaches(p, x, f, {})
    BY <1>8, <1>12 DEF Unfiltered, Frames
  <2>2. u[1] = <<x, f + 1>>
    BY <1>10, <1>12, <2>1, NextNumber
  <2>3. u[1] = <<x, q + 1>>
    BY <1>11
  <2>4. q + 1 = f + 1
    BY <2>2, <2>3
  <2>5. QED
    BY <2>4
<1>14. Incoming' = Flat(v)
  BY <1>2, <1>4, <1>11 DEF Incoming, Received
<1> DEFINE c == Run(x, q, 1)
<1>15. PICK p2, h2 \in Seq(Packet) : p2 = p \o c /\ h2 = h \o c
  <2>1. c \in Seq(Packet)
    BY RunIs
  <2> HIDE DEF c
  <2>2. p \o c \in Seq(Packet) /\ h \o c \in Seq(Packet)
    BY <2>1, CatIs
  <2>3. QED
    BY <2>2
<1>16. Unfiltered(p2, v)'
  BY <1>2, <1>8, <1>11, <1>14, <1>15, UnfilteredNext
<1>17. Answers(p2, g, a, b)'
  <2>1. Answers(p, g, a, b)'
    BY <1>1, <1>5, <1>8, AnswersSame
  <2>2. Reaches(p, "answer", a + b, {})
    BY <1>8 DEF Answers
  <2>3. Reaches(p2, "answer", a + b, {})
    <3>1. "answer" # x /\ 1 \in Nat
      BY <1>12
    <3> DEFINE k == a + b
    <3>2. Reaches(p, "answer", k, {})
      BY <2>2
    <3> HIDE DEF k
    <3>3. Reaches(p2, "answer", k, {})
      BY <1>15, <3>1, <3>2, ReachesOther
    <3>4. QED
      BY <3>3 DEF k
  <2>4. QED
    BY <2>1, <2>3 DEF Answers
<1>18. PICK f2 \in Nat : f2 = f + 1
  OBVIOUS
<1>19. Frames(p2, h2, f2)'
  <2>1. /\ log.handled = Flat(h) /\ InOrder(h, {"frame"}, log.lost)
        /\ Reaches(h, x, q, log.lost) /\ Reaches(p, x, q, {}) /\ x \in {"frame"} /\ 1 \in Nat
    BY <1>8, <1>12, <1>13 DEF Frames
  <2>2. InOrder(h2, {"frame"}, log.lost)
    BY <1>15, <2>1, InOrderRun
  <2>3. Reaches(h2, x, f2, log.lost)
    BY <1>13, <1>15, <1>18, <2>1, ReachesRun
  <2>4. Reaches(p2, x, f2, {})
    BY <1>13, <1>15, <1>18, <2>1, ReachesRun
  <2>5. log'.handled = Flat(h2)
    <3>1. c \in Seq(Packet)
      BY RunIs
    <3>2. Next1 = Flat(c)
      BY <1>11
    <3> HIDE DEF c
    <3>3. Flat(h2) = Flat(h) \o Flat(c)
      BY <1>15, <3>1, FlatCat
    <3>4. QED
      BY <1>5, <2>1, <3>2, <3>3
  <2>6. log'.lost = log.lost
    BY <1>5
  <2>7. QED
    BY <1>12, <2>2, <2>3, <2>4, <2>5, <2>6 DEF Frames
<1>20. RxFlow'
  BY <1>16, <1>17, <1>19 DEF RxFlow
<1>21. StreamTypes'
  <2>1. log'.handled \in Seq(Datum)
    BY <1>19, FlatIs DEF Frames
  <2>2. QED
    BY <1>2, <1>4, <1>5, <2>1 DEF SInv, StreamTypes
<1>22. QED
  BY <1>4, <1>7, <1>20, <1>21 DEF SInv

LEMMA SenderOfNext ==
  ASSUME NEW p \in Seq(Packet), NEW u \in Seq(Packet), NEW X, NEW lost,
         InOrder(p \o u, X, lost), 1 <= Len(u)
  PROVE  u[1][1] \in X
<1> DEFINE a == p \o u
           j == Len(p) + 1
<1>1. /\ Len(p) \in Nat /\ Len(u) \in Nat /\ Len(a) = Len(p) + Len(u)
      /\ \A i \in 1 .. Len(u) : a[Len(p) + i] = u[i]
  BY CatIs
<1>2. InOrder(a, X, lost)
  OBVIOUS
<1> HIDE DEF a
<1>3. j \in 1 .. Len(a) /\ a[j] = u[1]
  <2>1. 1 \in 1 .. Len(u)
    BY <1>1
  <2>2. QED
    BY <1>1, <2>1
<1> HIDE DEF j
<1>4. a[j][1] \in X
  BY <1>2, <1>3 DEF InOrder
<1>5. QED
  BY <1>3, <1>4

\* The room that the filter counts on is there.
LEMMA RoomForNext ==
  ASSUME DInv, SInv, filter.at = "run", filter.todo > 0
  PROVE  PACKET <= BUFFER - mop.level /\ move["store"] = Idle
<1>1. move["store"].n = 0 /\ move["store"] = Idle
  BY Numbers, IdleWhenNone DEF DInv, MoversInv
<1>2. /\ filter.todo \in Nat /\ PACKET \in Nat /\ BUFFER \in Nat /\ mop.level \in Int
  BY ReceivedIs, Numbers
<1>3. PACKET <= filter.todo * PACKET /\ filter.todo * PACKET \in Nat
  <2>1. \A i, j \in Nat : i > 0 => j <= i * j /\ i * j \in Nat
    OBVIOUS
  <2>2. QED
    BY <1>2, <2>1
<1>4. filter.todo * PACKET + 0 <= BUFFER - mop.level
  BY <1>1 DEF DInv, FilterInv
<1> DEFINE y == filter.todo * PACKET
<1>5. y \in Nat /\ PACKET <= y /\ y + 0 <= BUFFER - mop.level
  BY <1>3, <1>4
<1> HIDE DEF y
<1>6. QED
  BY <1>1, <1>2, <1>5

LEMMA SFilterStoreStep == ASSUME DInv, SInv, FilterStore PROVE SInv'
<1>1. /\ filter.at = "run" /\ filter.todo > 0 /\ Next1[1][1] # "frame"
      /\ filter' = [Passed EXCEPT !.at = "stored"] /\ mop' = WriteCopied(mop, Next1, PACKET)
  BY DEF FilterStore
<1>2. /\ UNCHANGED <<tx, dma_txOffset, frag, fresh, mopQueue, engine, dma_rxSize, dma_doFilter,
                     dma_state>>
      /\ net_fifo' = net_fifo /\ sent' = sent /\ log' = log /\ mip' = mip
  BY DEF FilterStore, daemon, board
<1>3. /\ move["store"] = Idle /\ move'["store"] = Transfer(mop.write, PACKET)
      /\ \A t \in {"write", "read", "fetch"} : move'[t] = move[t]
  BY <1>1, RoomForNext DEF DInv, MoversInv, FilterStore
<1>4. filter'.at = "stored" /\ filter'.todo = Passed.todo /\ filter'.done = Passed.done
  BY <1>1, PassedIs
<1>5. /\ TxShape' /\ RxShape' /\ filter'.todo \in Nat /\ filter'.done \in Nat
      /\ filter'.done = filter.done + PACKET
  BY <1>1, <1>2, <1>4, PassedShape
<1>6. Outgoing' = Outgoing
  BY <1>2, OutgoingSame
<1>7. MipKept
  BY <1>2, <1>3, MipSame
<1>8. TxFlow'
  BY <1>2, <1>6, <1>7, TxSame DEF SInv
<1>9. StreamTypes'
  BY <1>2, <1>5 DEF SInv, StreamTypes
<1>10. PICK p, u, g, h \in Seq(Packet), a, b, f \in Nat :
         Unfiltered(p, u) /\ Answers(p, g, a, b) /\ Frames(p, h, f)
  BY DEF SInv, RxFlow
<1>11. Incoming = Flat(u)
  BY <1>10 DEF Unfiltered
<1>12. 1 <= Len(u)
  BY <1>1, <1>11, NextIs
<1>13. PICK v \in Seq(Packet), x \in Senders, q \in Nat :
         /\ u[1] = <<x, q + 1>> /\ u = Run(x, q, 1) \o v
         /\ Next1 = Flat(Run(x, q, 1)) /\ Next1[1][1] = x /\ Len(Next1) = PACKET
         /\ SubSeq(Received, (filter.done + PACKET) + 1, Len(Received)) \o mopQueue = Flat(v)
  BY <1>1, <1>11, NextIs
<1>14. x = "answer" /\ u[1][1] = x
  <2>1. x # "frame" /\ u[1] = <<x, q + 1>>
    BY <1>1, <1>13
  <2>2. u[1][1] \in {"answer", "frame"}
    <3>1. InOrder(p \o u, {"answer", "frame"}, {})
      BY <1>10 DEF Unfiltered
    <3>2. QED
      BY <1>12, <3>1, SenderOfNext
  <2>3. u[1][1] = x
    BY <2>1
  <2>4. QED
    BY <2>1, <2>2, <2>3
<1>15. PICK k \in Nat : k = a + b
  OBVIOUS
<1>16. q = k
  <2>1. InOrder(p \o u, {"answer", "frame"}, {}) /\ Reaches(p, x, k, {})
    BY <1>10, <1>14, <1>15 DEF Unfiltered, Answers
  <2>2. u[1] = <<x, k + 1>>
    BY <1>12, <1>14, <2>1, NextNumber
  <2>3. u[1] = <<x, q + 1>>
    BY <1>13
  <2>4. q + 1 = k + 1
    BY <2>2, <2>3
  <2>5. QED
    BY <2>4
<1>17. Incoming' = Flat(v)
  BY <1>2, <1>5, <1>13 DEF Incoming, Received
<1> DEFINE c == Run(x, q, 1)
<1>18. c \in Seq(Packet) /\ 1 \in Nat
  <2>1. 1 \in Nat
    OBVIOUS
  <2>2. QED
    BY <2>1, RunIs
<1>19. PICK p2 \in Seq(Packet) : p2 = p \o c
  <2> HIDE DEF c
  <2>1. p \o c \in Seq(Packet)
    BY <1>18, CatIs
  <2>2. QED
    BY <2>1
<1>20. Unfiltered(p2, v)'
  BY <1>2, <1>10, <1>13, <1>17, <1>19, UnfilteredNext
<1>21. Frames(p2, h, f)'
  <2>1. Frames(p, h, f)'
    BY <1>2, <1>10, FramesSame
  <2>2. Reaches(p, "frame", f, {}) /\ "frame" # x
    BY <1>10, <1>14 DEF Frames
  <2>3. Reaches(p2, "frame", f, {})
    BY <1>18, <1>19, <2>2, ReachesOther
  <2>4. QED
    BY <2>1, <2>3 DEF Frames
<1>22. PICK b2 \in Nat, k2 \in Nat : b2 = b + 1 /\ k2 = k + 1
  <2>1. b + 1 \in Nat /\ k + 1 \in Nat
    OBVIOUS
  <2>2. QED
    BY <2>1
<1>23. Holds(mop', move'["store"], move'["read"], Flat(Run("answer", a, b2)))
  <2> DEFINE s == Flat(Run("answer", a, b))
             w == Flat(c)
  <2>1. s \in Seq(Datum) /\ w \in Seq(Datum) /\ Next1 = w /\ Len(w) = PACKET
    <3>1. s \in Seq(Datum)
      BY FlatRunIs, SendersAre
    <3>2. Next1 = w /\ Len(Next1) = PACKET
      BY <1>13
    <3> HIDE DEF c
    <3>3. w \in Seq(Datum)
      BY <1>18, FlatIs
    <3>4. QED
      BY <3>1, <3>2, <3>3
  <2>2. Ring(mop, Idle, move["read"]) /\ Holds(mop, Idle, move["read"], s)
    BY <1>3, <1>10 DEF DInv, RingsInv, Answers
  <2>3. PACKET \in Nat /\ PACKET <= BUFFER - mop.level
    BY <1>1, RoomForNext, DmaAssumption
  <2>4. Joined(Flat(Run(x, a, b2)), Flat(Run(x, a, b)), Flat(Run(x, k, 1)))
    BY <1>15, <1>18, <1>22, FlatRunJoin
  <2>5. Flat(Run("answer", a, b2)) = s \o w
    BY <1>14, <1>16, <2>4 DEF Joined
  <2> HIDE DEF s, w
  <2>6. Holds(WriteCopied(mop, w, PACKET), Transfer(mop.write, PACKET), move["read"], s \o w)
    BY <2>1, <2>2, <2>3, HoldsWrite
  <2>7. QED
    BY <1>1, <1>3, <2>1, <2>5, <2>6
<1>24. Answers(p2, g, a, b2)'
  <2>1. Reaches(p2, "answer", a + b2, {})
    <3>1. Reaches(p, x, q, {})
      BY <1>10, <1>14, <1>15, <1>16 DEF Answers
    <3>2. Reaches(p2, x, q + 1, {})
      BY <1>18, <1>19, <3>1, ReachesRun
    <3>3. q + 1 = a + b2
      BY <1>15, <1>16, <1>22
    <3>4. QED
      BY <1>14, <3>2, <3>3
  <2>2. log.got = Flat(g) /\ InOrder(g, {"answer"}, log.lost) /\ Reaches(g, "answer", a, log.lost)
    BY <1>10 DEF Answers
  <2>3. QED
    BY <1>2, <1>23, <2>1, <2>2 DEF Answers
<1>25. RxFlow'
  BY <1>20, <1>21, <1>24 DEF RxFlow
<1>26. QED
  BY <1>5, <1>8, <1>9, <1>25 DEF SInv

LEMMA SBoardSendsStep ==
  ASSUME DInv, SInv, NEW s \in {"answer", "frame"}, BoardSends(s)
  PROVE  SInv'
<1>1. MipKept /\ MopKept
  BY MipSame, MopSame DEF BoardSends, rings
<1>2. /\ UNCHANGED <<tx, dma_txOffset, frag, fresh, engine, dma_rxSize, dma_doFilter, dma_state,
                     filter>>
      /\ net_fifo' = net_fifo /\ log' = log /\ mopQueue' = mopQueue \o Units(s, 1)
  BY DEF BoardSends, daemon, rx
<1>3. s \in Senders /\ s \in Senders \cup {"open"} /\ 1 \in Nat
  BY DEF Senders
<1>4. /\ sent' \in [Senders \cup {"open"} -> Nat] /\ sent'[s] = sent[s] + 1
      /\ sent[s] \in Nat
      /\ \A y \in Senders \cup {"open"} : y # s => sent'[y] = sent[y]
  <2>1. Sends(s, 1)
    BY DEF BoardSends
  <2>2. QED
    BY <1>3, <2>1, SentIs DEF SInv
<1>5. PICK q \in Nat : q = sent[s]
  BY <1>4
<1> DEFINE c == Run(s, q, 1)
           w == Flat(c)
<1>6. c \in Seq(Packet) /\ w \in Seq(Datum) /\ Units(s, 1) = w
  <2>1. c \in Seq(Packet) /\ w \in Seq(Datum)
    BY <1>3, FlatRunIs
  <2>2. Units(s, 1) = Flat(Run(s, sent[s], 1))
    BY <1>3, <1>4, UnitsAre
  <2>3. QED
    BY <1>5, <2>1, <2>2
<1>7. mopQueue \in Seq(Datum) /\ frag \in Seq(Datum) /\ fresh \in Seq(Datum)
  BY DEF SInv, StreamTypes
<1> HIDE DEF w
<1>8. /\ mopQueue' = mopQueue \o w /\ mopQueue' \in Seq(Datum)
      /\ Len(mopQueue) \in Nat /\ Len(mopQueue') \in Nat /\ Len(mopQueue) <= Len(mopQueue')
  <2>1. /\ mopQueue \o w \in Seq(Datum) /\ Len(mopQueue \o w) = Len(mopQueue) + Len(w)
        /\ Len(w) \in Nat /\ Len(mopQueue) \in Nat
    BY <1>6, <1>7, CatIs
  <2>2. QED
    BY <1>2, <1>6, <2>1
<1>9. StreamTypes'
  BY <1>2, <1>4, <1>8 DEF SInv, StreamTypes
<1>10. TxShape'
  BY <1>2 DEF SInv, TxShape
<1>11. RxShape'
  <2>1. engine.n \in Nat /\ (engine.n <= Len(mopQueue) => engine.n <= Len(mopQueue'))
    BY <1>8 DEF SInv, StreamTypes
  <2>2. QED
    BY <1>2, <2>1 DEF SInv, RxShape
<1>12. Outgoing' = Outgoing
  BY <1>2, OutgoingSame
<1>13. TxFlow'
  <2>1. sent'["net"] = sent["net"] /\ sent'["program"] = sent["program"]
    <3>1. /\ "net" \in Senders \cup {"open"} /\ "program" \in Senders \cup {"open"}
          /\ "net" # s /\ "program" # s
      BY DEF Senders
    <3>2. QED
      BY <1>4, <3>1
  <2>2. QED
    BY <1>1, <1>2, <1>12, <2>1, TxSame DEF SInv
<1>14. PICK p, u, g, h \in Seq(Packet), a, b, f \in Nat :
         Unfiltered(p, u) /\ Answers(p, g, a, b) /\ Frames(p, h, f)
  BY DEF SInv, RxFlow
<1>15. Answers(p, g, a, b)' /\ Frames(p, h, f)'
  BY <1>1, <1>2, <1>14, AnswersSame, FramesSame
<1>16. PICK u2 \in Seq(Packet), o \in Seq(Packet) : u2 = u \o c /\ o = p \o u
  <2> HIDE DEF c
  <2>1. u \o c \in Seq(Packet) /\ p \o u \in Seq(Packet)
    BY <1>6, CatIs
  <2>2. QED
    BY <2>1
<1>17. p \o u2 = o \o c
  <2> HIDE DEF c
  <2>1. c \in Seq(Packet)
    BY <1>6
  <2>2. Grouped(p, u, c)
    BY <2>1, AlwaysGrouped
  <2>3. (p \o u) \o c = p \o (u \o c)
    BY <2>2 DEF Grouped
  <2>4. QED
    BY <1>16, <2>3
<1>18. /\ InOrder(o, {"answer", "frame"}, {})
       /\ Reaches(o, "answer", sent["answer"], {}) /\ Reaches(o, "frame", sent["frame"], {})
  BY <1>14, <1>16 DEF Unfiltered
<1>19. InOrder(o \o c, {"answer", "frame"}, {}) /\ Reaches(o \o c, s, q + 1, {})
  <2>1. Reaches(o, s, q, {})
    BY <1>5, <1>18
  <2>2. QED
    BY <1>3, <1>18, <2>1, InOrderRun, ReachesRun
<1>20. Reaches(o \o c, "answer", sent'["answer"], {}) /\ Reaches(o \o c, "frame", sent'["frame"], {})
  <2>1. ASSUME NEW y \in {"answer", "frame"} PROVE Reaches(o \o c, y, sent'[y], {})
    <3>1. CASE y = s
      BY <1>4, <1>5, <1>19, <3>1
    <3>2. CASE y # s
      <4>1. Reaches(o, y, sent[y], {}) /\ y \in Senders \cup {"open"}
        BY <1>18 DEF Senders
      <4>2. PICK n : n = sent[y]
        OBVIOUS
      <4>3. Reaches(o \o c, y, n, {})
        BY <1>3, <3>2, <4>1, <4>2, ReachesOther
      <4>4. QED
        BY <1>4, <3>2, <4>1, <4>2, <4>3
    <3>3. QED
      BY <3>1, <3>2
  <2>2. QED
    BY <2>1
<1>21. Incoming' = Flat(u2)
  <2> DEFINE r == SubSeq(Received, filter.done + 1, Len(Received))
  <2>1. Incoming = r \o mopQueue /\ Incoming' = r \o mopQueue'
    BY <1>2 DEF Incoming, Received
  <2>2. r \in Seq(Datum)
    <3>1. Received \in Seq(Datum) /\ filter.done \in Nat
      BY <1>7, CatIs DEF Received, SInv, StreamTypes
    <3>2. \A z \in Seq(Datum), n \in Nat : SubSeq(z, n + 1, Len(z)) \in Seq(Datum)
      OBVIOUS
    <3>3. QED
      BY <3>1, <3>2
  <2>3. Flat(u2) = Flat(u) \o w
    <3> HIDE DEF c
    <3>1. Flat(u \o c) = Flat(u) \o Flat(c)
      BY <1>6, FlatCat
    <3>2. QED
      BY <1>16, <3>1 DEF w
  <2>4. Incoming = Flat(u)
    BY <1>14 DEF Unfiltered
  <2> HIDE DEF r
  <2>5. (r \o mopQueue) \o w = r \o (mopQueue \o w)
    <3> DEFINE m == mopQueue
    <3>1. r \in Seq(Datum) /\ m \in Seq(Datum) /\ w \in Seq(Datum)
      BY <1>6, <1>7, <2>2
    <3> HIDE DEF m
    <3>2. Grouped(r, m, w)
      BY <3>1, AlwaysGrouped
    <3>3. (r \o m) \o w = r \o (m \o w)
      BY <3>2 DEF Grouped
    <3>4. QED
      BY <3>3 DEF m
  <2>6. QED
    BY <1>8, <2>1, <2>3, <2>4, <2>5
<1>22. Unfiltered(p, u2)'
  BY <1>17, <1>19, <1>20, <1>21 DEF Unfiltered
<1>23. RxFlow'
  BY <1>15, <1>22 DEF RxFlow
<1>24. QED
  BY <1>9, <1>10, <1>11, <1>13, <1>23 DEF SInv

\* What is taken for the board are whole packets.
LEMMA ToDmaPackets ==
  ASSUME NEW level \in Nat, NEW max \in Nat
  PROVE  \E k \in Nat : ToDma(level, max) = k * PACKET
<1> DEFINE n == Least(level, max)
<1>1. n \in Nat
  BY DEF Least
<1> HIDE DEF n
<1>2. n \div PACKET \in Nat /\ Whole(n) = (n \div PACKET) * PACKET
  BY <1>1, WholeIs
<1>3. QED
  BY <1>2 DEF ToDma, n

LEMMA SPrepareStep == ASSUME DInv, SInv, Prepare PROVE SInv'
<1> DEFINE h == dma_txOffset
           n == ToDma(Len(net_fifo), HALF - Len(tx[h]))
           m == ToDma(mip.level, HALF - Len(tx[h]) - n)
           T == tx[h]
           x == SubSeq(net_fifo, 1, n)
           y == IF m = 0 THEN <<>> ELSE Contents(mip, m)
<1>1. /\ UNCHANGED <<frag, fresh, mopQueue, engine, dma_rxSize, dma_doFilter, dma_state, filter,
                     dma_txOffset>>
      /\ sent' = sent /\ log' = log /\ mop' = mop /\ pc = "prepare"
      /\ tx' = [tx EXCEPT ![h] = (T \o x) \o y]
      /\ net_fifo' = SubSeq(net_fifo, n + 1, Len(net_fifo))
  BY DEF Prepare, rx, board
<1>2. \/ m = 0 /\ mip' = mip /\ move' = move
      \/ /\ m # 0 /\ mip' = ReadCopied(mip, m)
         /\ move' = [move EXCEPT !["fetch"] = Transfer(mip.read, m)]
  BY DEF Prepare
<1>3. /\ h \in {0, 1} /\ tx \in [{0, 1} -> Seq(Datum)] /\ T \in Seq(Datum)
      /\ Len(T) \in Nat /\ Len(T) <= HALF /\ HALF \in Nat /\ mip.level \in Nat
  <2>1. /\ dma_txOffset \in {0, 1} /\ tx \in [{0, 1} -> Seq(Datum)]
        /\ Len(tx[dma_txOffset]) <= HALF
    BY DEF DInv, TxInv, SInv, StreamTypes
  <2>2. BUFFER \in Nat /\ HALF \in Nat /\ mip.level \in 0 .. BUFFER
    BY Numbers
  <2>3. mip.level \in Nat
    BY <2>2
  <2>4. tx[dma_txOffset] \in Seq(Datum)
    BY <2>1
  <2>5. Len(tx[dma_txOffset]) \in Nat
    BY <2>4
  <2> HIDE DEF n, m, x, y
  <2>6. QED
    BY <2>1, <2>2, <2>3, <2>4, <2>5
<1>4. PICK t \in Seq(Packet), a, b, c, d \in Nat :
        Departed(t) /\ FromNet(t, a, b) /\ FromProgram(t, c, d)
  BY DEF SInv, TxFlow
<1>5. PICK X \in Senders, Z \in Senders : X = "net" /\ Z = "program" /\ X # Z
  BY SendersAre
<1>6. /\ net_fifo = Flat(Run(X, a, b)) /\ Len(net_fifo) = b * PACKET /\ b * PACKET \in Nat
      /\ net_fifo \in Seq(Datum)
  <2>1. net_fifo = Flat(Run(X, a, b))
    BY <1>4, <1>5 DEF FromNet
  <2>2. /\ Flat(Run(X, a, b)) \in Seq(Datum) /\ Len(Flat(Run(X, a, b))) = b * PACKET
        /\ b * PACKET \in Nat
    BY FlatRunIs
  <2>3. QED
    BY <2>1, <2>2
<1>7. /\ n \in Nat /\ n <= Len(net_fifo) /\ m \in Nat /\ m <= mip.level
      /\ \E k \in Nat : n = k * PACKET
      /\ \E k \in Nat : m = k * PACKET
  <2> DEFINE l == Len(net_fifo)
             r == HALF - Len(T)
             f == r - n
             v == mip.level
  <2>1. l \in Nat /\ r \in Nat /\ v \in Nat /\ n = ToDma(l, r) /\ m = ToDma(v, f)
    BY <1>3, <1>6
  <2> HIDE DEF l, r, n, m, v
  <2>2. n \in Nat /\ n <= l /\ n <= r /\ \E k \in Nat : n = k * PACKET
    BY <2>1, ToDmaLess, ToDmaPackets
  <2>3. f \in Nat
    BY <2>1, <2>2
  <2> HIDE DEF f
  <2>4. m \in Nat /\ m <= v /\ \E k \in Nat : m = k * PACKET
    BY <2>1, <2>3, ToDmaLess, ToDmaPackets
  <2>5. QED
    BY <2>2, <2>4 DEF l, v
<1>8. PICK k \in Nat, j \in Nat : n = k * PACKET /\ m = j * PACKET
  BY <1>7
<1> HIDE DEF n, m
<1>9. move["fetch"] = Idle
  BY <1>1, Numbers, IdleWhenNone DEF DInv, MoversInv
<1> DEFINE S == Flat(Run(Z, c, d))
<1>10. S \in Seq(Datum) /\ Len(S) = d * PACKET
  BY FlatRunIs
<1>11. Ring(mip, move["write"], Idle) /\ Holds(mip, move["write"], Idle, S)
  BY <1>4, <1>5, <1>9 DEF DInv, RingsInv, FromProgram
<1> HIDE DEF S
<1>12. /\ m <= Len(S) /\ Contents(mip, m) = SubSeq(S, 1, m)
       /\ Holds(ReadCopied(mip, m), move["write"], Transfer(mip.read, m), SubSeq(S, m + 1, Len(S)))
  BY <1>7, <1>10, <1>11, HoldsRead
<1>13. k \in 0 .. b /\ j \in 0 .. d
  <2>1. k * PACKET <= b * PACKET /\ j * PACKET <= d * PACKET
    BY <1>6, <1>7, <1>8, <1>10, <1>12
  <2>2. k <= b /\ j <= d
    BY <2>1, TimesOrder
  <2>3. QED
    BY <2>2
<1>14. PICK a2 \in Nat, b2 \in Nat, c2 \in Nat, d2 \in Nat :
         a2 = a + k /\ b2 = b - k /\ c2 = c + j /\ d2 = d - j
  <2>1. a + k \in Nat /\ b - k \in Nat /\ c + j \in Nat /\ d - j \in Nat
    BY <1>13
  <2>2. QED
    BY <2>1
<1>15. a2 + b2 = a + b /\ c2 + d2 = c + d
  BY <1>13, <1>14
<1> DEFINE q == Run(X, a, k)
           r == Run(Z, c, j)
<1>16. /\ x = Flat(q) /\ net_fifo' = Flat(Run(X, a2, b2))
       /\ q \in Seq(Packet) /\ Flat(q) \in Seq(Datum)
  <2> DEFINE w == Flat(Run(X, a, b))
  <2>1. /\ SubSeq(w, 1, k * PACKET) = Flat(q)
        /\ SubSeq(w, k * PACKET + 1, Len(w)) = Flat(Run(X, a + k, b - k))
    BY <1>13, FlatRunSplit
  <2>2. q \in Seq(Packet) /\ Flat(q) \in Seq(Datum)
    BY FlatRunIs
  <2> HIDE DEF w, q
  <2>3. w = net_fifo
    BY <1>6 DEF w
  <2>4. QED
    BY <1>1, <1>8, <1>14, <2>1, <2>2, <2>3
<1>17. /\ SubSeq(S, 1, m) = Flat(r) /\ SubSeq(S, m + 1, Len(S)) = Flat(Run(Z, c2, d2))
       /\ r \in Seq(Packet) /\ Flat(r) \in Seq(Datum)
  <2>1. /\ SubSeq(S, 1, j * PACKET) = Flat(r)
        /\ SubSeq(S, j * PACKET + 1, Len(S)) = Flat(Run(Z, c + j, d - j))
    BY <1>13, FlatRunSplit DEF S
  <2>2. r \in Seq(Packet) /\ Flat(r) \in Seq(Datum)
    BY FlatRunIs
  <2> HIDE DEF r
  <2>3. QED
    BY <1>8, <1>14, <2>1, <2>2
<1>18. m = 0 => j = 0
  <2>1. PACKET \in Nat /\ PACKET > 0
    BY DmaAssumption
  <2>2. j # 0 => j * PACKET > 0
    BY <2>1
  <2>3. QED
    BY <1>8, <2>2
<1>19. y = Flat(r)
  <2>1. CASE m # 0
    BY <1>12, <1>17, <2>1
  <2>2. CASE m = 0
    <3>1. j = 0
      BY <1>18, <2>2
    <3>2. Run(Z, c, 0) = <<>> /\ Flat(<<>>) = <<>>
      BY RunNothing, FlatNothing
    <3>3. QED
      BY <2>2, <3>1, <3>2
  <2>3. QED
    BY <2>1, <2>2
<1> HIDE DEF x, y
<1>20. \A i \in {"write", "read", "store"} : move'[i] = move[i]
  BY <1>2 DEF DInv, MoversInv
<1>21. Holds(mip', move'["write"], move'["fetch"], Flat(Run(Z, c2, d2)))
  <2>1. CASE m # 0
    <3>1. move'["fetch"] = Transfer(mip.read, m) /\ mip' = ReadCopied(mip, m)
      BY <1>2, <2>1 DEF DInv, MoversInv
    <3>2. QED
      BY <1>12, <1>17, <1>20, <3>1
  <2>2. CASE m = 0
    <3>1. c2 = c /\ d2 = d /\ mip' = mip /\ move' = move
      BY <1>2, <1>14, <1>18, <2>2
    <3>2. QED
      BY <1>9, <1>11, <3>1 DEF S
  <2>3. QED
    BY <2>1, <2>2
<1>22. PICK t1 \in Seq(Packet) : t1 = t \o q
  <2> HIDE DEF q
  <2> QED BY <1>16, CatIs
<1>23. PICK t2 \in Seq(Packet) : t2 = t1 \o r
  <2> HIDE DEF r
  <2> QED BY <1>17, CatIs
<1>24. /\ InOrder(t1, {"program", "net"}, log.lost)
       /\ Reaches(t1, X, a2, log.lost) /\ Reaches(t1, Z, c, log.lost)
  <2>1. /\ InOrder(t, {"program", "net"}, log.lost) /\ Reaches(t, X, a, log.lost)
        /\ Reaches(t, Z, c, log.lost) /\ X \in {"program", "net"}
    BY <1>4, <1>5 DEF Departed, FromNet, FromProgram
  <2>2. InOrder(t1, {"program", "net"}, log.lost)
    BY <1>22, <2>1, InOrderRun
  <2>3. Reaches(t1, X, a2, log.lost)
    BY <1>14, <1>22, <2>1, ReachesRun
  <2>4. Reaches(t1, Z, c, log.lost)
    BY <1>5, <1>22, <2>1, ReachesOther
  <2>5. QED
    BY <2>2, <2>3, <2>4
<1>25. /\ InOrder(t2, {"program", "net"}, log.lost)
       /\ Reaches(t2, X, a2, log.lost) /\ Reaches(t2, Z, c2, log.lost)
  <2>1. Z \in {"program", "net"}
    BY <1>5
  <2>2. InOrder(t2, {"program", "net"}, log.lost)
    BY <1>23, <1>24, <2>1, InOrderRun
  <2>3. Reaches(t2, X, a2, log.lost)
    BY <1>5, <1>23, <1>24, ReachesOther
  <2>4. Reaches(t2, Z, c2, log.lost)
    BY <1>14, <1>23, <1>24, ReachesRun
  <2>5. QED
    BY <2>2, <2>3, <2>4
<1> HIDE DEF q, r, T
<1>26. Flat(t2) = (Flat(t) \o x) \o y /\ Flat(t) \in Seq(Datum)
  <2>1. Flat(t1) = Flat(t) \o Flat(q)
    BY <1>16, <1>22, FlatCat
  <2>2. Flat(t2) = Flat(t1) \o Flat(r)
    BY <1>17, <1>23, FlatCat
  <2>3. Flat(t) \in Seq(Datum)
    BY FlatIs
  <2>4. QED
    BY <1>16, <1>19, <2>1, <2>2, <2>3
<1>27. x \in Seq(Datum) /\ y \in Seq(Datum)
  BY <1>16, <1>17, <1>19
<1>28. (T \o x) \o y \in Seq(Datum) /\ Len((T \o x) \o y) \in Nat
  <2>1. T \o x \in Seq(Datum)
    BY <1>3, <1>27, CatIs
  <2> DEFINE z == T \o x
  <2>2. z \in Seq(Datum)
    BY <2>1
  <2> HIDE DEF z
  <2>3. z \o y \in Seq(Datum) /\ Len(z \o y) \in Nat
    BY <1>27, <2>2
  <2>4. QED
    BY <2>3 DEF z
<1>29. /\ tx'[h] = (T \o x) \o y /\ tx'[1 - h] = tx[1 - h] /\ tx' \in [{0, 1} -> Seq(Datum)]
       /\ h' = h /\ 1 - h \in {0, 1} /\ 1 - h # h
  <2>1. 1 - h \in {0, 1} /\ 1 - h # h
    BY <1>3
  <2> DEFINE z == (T \o x) \o y
  <2>2. z \in Seq(Datum) /\ tx' = [tx EXCEPT ![h] = z]
    BY <1>1, <1>28
  <2> HIDE DEF z
  <2>3. tx'[h] = z /\ tx'[1 - h] = tx[1 - h] /\ tx' \in [{0, 1} -> Seq(Datum)]
    BY <1>3, <2>1, <2>2
  <2>4. QED
    BY <1>1, <2>1, <2>3 DEF z
<1>30. engine.op = "tx" => tx'[engine.half] = tx[engine.half] /\ engine.half = 1 - h
  BY <1>29 DEF SInv, TxShape
<1>31. TxShape'
  BY <1>1, <1>29, <1>30 DEF SInv, TxShape
<1>32. RxShape'
  BY <1>1 DEF SInv, RxShape
<1>33. StreamTypes'
  BY <1>1, <1>29 DEF SInv, StreamTypes
<1>34. Incoming' = Incoming /\ MopKept
  BY <1>1, <1>20, IncomingSame, MopSame
<1>35. RxFlow'
  BY <1>1, <1>34, RxSame DEF SInv
<1>36. Outgoing' = Flat(t2)
  <2> DEFINE A == log.arrived \o InFlight
  <2>1. A \in Seq(Datum)
    BY InFlightIs, CatIs DEF DInv
  <2>2. InFlight' = InFlight
    BY <1>1, <1>30 DEF InFlight
  <2>3. Outgoing' = A \o ((T \o x) \o y)
    BY <1>1, <1>29, <2>2 DEF Outgoing
  <2>4. A \o T = Flat(t)
    BY <1>4 DEF Departed, Outgoing, T
  <2> HIDE DEF A
  <2>5. A \o ((T \o x) \o y) = ((A \o T) \o x) \o y
    <3>1. A \o (T \o x) = (A \o T) \o x /\ T \o x \in Seq(Datum)
      <4>1. A \in Seq(Datum) /\ T \in Seq(Datum) /\ x \in Seq(Datum)
        BY <1>3, <1>27, <2>1
      <4>2. QED
        BY <4>1
    <3> DEFINE z == T \o x
    <3>2. z \in Seq(Datum) /\ A \o z = (A \o T) \o x
      BY <3>1
    <3> HIDE DEF z
    <3>3. A \o (z \o y) = (A \o z) \o y
      <4>1. A \in Seq(Datum) /\ z \in Seq(Datum) /\ y \in Seq(Datum)
        BY <1>27, <2>1, <3>2
      <4>2. QED
        BY <4>1
    <3>4. QED
      BY <3>2, <3>3 DEF z
  <2>6. QED
    BY <1>26, <2>3, <2>4, <2>5
<1>37. Departed(t2)'
  BY <1>1, <1>25, <1>36 DEF Departed
<1>38. FromNet(t2, a2, b2)'
  <2>1. a2 + b2 = sent["net"]
    BY <1>4, <1>15 DEF FromNet
  <2>2. QED
    BY <1>1, <1>5, <1>16, <1>25, <2>1 DEF FromNet
<1>39. FromProgram(t2, c2, d2)'
  <2>1. c2 + d2 = sent["program"]
    BY <1>4, <1>15 DEF FromProgram
  <2>2. QED
    BY <1>1, <1>5, <1>21, <1>25, <2>1 DEF FromProgram
<1>40. TxFlow'
  BY <1>37, <1>38, <1>39 DEF TxFlow
<1>41. QED
  BY <1>31, <1>32, <1>33, <1>35, <1>40 DEF SInv

-----------------------------------------------------------------------------
(***************************************************************************)
(* The streams are intact.                                                 *)
(***************************************************************************)
LEMMA NextSInv ==
  ASSUME DInv, SInv, [Next]_vars, OPEN_RACES = FALSE, Irqs = {"own"} PROVE SInv'
<1>1. CASE Program
  BY <1>1, SOpenStep, SReleaseStep, SWriteStep, SWriteEndStep, SReadStep, SReadEndStep
     DEF Program
<1>2. CASE Daemon
  BY <1>2, SLookStep, SPrepareStep, SPrepareEndStep, SDoTxStep, SDmaBusyStep, SDoRxStep,
     SPauseStep, SScheduleStep DEF Daemon
<1>3. CASE Filter
  BY <1>3, SFilterStartStep, SFilterNetStep, SFilterStoreStep, SFilterStoredStep, SFilterEndStep
     DEF Filter
<1>4. CASE NetSend \/ BoardTakes \/ (\E irq \in Irqs : Isr(irq))
             \/ (\E s \in {"answer", "frame"} : BoardSends(s))
  BY <1>4, SNetSendStep, SBoardTakesStep, SIsrStep, SBoardSendsStep
<1>5. CASE UNCHANGED vars
  <2>1. /\ UNCHANGED <<mip, mop, move, net_fifo, use_count, pc, dma_doTx, tx, dma_txOffset>>
        /\ UNCHANGED <<dma_state, frag, fresh, dma_rxSize, dma_doFilter, filter>>
        /\ UNCHANGED <<engine, mipLevel, mopQueue, sent, log>>
    BY <1>5 DEF vars, rings, daemon, rx, board
  <2>2. MipKept /\ MopKept
    BY <2>1, MipSame, MopSame
  <2>3. QED
    BY <2>1, <2>2, StreamsSame
<1>6. QED
  BY <1>1, <1>2, <1>3, <1>4, <1>5 DEF Next

\* StreamsIntact for every size of the buffers and packets, every set of PCI packet
\* sizes, any number of packets and every interleaving of program, daemon, filter,
\* network and board, if all interrupts are the own ones and open does not race
\* with a transfer: the board, the program and the network get whole packets, in
\* order and each once.
THEOREM StreamsAreIntact ==
  ASSUME OPEN_RACES = FALSE, Irqs = {"own"} PROVE Spec => []StreamsIntact
<1>1. Init => DInv /\ SInv
  BY InitInv, SInvInit
<1>2. (DInv /\ SInv) /\ [Next]_vars => (DInv /\ SInv)'
  BY NextInv, NextSInv
<1>3. DInv /\ SInv => StreamsIntact
  BY Intact DEF DInv
<1>4. QED
  BY <1>1, <1>2, <1>3, PTL DEF Spec
=============================================================================
