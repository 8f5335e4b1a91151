---------------------------- MODULE CrbNetProofs ----------------------------
(***************************************************************************)
(* Theorems about the network interface of the driver, for any number of   *)
(* cores, slots, frames and restarts.                                      *)
(***************************************************************************)
EXTENDS CrbNet, TLAPS

-----------------------------------------------------------------------------
(***************************************************************************)
(* Types.                                                                  *)
(***************************************************************************)
Chunk == [core : Core, slot : Slot, part : {"others", "first", "irq"}, no : Nat]
Frame == [no : Nat, lines : Nat, done : Nat]
Mail  == [box : {"CONFIG", "RXDONE"}, arg : Slot]
         \cup [box : {"PACKETSTART", "PACKETDATA"}, arg : Frame]
Held  == [first : Nat, others : Nat]

TxTypes == /\ marking \in {-1} \cup Core
           /\ frame = [ip |-> frame.ip, core |-> frame.core, no |-> frame.no]
           /\ frame.core \in {-1} \cup Core /\ frame.no \in Nat
           /\ nextTxSlot \in [Core -> Slot] /\ txSlotBusy \in [Core -> SUBSET Slot]
           /\ net_fifo \in Seq(Chunk)
CoreTypes == /\ memory \in [Core -> [Slot -> Held]] /\ coreSlot \in [Core -> Slot]
             /\ mail \in [Core -> Seq(Mail)]
             /\ taken \in [Core -> Seq(Held)]
             /\ count = [to |-> count.to, from |-> count.from, restarts |-> count.restarts]
             /\ count.to \in [Core -> Nat] /\ count.from \in [Core -> Nat]
             /\ sending \in [Core -> Frame]

-----------------------------------------------------------------------------
(***************************************************************************)
(* What is on its way to a core.  Its frames have positions: those in its  *)
(* memory from a to m - 1, those in net_fifo from m to z - 1; N gives their*)
(* numbers, and the slot of a position is its remainder.                   *)
(***************************************************************************)
At(p) == p % SLOTS

\* Of what is in a mailbox: slots given back, and announced restarts.
Done(s)     == [box |-> "RXDONE", arg |-> s]
Config(s)   == [box |-> "CONFIG", arg |-> s]
IsDone(x)   == x.box = "RXDONE"
IsConfig(x) == x.box = "CONFIG"
Boots(v)    == \E i \in 1 .. Len(v) : IsConfig(v[i])
Returned(v) == {s \in Slot : \E i \in 1 .. Len(v) : v[i] = Done(s)}
ToldOnce(v) == \A i, j \in 1 .. Len(v) : IsDone(v[i]) /\ v[i] = v[j] => i = j

\* The last that concerns the slots is the latest restart, which begins with s.
Announced(v, s) == \E i \in 1 .. Len(v) : /\ v[i] = Config(s)
                                         /\ \A j \in i + 1 .. Len(v) : ~IsConfig(v[j]) /\ ~IsDone(v[j])

LastTaken(c) == IF taken[c] = <<>> THEN 0 ELSE taken[c][Len(taken[c])].first

FirstOf(x, c)  == x.core = c /\ x.part = "first"
OthersOf(x, c) == x.core = c /\ x.part = "others"
Same(x, y) == x.slot = y.slot /\ x.no = y.no

\* In net_fifo: each frame has a first line, in order, which the others precede
\* or have preceded.
FirstLines(q, c, m, z, N) ==
  /\ \A i \in 1 .. Len(q) : FirstOf(q[i], c) =>
       \E p \in m .. z - 1 : q[i].slot = At(p) /\ q[i].no = N[p]
  /\ \A p \in m .. z - 1 : \E i \in 1 .. Len(q) : FirstOf(q[i], c) /\ q[i].no = N[p]
  /\ \A i, j \in 1 .. Len(q) : i < j /\ FirstOf(q[i], c) /\ FirstOf(q[j], c) => q[i].no < q[j].no
OtherLines(q, c, mem) ==
  /\ \A i \in 1 .. Len(q) : OthersOf(q[i], c) =>
       \E j \in i + 1 .. Len(q) : FirstOf(q[j], c) /\ Same(q[i], q[j])
  /\ \A i \in 1 .. Len(q) : FirstOf(q[i], c) =>
       \/ mem[q[i].slot].others = q[i].no
       \/ \E j \in 1 .. i - 1 : OthersOf(q[j], c) /\ Same(q[i], q[j])
InFifo(q, c, m, z, N, mem) == FirstLines(q, c, m, z, N) /\ OtherLines(q, c, mem)

InMemory(mem, a, m, N) ==
  /\ \A p \in a .. m - 1 : mem[At(p)] = [first |-> N[p], others |-> N[p]]
  /\ \A s \in Slot : mem[s].first # 0 => \E p \in a .. m - 1 : s = At(p)

\* The numbers rise, and none is missing unless it was given up.
Rising(c, a, z, N) ==
  /\ \A p, r \in a .. z - 1 : p < r => N[p] < N[r]
  /\ \A p \in a .. z - 1 : /\ LastTaken(c) < N[p] /\ N[p] <= count.to[c]
                           /\ frame.core = c /\ marking # c => N[p] < frame.no
  /\ frame.core = c /\ marking # c => LastTaken(c) < frame.no
NoneMissing(c, a, z, N) ==
  \A k \in 1 .. count.to[c] :
    \/ k <= LastTaken(c) \/ <<c, k>> \in gone \/ \E p \in a .. z - 1 : N[p] = k
    \/ frame.core = c /\ marking # c /\ frame.no = k

\* The slots given back are others, each told once.
Given(c, a, z) == ToldOnce(mail[c]) /\ \A p \in a .. z - 1 : At(p) \notin Returned(mail[c])

Owed(c, a, z) == {At(p) : p \in a .. z - 1} \cup Returned(mail[c])

\* Driver and core count alike.
InStep(c, a, z) ==
  /\ coreSlot[c] = At(a)
  /\ marking # c => nextTxSlot[c] = At(z) /\ txSlotBusy[c] = Owed(c, a, z)
  /\ marking = c => /\ (nextTxSlot[c] + 1) % SLOTS = At(z)
                    /\ nextTxSlot[c] \in Owed(c, a, z)
                    /\ txSlotBusy[c] = Owed(c, a, z) \ {nextTxSlot[c]}

Window(a, m, z) == a <= m /\ m <= z /\ z <= a + SLOTS

Way(c, a, m, z, N) ==
  /\ Window(a, m, z)
  /\ InFifo(net_fifo, c, m, z, N, memory[c]) /\ InMemory(memory[c], a, m, N)
  /\ Rising(c, a, z, N) /\ NoneMissing(c, a, z, N) /\ Given(c, a, z) /\ InStep(c, a, z)

UnderWay(c) == \E a, m, z \in Nat, N \in [Nat -> Nat] : Way(c, a, m, z, N)

\* A core that has announced its restart: nothing is on its way to it.
Restarted(c) ==
  /\ \A s \in Slot : memory[c][s].first = 0
  /\ \A i \in 1 .. Len(net_fifo) : net_fifo[i].core # c
  /\ frame.core # c /\ marking # c /\ Announced(mail[c], coreSlot[c])
  /\ \A k \in 1 .. count.to[c] : k <= LastTaken(c) \/ <<c, k>> \in gone

InTurn(c, t, i) ==
  LET before == IF i = 1 THEN 0 ELSE t[i - 1].first
      no == t[i].first
  IN  /\ t[i].others = no
      /\ no > before
      /\ \A k \in before + 1 .. no - 1 : <<c, k>> \in gone
TakenInOrder(c) == \A i \in 1 .. Len(taken[c]) : InTurn(c, taken[c], i)

Offered == /\ frame.core # -1 => /\ frame.no = count.to[frame.core] /\ frame.no > 0
                                 /\ ~Illegal(DestIp(frame.ip))
           /\ marking # -1 => frame.core = marking

CoreInv(c) == /\ TakenInOrder(c) /\ LastTaken(c) <= count.to[c]
              /\ (IF Booting(c) THEN Restarted(c) ELSE UnderWay(c))

SlotInv == TxTypes /\ CoreTypes /\ Offered /\ \A c \in Core : CoreInv(c)

SlotsCareful == ~RACES

-----------------------------------------------------------------------------
(***************************************************************************)
(* Positions and slots.                                                    *)
(***************************************************************************)
LEMMA SizesAre ==
  /\ CORES \in Nat /\ CORES > 0 /\ SLOTS \in Nat /\ SLOTS > 0 /\ 0 \in Slot /\ Slot \subseteq Nat
  /\ -1 \notin Core /\ Core \subseteq Nat
BY NetAssumption DEF Slot, Core

LEMMA AtIs == ASSUME NEW p \in Nat PROVE At(p) \in Slot
<1>1. p % SLOTS \in 0 .. SLOTS - 1
  BY SizesAre
<1>2. QED
  BY <1>1 DEF At, Slot

LEMMA Rounds == ASSUME NEW p \in Nat PROVE \E q \in Nat : p = SLOTS * q + At(p)
<1>1. p = SLOTS * (p \div SLOTS) + (p % SLOTS) /\ p \div SLOTS \in Nat
  BY SizesAre
<1>2. QED
  BY <1>1 DEF At

LEMMA Unique ==
  ASSUME NEW q \in Nat, NEW r \in 0 .. SLOTS - 1
  PROVE  At(SLOTS * q + r) = r
<1>1. (SLOTS * q + r) % SLOTS = r
  BY SizesAre
<1>2. QED
  BY <1>1 DEF At

\* Of any SLOTS positions in a row no two have the same slot.
LEMMA Apart ==
  ASSUME NEW p \in Nat, NEW r \in Nat, p < r, r < p + SLOTS
  PROVE  At(p) # At(r)
<1> SUFFICES ASSUME At(p) = At(r) PROVE FALSE
  OBVIOUS
<1>1. PICK u \in Nat : p = SLOTS * u + At(p)
  BY Rounds
<1>2. PICK v \in Nat : r = SLOTS * v + At(r)
  BY Rounds
<1>3. PICK e \in Nat : e = At(p)
  BY AtIs, SizesAre
<1>4. SLOTS * (v - u) = r - p
  BY <1>1, <1>2, <1>3, SizesAre
<1>5. PICK w \in Int : w = v - u
  OBVIOUS
<1>6. SLOTS * w > 0 /\ SLOTS * w < SLOTS
  BY <1>4, <1>5, SizesAre
<1>7. w > 0 \/ w <= 0
  BY <1>5
<1>8. CASE w > 0
  <2>1. SLOTS * w >= SLOTS
    BY <1>5, <1>8, SizesAre
  <2> QED BY <1>6, <2>1, SizesAre
<1>9. CASE w <= 0
  <2>1. SLOTS * w <= 0
    BY <1>5, <1>9, SizesAre
  <2> QED BY <1>6, <2>1, SizesAre
<1>10. QED
  BY <1>7, <1>8, <1>9

LEMMA NextSlot ==
  ASSUME NEW p \in Nat
  PROVE  (At(p) + 1) % SLOTS = At(p + 1) /\ At(p + SLOTS) = At(p)
<1>1. PICK u \in Nat : p = SLOTS * u + At(p)
  BY Rounds
<1>2. PICK r \in 0 .. SLOTS - 1 : r = At(p)
  BY AtIs DEF Slot
<1>3. p + SLOTS = SLOTS * (u + 1) + r
  BY <1>1, <1>2, SizesAre
<1>4. At(p + SLOTS) = r
  BY <1>2, <1>3, Unique
<1>5. CASE r + 1 < SLOTS
  <2>1. r + 1 \in 0 .. SLOTS - 1 /\ p + 1 = SLOTS * u + (r + 1)
    BY <1>1, <1>2, <1>5, SizesAre
  <2>2. At(p + 1) = r + 1
    BY <2>1, Unique
  <2>3. r + 1 = SLOTS * 0 + (r + 1) /\ 0 \in Nat
    BY SizesAre
  <2>4. At(r + 1) = r + 1
    BY <2>1, <2>3, Unique
  <2> QED BY <1>2, <1>4, <2>2, <2>4 DEF At
<1>6. CASE r + 1 = SLOTS
  <2>1. 0 \in 0 .. SLOTS - 1 /\ p + 1 = SLOTS * (u + 1) + 0 /\ r + 1 = SLOTS * 1 + 0
    BY <1>1, <1>2, <1>6, SizesAre
  <2>2. At(p + 1) = 0 /\ At(r + 1) = 0
    BY <2>1, Unique
  <2> QED BY <1>2, <1>4, <2>2 DEF At
<1>7. QED
  BY <1>2, <1>5, <1>6, SizesAre

-----------------------------------------------------------------------------
(***************************************************************************)
(* Types.                                                                  *)
(***************************************************************************)
LEMMA CountTo ==
  ASSUME CoreTypes, NEW c \in Core, count' = [count EXCEPT !.to[c] = @ + 1]
  PROVE  /\ count' = [to |-> count'.to, from |-> count'.from, restarts |-> count'.restarts]
         /\ count'.from = count.from /\ count'.to = [count.to EXCEPT ![c] = count.to[c] + 1]
         /\ count'.to \in [Core -> Nat]
<1>1. count = [to |-> count.to, from |-> count.from, restarts |-> count.restarts]
      /\ count.to \in [Core -> Nat]
  BY DEF CoreTypes
<1>2. count' = [to |-> [count.to EXCEPT ![c] = count.to[c] + 1], from |-> count.from,
                restarts |-> count.restarts]
  BY <1>1
<1>3. QED
  BY <1>1, <1>2

LEMMA CountFrom ==
  ASSUME CoreTypes, NEW c \in Core, count' = [count EXCEPT !.from[c] = @ + 1]
  PROVE  /\ count' = [to |-> count'.to, from |-> count'.from, restarts |-> count'.restarts]
         /\ count'.to = count.to /\ count'.from = [count.from EXCEPT ![c] = count.from[c] + 1]
         /\ count'.from \in [Core -> Nat]
<1>1. count = [to |-> count.to, from |-> count.from, restarts |-> count.restarts]
      /\ count.from \in [Core -> Nat]
  BY DEF CoreTypes
<1>2. count' = [from |-> [count.from EXCEPT ![c] = count.from[c] + 1], to |-> count.to,
                restarts |-> count.restarts]
  BY <1>1
<1>3. QED
  BY <1>1, <1>2

LEMMA CountRestart ==
  ASSUME CoreTypes, count' = [count EXCEPT !.restarts = @ + 1]
  PROVE  /\ count' = [to |-> count'.to, from |-> count'.from, restarts |-> count'.restarts]
         /\ count'.to = count.to /\ count'.from = count.from
BY DEF CoreTypes

\* What Post does.
LEMMA Posted ==
  ASSUME CoreTypes, NEW c \in Core, NEW box, NEW x, [box |-> box, arg |-> x] \in Mail,
         Post(c, box, x)
  PROVE  /\ mail' \in [Core -> Seq(Mail)]
         /\ mail'[c] = Append(mail[c], [box |-> box, arg |-> x])
         /\ \A d \in Core \ {c} : mail'[d] = mail[d]
<1>1. mail \in [Core -> Seq(Mail)]
  BY DEF CoreTypes
<1>2. mail' = [mail EXCEPT ![c] = Append(mail[c], [box |-> box, arg |-> x])]
  BY DEF Post
<1>3. Append(mail[c], [box |-> box, arg |-> x]) \in Seq(Mail)
  BY <1>1
<1>4. QED
  BY <1>1, <1>2, <1>3

LEMMA DestIpIs == ASSUME NEW ip \in Ips PROVE DestIp(ip) \in Int
<1>1. ip \in Nat /\ SUBNET \in Nat
  BY NetAssumption
<1>2. CASE SUBNET <= 1
  BY <1>1, <1>2 DEF DestIp
<1>3. CASE ~(SUBNET <= 1)
  <2>1. (ip - 1) \div SUBNET \in Int
    <3>1. SUBNET \in Nat /\ SUBNET > 0
      BY <1>1, <1>3
    <3> QED BY <1>1, <3>1
  <2>2. DestIp(ip) = (IF ip = 0 THEN 0 ELSE (ip - 1) \div SUBNET) * SUBNET + 1
    BY <1>3 DEF DestIp
  <2> QED BY <1>1, <2>1, <2>2
<1>4. QED
  BY <1>2, <1>3

\* What crbnet_hw_tx appends to net_fifo.
Sent(c, s, no) == [i \in 1 .. Len(Parts) |-> [core |-> c, slot |-> s, part |-> Parts[i], no |-> no]]

LEMMA PartsAre ==
  /\ Len(Parts) \in {2, 3} /\ Parts[1] = "others" /\ Parts[2] = "first"
  /\ Len(Parts) = 3 => Parts[3] = "irq"
BY DEF Parts

LEMMA SentIs ==
  ASSUME NEW c \in Core, NEW s \in Slot, NEW no \in Nat
  PROVE  /\ Sent(c, s, no) \in Seq(Chunk) /\ Len(Sent(c, s, no)) \in {2, 3}
         /\ Sent(c, s, no)[1] = [core |-> c, slot |-> s, part |-> "others", no |-> no]
         /\ Sent(c, s, no)[2] = [core |-> c, slot |-> s, part |-> "first", no |-> no]
         /\ Len(Sent(c, s, no)) = 3 =>
              Sent(c, s, no)[3] = [core |-> c, slot |-> s, part |-> "irq", no |-> no]
<1> DEFINE n == Len(Parts)
<1>1. n \in Nat /\ n \in {2, 3} /\ 1 \in 1 .. n /\ 2 \in 1 .. n
      /\ (n = 3 => 3 \in 1 .. n) /\ \A i \in 1 .. n : i = 1 \/ i = 2 \/ (n = 3 /\ i = 3)
  <2>1. n \in {2, 3}
    BY PartsAre
  <2> HIDE DEF n
  <2>2. CASE n = 2
    BY <2>2
  <2>3. CASE n = 3
    BY <2>3
  <2> QED BY <2>1, <2>2, <2>3
<1>2. \A i \in 1 .. n : Parts[i] \in {"others", "first", "irq"}
  BY <1>1, PartsAre
<1>3. \A i \in 1 .. n : [core |-> c, slot |-> s, part |-> Parts[i], no |-> no] \in Chunk
  BY <1>2 DEF Chunk
<1>4. Sent(c, s, no) = [i \in 1 .. n |-> [core |-> c, slot |-> s, part |-> Parts[i], no |-> no]]
  BY DEF Sent
<1> HIDE DEF n
<1>5. Sent(c, s, no) \in Seq(Chunk) /\ Len(Sent(c, s, no)) = n
  BY <1>1, <1>3, <1>4
<1>6. QED
  BY <1>1, <1>4, <1>5, PartsAre DEF n

Types == TxTypes /\ CoreTypes

LEMMA Elements ==
  ASSUME Types
  PROVE  /\ \A i \in 1 .. Len(net_fifo) : net_fifo[i] \in Chunk
         /\ \A c \in Core : \A i \in 1 .. Len(mail[c]) : mail[c][i] \in Mail
         /\ Len(net_fifo) \in Nat /\ \A c \in Core : Len(mail[c]) \in Nat
<1>1. net_fifo \in Seq(Chunk)
  BY DEF Types, TxTypes
<1>2. ASSUME NEW c \in Core
      PROVE  Len(mail[c]) \in Nat /\ \A i \in 1 .. Len(mail[c]) : mail[c][i] \in Mail
  <2>1. mail[c] \in Seq(Mail)
    BY DEF Types, CoreTypes
  <2> QED BY <2>1
<1>3. QED
  BY <1>1, <1>2

LEMMA TypesInitially == Init => Types
<1> SUFFICES ASSUME Init PROVE Types
  OBVIOUS
<1>1. 0 \in Slot /\ 0 \in Nat
  BY SizesAre
<1>2. TxTypes
  <2>1. frame = [ip |-> -1, core |-> -1, no |-> 0]
    BY DEF Init, NoFrame
  <2>2. net_fifo \in Seq(Chunk) /\ marking = -1
    BY DEF Init
  <2>3. nextTxSlot \in [Core -> Slot] /\ txSlotBusy \in [Core -> SUBSET Slot]
    BY <1>1 DEF Init
  <2> QED BY <2>1, <2>2, <2>3 DEF TxTypes
<1>3. CoreTypes
  <2>1. Vacant \in Held /\ Nothing \in Frame
    BY DEF Vacant, Held, Nothing, Frame
  <2>2. memory \in [Core -> [Slot -> Held]] /\ coreSlot \in [Core -> Slot]
    BY <1>1, <2>1 DEF Init
  <2>3. <<>> \in Seq(Mail) /\ <<>> \in Seq(Held)
    OBVIOUS
  <2>4. mail \in [Core -> Seq(Mail)] /\ taken \in [Core -> Seq(Held)]
    BY <2>3 DEF Init
  <2>5. /\ count = [to |-> count.to, from |-> count.from, restarts |-> count.restarts]
        /\ count.to \in [Core -> Nat] /\ count.from \in [Core -> Nat]
    BY DEF Init
  <2>6. sending \in [Core -> Frame]
    BY <2>1 DEF Init
  <2> QED BY <2>2, <2>4, <2>5, <2>6 DEF CoreTypes
<1>4. QED
  BY <1>2, <1>3 DEF Types

LEMMA TypesNewFrame == ASSUME Types, NEW ip \in Ips, NewFrame(ip) PROVE Types'
<1> DEFINE c == DestIp(ip) - 1
<1>1. UNCHANGED <<marking, nextTxSlot, txSlotBusy, net_fifo, memory, coreSlot, sending, mail, taken>>
  BY DEF NewFrame, tx, fifo, cores
<1>2. CASE c \in Core
  <2>1. /\ frame' = [ip |-> ip, core |-> c, no |-> count.to[c] + 1]
        /\ count' = [count EXCEPT !.to[c] = @ + 1]
    BY <1>2 DEF NewFrame
  <2> HIDE DEF c
  <2>2. count.to[c] + 1 \in Nat
    BY <1>2 DEF Types, CoreTypes
  <2>3. TxTypes'
    BY <1>1, <1>2, <2>1, <2>2 DEF Types, TxTypes
  <2>4. CoreTypes'
    <3>1. CoreTypes
      BY DEF Types
    <3> QED BY <1>1, <1>2, <2>1, <3>1, CountTo DEF CoreTypes
  <2> QED BY <2>3, <2>4 DEF Types
<1>3. CASE c \notin Core
  <2>1. frame' = [ip |-> ip, core |-> -1, no |-> 0] /\ count' = count
    BY <1>3 DEF NewFrame
  <2> HIDE DEF c
  <2>2. TxTypes'
    BY <1>1, <2>1 DEF Types, TxTypes
  <2>3. CoreTypes'
    BY <1>1, <2>1 DEF Types, CoreTypes
  <2> QED BY <2>2, <2>3 DEF Types
<1>4. QED
  BY <1>2, <1>3

LEMMA TypesTransmit == ASSUME Types, Transmit PROVE Types'
<1> DEFINE c == frame.core
<1>1. c \in Core
  BY DEF Transmit
<1>2. /\ net_fifo' = net_fifo \o Sent(c, nextTxSlot[c], frame.no) /\ marking' = c
      /\ UNCHANGED <<frame, nextTxSlot, txSlotBusy, memory, coreSlot, sending, mail, taken, count>>
  BY DEF Transmit, Sent, cores, history
<1>3. Sent(c, nextTxSlot[c], frame.no) \in Seq(Chunk)
  BY <1>1, SentIs DEF Types, TxTypes
<1> HIDE DEF c
<1>4. net_fifo' \in Seq(Chunk)
  BY <1>2, <1>3 DEF Types, TxTypes
<1>5. TxTypes'
  BY <1>1, <1>2, <1>4 DEF Types, TxTypes
<1>6. CoreTypes'
  BY <1>2 DEF Types, CoreTypes
<1>7. QED
  BY <1>5, <1>6 DEF Types

LEMMA TypesMark == ASSUME Types, Mark PROVE Types'
<1>1. /\ marking \in Core /\ marking' = -1 /\ frame' = NoFrame
      /\ txSlotBusy' = [txSlotBusy EXCEPT ![marking] = @ \cup {nextTxSlot[marking]}]
      /\ nextTxSlot' = [nextTxSlot EXCEPT ![marking] = (@ + 1) % SLOTS]
      /\ UNCHANGED <<net_fifo, memory, coreSlot, sending, mail, taken, count>>
  BY DEF Mark, fifo, cores, history, Types, TxTypes
<1>2. nextTxSlot[marking] \in Slot
  BY <1>1 DEF Types, TxTypes
<1>3. (nextTxSlot[marking] + 1) % SLOTS \in Slot
  <2>1. PICK k \in Nat : k = nextTxSlot[marking]
    BY <1>2, SizesAre
  <2>2. At(k + 1) \in Slot
    BY AtIs
  <2> QED BY <2>1, <2>2 DEF At
<1>4. TxTypes'
  <2>1. frame' = [ip |-> -1, core |-> -1, no |-> 0]
    BY <1>1 DEF NoFrame
  <2>2. nextTxSlot' \in [Core -> Slot] /\ txSlotBusy' \in [Core -> SUBSET Slot]
    BY <1>1, <1>2, <1>3 DEF Types, TxTypes
  <2>3. net_fifo' \in Seq(Chunk) /\ marking' = -1
    BY <1>1 DEF Types, TxTypes
  <2> QED BY <2>1, <2>2, <2>3 DEF TxTypes
<1>5. CoreTypes'
  BY <1>1 DEF Types, CoreTypes
<1>6. QED
  BY <1>4, <1>5 DEF Types

LEMMA TypesArrive == ASSUME Types, Arrive PROVE Types'
<1> DEFINE x == Head(net_fifo)
<1>1. /\ net_fifo # <<>> /\ net_fifo' = Tail(net_fifo)
      /\ memory' = CASE x.part = "first"  -> [memory EXCEPT ![x.core][x.slot].first = x.no]
                     [] x.part = "others" -> [memory EXCEPT ![x.core][x.slot].others = x.no]
                     [] x.part = "irq"    -> memory
      /\ UNCHANGED <<frame, marking, nextTxSlot, txSlotBusy, coreSlot, sending, mail, taken, count>>
  BY DEF Arrive, tx, history
<1>2. x \in Chunk /\ net_fifo' \in Seq(Chunk)
  BY <1>1 DEF Types, TxTypes
<1> HIDE DEF x
<1>3. memory' \in [Core -> [Slot -> Held]]
  <2>0. memory \in [Core -> [Slot -> Held]] /\ x.core \in Core /\ x.slot \in Slot /\ x.no \in Nat
    BY <1>2 DEF Chunk, Types, CoreTypes
  <2>1. ASSUME NEW h \in Held PROVE [h EXCEPT !.first = x.no] \in Held /\ [h EXCEPT !.others = x.no] \in Held
    BY <2>0 DEF Held
  <2>2. CASE x.part = "first"
    BY <1>1, <2>0, <2>1, <2>2
  <2>3. CASE x.part = "others"
    BY <1>1, <2>0, <2>1, <2>3
  <2>4. CASE x.part = "irq"
    BY <1>1, <2>0, <2>4
  <2> QED BY <1>2, <2>2, <2>3, <2>4 DEF Chunk
<1>4. TxTypes'
  BY <1>1, <1>2 DEF Types, TxTypes
<1>5. CoreTypes'
  BY <1>1, <1>3 DEF Types, CoreTypes
<1>6. QED
  BY <1>4, <1>5 DEF Types

LEMMA TypesTakes == ASSUME Types, NEW c \in Core, CoreTakes(c) PROVE Types'
<1> DEFINE s == coreSlot[c]
<1>1. /\ taken' = [taken EXCEPT ![c] = Append(@, memory[c][s])]
      /\ memory' = [memory EXCEPT ![c][s] = Vacant]
      /\ coreSlot' = [coreSlot EXCEPT ![c] = (s + 1) % SLOTS]
      /\ Post(c, "RXDONE", s)
      /\ UNCHANGED <<frame, marking, nextTxSlot, txSlotBusy, net_fifo, sending, count>>
  BY DEF CoreTakes, tx, fifo
<1>2. CoreTypes /\ s \in Slot /\ Vacant \in Held /\ memory[c][s] \in Held
  BY DEF Types, CoreTypes, Vacant, Held
<1>3. [box |-> "RXDONE", arg |-> s] \in Mail
  BY <1>2 DEF Mail
<1>4. mail' \in [Core -> Seq(Mail)]
  BY <1>1, <1>2, <1>3, Posted
<1>5. (s + 1) % SLOTS \in Slot
  <2>1. PICK k \in Nat : k = s
    BY <1>2, SizesAre
  <2>2. At(k + 1) \in Slot
    BY AtIs
  <2> QED BY <2>1, <2>2 DEF At
<1> HIDE DEF s
<1>6. taken' \in [Core -> Seq(Held)]
  <2>1. Append(taken[c], memory[c][s]) \in Seq(Held)
    BY <1>2 DEF CoreTypes
  <2> QED BY <1>1, <1>2, <2>1 DEF CoreTypes
<1>7. memory' \in [Core -> [Slot -> Held]] /\ coreSlot' \in [Core -> Slot]
  BY <1>1, <1>2, <1>5 DEF CoreTypes
<1>8. TxTypes'
  BY <1>1 DEF Types, TxTypes
<1>9. CoreTypes'
  BY <1>1, <1>2, <1>4, <1>6, <1>7 DEF CoreTypes
<1>10. QED
  BY <1>8, <1>9 DEF Types

LEMMA TypesStarts == ASSUME Types, NEW c \in Core, NEW n \in UpLines, CoreStarts(c, n) PROVE Types'
<1> DEFINE f == [no |-> count.from[c] + 1, lines |-> n, done |-> 0]
<1>1. /\ count' = [count EXCEPT !.from[c] = @ + 1]
      /\ sending' = [sending EXCEPT ![c] = IF n = 1 THEN Nothing
                       ELSE [no |-> count.from[c] + 1, lines |-> n, done |-> 1]]
      /\ Post(c, "PACKETSTART", f)
      /\ UNCHANGED <<frame, marking, nextTxSlot, txSlotBusy, net_fifo, memory, coreSlot, taken>>
  BY DEF CoreStarts, tx, fifo
<1>2. CoreTypes /\ n \in Nat /\ count.from[c] + 1 \in Nat
  BY NetAssumption DEF Types, CoreTypes
<1>3. f \in Frame /\ [no |-> count.from[c] + 1, lines |-> n, done |-> 1] \in Frame /\ Nothing \in Frame
  BY <1>2 DEF Frame, Nothing
<1> HIDE DEF f
<1>4. [box |-> "PACKETSTART", arg |-> f] \in Mail
  BY <1>3 DEF Mail
<1>5. mail' \in [Core -> Seq(Mail)]
  BY <1>1, <1>2, <1>4, Posted
<1>6. sending' \in [Core -> Frame]
  BY <1>1, <1>2, <1>3 DEF CoreTypes
<1>7. /\ count' = [to |-> count'.to, from |-> count'.from, restarts |-> count'.restarts]
      /\ count'.to \in [Core -> Nat] /\ count'.from \in [Core -> Nat]
  BY <1>1, <1>2, CountFrom DEF CoreTypes
<1>8. TxTypes'
  BY <1>1 DEF Types, TxTypes
<1>9. CoreTypes'
  BY <1>1, <1>2, <1>5, <1>6, <1>7 DEF CoreTypes
<1>10. QED
  BY <1>8, <1>9 DEF Types

LEMMA TypesContinues == ASSUME Types, NEW c \in Core, CoreContinues(c) PROVE Types'
<1> DEFINE f == sending[c]
<1>1. /\ sending' = [sending EXCEPT ![c] = IF f.done + 1 = f.lines THEN Nothing
                                           ELSE [f EXCEPT !.done = @ + 1]]
      /\ Post(c, "PACKETDATA", f)
      /\ UNCHANGED <<frame, marking, nextTxSlot, txSlotBusy, net_fifo, memory, coreSlot, taken, count>>
  BY DEF CoreContinues, tx, fifo, history
<1>2. CoreTypes /\ f \in Frame
  BY DEF Types, CoreTypes
<1> HIDE DEF f
<1>3. [f EXCEPT !.done = @ + 1] \in Frame /\ Nothing \in Frame
  BY <1>2 DEF Frame, Nothing
<1>4. [box |-> "PACKETDATA", arg |-> f] \in Mail
  BY <1>2 DEF Mail
<1>5. mail' \in [Core -> Seq(Mail)]
  BY <1>1, <1>2, <1>4, Posted
<1>6. sending' \in [Core -> Frame]
  BY <1>1, <1>2, <1>3 DEF CoreTypes
<1>7. TxTypes'
  BY <1>1 DEF Types, TxTypes
<1>8. CoreTypes'
  BY <1>1, <1>2, <1>5, <1>6 DEF CoreTypes
<1>9. QED
  BY <1>7, <1>8 DEF Types

LEMMA TypesRestart == ASSUME Types, NEW c \in Core, NEW s \in Slot, Restart(c, s) PROVE Types'
<1>1. /\ count' = [count EXCEPT !.restarts = @ + 1]
      /\ memory' = [memory EXCEPT ![c] = [k \in Slot |-> Vacant]]
      /\ coreSlot' = [coreSlot EXCEPT ![c] = s]
      /\ sending' = [sending EXCEPT ![c] = Nothing]
      /\ Post(c, "CONFIG", s)
      /\ UNCHANGED <<frame, marking, nextTxSlot, txSlotBusy, net_fifo, taken>>
  BY DEF Restart, tx, fifo
<1>2. CoreTypes /\ Vacant \in Held /\ Nothing \in Frame
  BY DEF Types, Vacant, Held, Nothing, Frame
<1>3. [box |-> "CONFIG", arg |-> s] \in Mail
  BY DEF Mail
<1>4. mail' \in [Core -> Seq(Mail)]
  BY <1>1, <1>2, <1>3, Posted
<1>5. /\ count' = [to |-> count'.to, from |-> count'.from, restarts |-> count'.restarts]
      /\ count'.to \in [Core -> Nat] /\ count'.from \in [Core -> Nat]
  BY <1>1, <1>2, CountRestart DEF CoreTypes
<1>6. /\ memory' \in [Core -> [Slot -> Held]] /\ coreSlot' \in [Core -> Slot]
      /\ sending' \in [Core -> Frame]
  BY <1>1, <1>2 DEF CoreTypes
<1>7. TxTypes'
  BY <1>1 DEF Types, TxTypes
<1>8. CoreTypes'
  BY <1>1, <1>2, <1>4, <1>5, <1>6 DEF CoreTypes
<1>9. QED
  BY <1>7, <1>8 DEF Types

LEMMA MailIs ==
  ASSUME NEW x \in Mail
  PROVE  /\ x = [box |-> x.box, arg |-> x.arg]
         /\ x.box \in {"CONFIG", "RXDONE", "PACKETSTART", "PACKETDATA"}
         /\ x.box \in {"CONFIG", "RXDONE"} => x.arg \in Slot
         /\ x.box \in {"PACKETSTART", "PACKETDATA"} => x.arg \in Frame
BY DEF Mail

LEMMA TypesHandle == ASSUME Types, NEW c \in Core, Handle(c) PROVE Types'
<1> DEFINE x == Head(mail[c])
<1>1. /\ mail[c] # <<>> /\ mail' = [mail EXCEPT ![c] = Tail(@)]
      /\ CASE x.box = "CONFIG"      -> Reset(c, x.arg) /\ UNCHANGED <<rxInFlight, received>>
           [] x.box = "RXDONE"      -> Complete(c, x.arg) /\ UNCHANGED <<rxInFlight, received>>
           [] x.box = "PACKETSTART" -> RxStart(c, x.arg) /\ UNCHANGED tx
           [] x.box = "PACKETDATA"  -> RxData(c, x.arg) /\ UNCHANGED tx
      /\ UNCHANGED <<frame, marking, net_fifo, memory, coreSlot, sending, count, taken>>
  BY DEF Handle, fifo, cores
<1>2. mail \in [Core -> Seq(Mail)] /\ x \in Mail /\ Tail(mail[c]) \in Seq(Mail)
  BY <1>1 DEF Types, CoreTypes
<1>3. mail' \in [Core -> Seq(Mail)]
  BY <1>1, <1>2
<1> HIDE DEF x
<1>4. nextTxSlot' \in [Core -> Slot] /\ txSlotBusy' \in [Core -> SUBSET Slot]
  <2>0. nextTxSlot \in [Core -> Slot] /\ txSlotBusy \in [Core -> SUBSET Slot]
    BY DEF Types, TxTypes
  <2>1. CASE x.box = "CONFIG"
    <3>1. Reset(c, x.arg) /\ x.arg \in Slot
      BY <1>1, <1>2, <2>1, MailIs
    <3> QED BY <2>0, <3>1 DEF Reset
  <2>2. CASE x.box = "RXDONE"
    <3>1. Complete(c, x.arg)
      BY <1>1, <2>2
    <3> QED BY <2>0, <3>1 DEF Complete
  <2>3. CASE x.box \in {"PACKETSTART", "PACKETDATA"}
    <3>1. UNCHANGED tx
      BY <1>1, <2>3
    <3> QED BY <2>0, <3>1 DEF tx
  <2> QED BY <1>2, <2>1, <2>2, <2>3, MailIs
<1>5. TxTypes'
  BY <1>1, <1>4 DEF Types, TxTypes
<1>6. CoreTypes'
  BY <1>1, <1>3 DEF Types, CoreTypes
<1>7. QED
  BY <1>5, <1>6 DEF Types

LEMMA TypesStep == ASSUME Types, [Next]_vars PROVE Types'
<1>1. CASE TxIllegal \/ TxBusy
  <2>1. frame' = frame \/ frame' = [ip |-> -1, core |-> -1, no |-> 0]
    BY <1>1 DEF TxIllegal, TxBusy, NoFrame
  <2>2. UNCHANGED <<marking, nextTxSlot, txSlotBusy, net_fifo, memory, coreSlot, sending, mail, taken, count>>
    BY <1>1 DEF TxIllegal, TxBusy, tx, fifo, cores, history
  <2>3. TxTypes'
    BY <2>1, <2>2 DEF Types, TxTypes
  <2> QED BY <2>2, <2>3 DEF Types, CoreTypes
<1>2. ASSUME NEW c \in Core, TimePasses(c) \/ TxTimeout \/ UNCHANGED vars
      PROVE  Types'
  <2>1. UNCHANGED <<frame, marking, nextTxSlot, txSlotBusy, net_fifo, memory, coreSlot, sending, mail, taken, count>>
    BY <1>2 DEF TimePasses, TxTimeout, vars, tx, fifo, cores, history
  <2> QED BY <2>1 DEF Types, TxTypes, CoreTypes
<1>3. 0 \in Core
  BY SizesAre DEF Core
<1>4. QED
  BY <1>1, <1>2, <1>3, TypesNewFrame, TypesTransmit, TypesMark, TypesArrive, TypesTakes,
     TypesStarts, TypesContinues, TypesRestart, TypesHandle DEF Next

-----------------------------------------------------------------------------
(***************************************************************************)
(* Sequences of chunks and of mails.                                       *)
(***************************************************************************)
LEMMA Joined ==
  ASSUME NEW S, NEW q \in Seq(S), NEW s \in Seq(S)
  PROVE  /\ Len(q \o s) = Len(q) + Len(s) /\ Len(q) \in Nat /\ Len(s) \in Nat
         /\ \A i \in 1 .. Len(q) : (q \o s)[i] = q[i]
         /\ \A k \in 1 .. Len(s) : (q \o s)[Len(q) + k] = s[k]
OBVIOUS

LEMMA Shifted ==
  ASSUME NEW S, NEW q \in Seq(S), q # <<>>
  PROVE  /\ Len(q) \in Nat /\ Len(q) >= 1 /\ Len(Tail(q)) = Len(q) - 1 /\ q[1] = Head(q)
         /\ Head(q) \in S /\ Tail(q) \in Seq(S)
         /\ \A i \in 1 .. Len(q) - 1 : Tail(q)[i] = q[i + 1] /\ i + 1 \in 2 .. Len(q)
         /\ \A i \in 2 .. Len(q) : Tail(q)[i - 1] = q[i] /\ i - 1 \in 1 .. Len(q) - 1
OBVIOUS

\* The chunks of other cores do not matter to a core,
LEMMA FifoAppended ==
  ASSUME NEW q \in Seq(Chunk), NEW s \in Seq(Chunk), NEW c \in Core,
         NEW m \in Nat, NEW z \in Nat, NEW N \in [Nat -> Nat], NEW mem,
         \A k \in 1 .. Len(s) : s[k].core # c, InFifo(q, c, m, z, N, mem)
  PROVE  InFifo(q \o s, c, m, z, N, mem)
<1> DEFINE r == q \o s
<1>1. /\ Len(r) \in Nat /\ Len(q) \in Nat /\ Len(r) >= Len(q)
      /\ \A i \in 1 .. Len(q) : i \in 1 .. Len(r) /\ r[i] = q[i]
      /\ \A i \in 1 .. Len(r) : FirstOf(r[i], c) \/ OthersOf(r[i], c) => i \in 1 .. Len(q)
  <2>1. /\ Len(r) = Len(q) + Len(s) /\ Len(q) \in Nat /\ Len(s) \in Nat
        /\ \A i \in 1 .. Len(q) : r[i] = q[i]
        /\ \A k \in 1 .. Len(s) : r[Len(q) + k] = s[k]
    BY Joined
  <2> HIDE DEF r
  <2>2. ASSUME NEW i \in 1 .. Len(r), i \notin 1 .. Len(q) PROVE r[i].core # c
    <3>1. PICK n \in Nat, l \in Nat : n = Len(q) /\ l = Len(s)
      BY <2>1
    <3>2. i \in 1 .. n + l /\ i \notin 1 .. n
      BY <2>1, <2>2, <3>1
    <3>3. i - n \in 1 .. l /\ i = n + (i - n)
      BY <3>2
    <3>4. PICK k \in 1 .. Len(s) : i = Len(q) + k
      BY <3>1, <3>3
    <3> QED BY <2>1, <3>4
  <2>3. Len(r) >= Len(q)
    BY <2>1
  <2>4. \A i \in 1 .. Len(q) : i \in 1 .. Len(r)
    BY <2>1
  <2>5. ASSUME NEW i \in 1 .. Len(r), FirstOf(r[i], c) \/ OthersOf(r[i], c) PROVE i \in 1 .. Len(q)
    <3>1. r[i].core = c
      BY <2>5 DEF FirstOf, OthersOf
    <3> QED BY <2>2, <3>1
  <2>6. Len(r) \in Nat
    BY <2>1
  <2> QED BY <2>1, <2>3, <2>4, <2>5, <2>6
<1> HIDE DEF r
<1>2. FirstLines(r, c, m, z, N)
  <2>1. /\ \A i \in 1 .. Len(q) : FirstOf(q[i], c) =>
             \E p \in m .. z - 1 : q[i].slot = At(p) /\ q[i].no = N[p]
        /\ \A p \in m .. z - 1 : \E i \in 1 .. Len(q) : FirstOf(q[i], c) /\ q[i].no = N[p]
        /\ \A i, j \in 1 .. Len(q) : i < j /\ FirstOf(q[i], c) /\ FirstOf(q[j], c) => q[i].no < q[j].no
    BY DEF InFifo, FirstLines
  <2>2. ASSUME NEW i \in 1 .. Len(r), FirstOf(r[i], c)
        PROVE  \E p \in m .. z - 1 : r[i].slot = At(p) /\ r[i].no = N[p]
    <3>1. i \in 1 .. Len(q) /\ r[i] = q[i]
      BY <1>1, <2>2
    <3> QED BY <2>1, <2>2, <3>1
  <2>3. \A p \in m .. z - 1 : \E i \in 1 .. Len(r) : FirstOf(r[i], c) /\ r[i].no = N[p]
    BY <1>1, <2>1
  <2>4. \A i, j \in 1 .. Len(r) : i < j /\ FirstOf(r[i], c) /\ FirstOf(r[j], c) => r[i].no < r[j].no
    BY <1>1, <2>1
  <2> QED BY <2>2, <2>3, <2>4 DEF FirstLines
<1>3. OtherLines(r, c, mem)
  <2>1. ASSUME NEW i \in 1 .. Len(r), OthersOf(r[i], c)
        PROVE  \E j \in i + 1 .. Len(r) : FirstOf(r[j], c) /\ Same(r[i], r[j])
    <3>1. i \in 1 .. Len(q) /\ r[i] = q[i]
      BY <1>1, <2>1
    <3>2. PICK j \in i + 1 .. Len(q) : FirstOf(q[j], c) /\ Same(q[i], q[j])
      BY <2>1, <3>1 DEF InFifo, OtherLines
    <3>3. j \in 1 .. Len(q) /\ j \in i + 1 .. Len(r)
      BY <1>1, <3>1
    <3> QED BY <1>1, <3>1, <3>2, <3>3
  <2>2. ASSUME NEW i \in 1 .. Len(r), FirstOf(r[i], c)
        PROVE  \/ mem[r[i].slot].others = r[i].no
               \/ \E j \in 1 .. i - 1 : OthersOf(r[j], c) /\ Same(r[i], r[j])
    <3>1. i \in 1 .. Len(q) /\ r[i] = q[i]
      BY <1>1, <2>2
    <3>2. \/ mem[q[i].slot].others = q[i].no
          \/ \E j \in 1 .. i - 1 : OthersOf(q[j], c) /\ Same(q[i], q[j])
      BY <2>2, <3>1 DEF InFifo, OtherLines
    <3>3. \A j \in 1 .. i - 1 : j \in 1 .. Len(q)
      BY <1>1, <3>1
    <3> QED BY <1>1, <3>1, <3>2, <3>3
  <2> QED BY <2>1, <2>2 DEF OtherLines
<1>4. QED
  BY <1>2, <1>3 DEF InFifo, r

\* nor does it matter when the first of net_fifo has been taken, if it is not a
\* line for the core.
LEMMA FifoShifted ==
  ASSUME NEW q \in Seq(Chunk), q # <<>>, NEW c \in Core,
         NEW m \in Nat, NEW z \in Nat, NEW N \in [Nat -> Nat], NEW mem,
         ~FirstOf(Head(q), c), ~OthersOf(Head(q), c), InFifo(q, c, m, z, N, mem)
  PROVE  InFifo(Tail(q), c, m, z, N, mem)
<1> DEFINE r == Tail(q)
<1>1. /\ Len(q) \in Nat /\ Len(q) >= 1 /\ Len(r) = Len(q) - 1 /\ q[1] = Head(q)
      /\ \A i \in 1 .. Len(r) : r[i] = q[i + 1] /\ i + 1 \in 1 .. Len(q)
      /\ \A i \in 1 .. Len(q) : FirstOf(q[i], c) \/ OthersOf(q[i], c) =>
           i - 1 \in 1 .. Len(r) /\ r[i - 1] = q[i]
  <2>1. /\ Len(q) \in Nat /\ Len(q) >= 1 /\ Len(r) = Len(q) - 1 /\ q[1] = Head(q)
        /\ \A i \in 1 .. Len(q) - 1 : r[i] = q[i + 1] /\ i + 1 \in 2 .. Len(q)
        /\ \A i \in 2 .. Len(q) : r[i - 1] = q[i] /\ i - 1 \in 1 .. Len(q) - 1
    BY Shifted
  <2> HIDE DEF r
  <2>2. \A i \in 1 .. Len(r) : r[i] = q[i + 1] /\ i + 1 \in 1 .. Len(q)
    BY <2>1
  <2>3. ASSUME NEW i \in 1 .. Len(q), FirstOf(q[i], c) \/ OthersOf(q[i], c)
        PROVE  i - 1 \in 1 .. Len(r) /\ r[i - 1] = q[i]
    <3>1. i # 1
      BY <2>1, <2>3
    <3> QED BY <2>1, <3>1
  <2> QED BY <2>1, <2>2, <2>3
<1> HIDE DEF r
<1>2. FirstLines(r, c, m, z, N)
  <2>1. /\ \A i \in 1 .. Len(q) : FirstOf(q[i], c) =>
             \E p \in m .. z - 1 : q[i].slot = At(p) /\ q[i].no = N[p]
        /\ \A p \in m .. z - 1 : \E i \in 1 .. Len(q) : FirstOf(q[i], c) /\ q[i].no = N[p]
        /\ \A i, j \in 1 .. Len(q) : i < j /\ FirstOf(q[i], c) /\ FirstOf(q[j], c) => q[i].no < q[j].no
    BY DEF InFifo, FirstLines
  <2>2. ASSUME NEW i \in 1 .. Len(r), FirstOf(r[i], c)
        PROVE  \E p \in m .. z - 1 : r[i].slot = At(p) /\ r[i].no = N[p]
    <3>1. i + 1 \in 1 .. Len(q) /\ r[i] = q[i + 1]
      BY <1>1, <2>2
    <3>2. PICK k \in 1 .. Len(q) : k = i + 1
      BY <3>1
    <3> QED BY <2>1, <2>2, <3>1, <3>2
  <2>3. ASSUME NEW p \in m .. z - 1
        PROVE  \E i \in 1 .. Len(r) : FirstOf(r[i], c) /\ r[i].no = N[p]
    <3>1. PICK i \in 1 .. Len(q) : FirstOf(q[i], c) /\ q[i].no = N[p]
      BY <2>1
    <3>2. i - 1 \in 1 .. Len(r) /\ r[i - 1] = q[i]
      BY <1>1, <3>1
    <3> QED BY <3>1, <3>2
  <2>4. ASSUME NEW i \in 1 .. Len(r), NEW j \in 1 .. Len(r), i < j, FirstOf(r[i], c), FirstOf(r[j], c)
        PROVE  r[i].no < r[j].no
    <3>1. i + 1 \in 1 .. Len(q) /\ r[i] = q[i + 1] /\ j + 1 \in 1 .. Len(q) /\ r[j] = q[j + 1]
      BY <1>1, <2>4
    <3>3. i + 1 < j + 1
      BY <1>1, <2>4
    <3>2. PICK k, n \in 1 .. Len(q) : k = i + 1 /\ n = j + 1
      BY <3>1
    <3> QED BY <2>1, <2>4, <3>1, <3>2, <3>3
  <2> QED BY <2>2, <2>3, <2>4 DEF FirstLines
<1>3. OtherLines(r, c, mem)
  <2>1. ASSUME NEW i \in 1 .. Len(r), OthersOf(r[i], c)
        PROVE  \E j \in i + 1 .. Len(r) : FirstOf(r[j], c) /\ Same(r[i], r[j])
    <3>1. i + 1 \in 1 .. Len(q) /\ r[i] = q[i + 1]
      BY <1>1, <2>1
    <3>2. PICK j \in (i + 1) + 1 .. Len(q) : FirstOf(q[j], c) /\ Same(q[i + 1], q[j])
      BY <2>1, <3>1 DEF InFifo, OtherLines
    <3>3. j \in 1 .. Len(q) /\ j - 1 \in i + 1 .. Len(r) /\ r[j - 1] = q[j]
      BY <1>1, <3>1, <3>2
    <3> QED BY <3>1, <3>2, <3>3
  <2>2. ASSUME NEW i \in 1 .. Len(r), FirstOf(r[i], c)
        PROVE  \/ mem[r[i].slot].others = r[i].no
               \/ \E j \in 1 .. i - 1 : OthersOf(r[j], c) /\ Same(r[i], r[j])
    <3>1. i + 1 \in 1 .. Len(q) /\ r[i] = q[i + 1]
      BY <1>1, <2>2
    <3>2. \/ mem[q[i + 1].slot].others = q[i + 1].no
          \/ \E j \in 1 .. (i + 1) - 1 : OthersOf(q[j], c) /\ Same(q[i + 1], q[j])
      BY <2>2, <3>1 DEF InFifo, OtherLines
    <3>3. ASSUME NEW j \in 1 .. (i + 1) - 1, OthersOf(q[j], c)
          PROVE  j - 1 \in 1 .. i - 1 /\ r[j - 1] = q[j]
      <4>1. j \in 1 .. Len(q)
        BY <1>1, <3>1
      <4>2. j - 1 \in 1 .. Len(r) /\ r[j - 1] = q[j]
        BY <1>1, <3>3, <4>1
      <4> QED BY <4>1, <4>2
    <3> QED BY <3>1, <3>2, <3>3
  <2> QED BY <2>1, <2>2 DEF OtherLines
<1>4. QED
  BY <1>2, <1>3 DEF InFifo, r

\* What the mailbox of a core says of its slots, and how that changes.
LEMMA BootingIs == ASSUME NEW c \in Core PROVE Booting(c) <=> Boots(mail[c])
BY DEF Booting, Boots, IsConfig

LEMMA BootingWas == ASSUME NEW c \in Core PROVE Booting(c)' <=> Boots(mail'[c])
BY DEF Booting, Boots, IsConfig

LEMMA DoneIs ==
  ASSUME NEW s \in Slot
  PROVE  /\ Done(s) \in Mail /\ IsDone(Done(s)) /\ ~IsConfig(Done(s)) /\ Done(s).arg = s
         /\ Config(s) \in Mail /\ IsConfig(Config(s)) /\ ~IsDone(Config(s)) /\ Config(s).arg = s
         /\ \A r \in Slot : Done(s) = Done(r) => s = r
BY DEF Done, Config, IsDone, IsConfig, Mail

LEMMA IsWhich ==
  ASSUME NEW x \in Mail
  PROVE  /\ IsDone(x) => x = Done(x.arg) /\ x.arg \in Slot /\ ~IsConfig(x)
         /\ IsConfig(x) => x = Config(x.arg) /\ x.arg \in Slot /\ ~IsDone(x)
BY MailIs DEF Done, Config, IsDone, IsConfig

LEMMA Longer ==
  ASSUME NEW S, NEW v \in Seq(S), NEW x \in S
  PROVE  LET w == Append(v, x) IN
         /\ w \in Seq(S) /\ Len(v) \in Nat /\ Len(w) = Len(v) + 1 /\ w[Len(v) + 1] = x
         /\ \A i \in 1 .. Len(v) : w[i] = v[i]
         /\ \A i \in 1 .. Len(w) : i = Len(v) + 1 \/ i \in 1 .. Len(v)
OBVIOUS

LEMMA MailAppended ==
  ASSUME NEW v \in Seq(Mail), NEW x \in Mail, NEW s \in Slot, ~IsConfig(x), ~IsDone(x)
  PROVE  LET w == Append(v, x) IN
         /\ (Boots(w) <=> Boots(v)) /\ Returned(w) = Returned(v)
         /\ (ToldOnce(v) => ToldOnce(w)) /\ (Announced(v, s) => Announced(w, s))
<1> DEFINE w == Append(v, x)
<1>1. /\ Len(v) \in Nat /\ Len(w) = Len(v) + 1 /\ w[Len(v) + 1] = x
      /\ \A i \in 1 .. Len(v) : w[i] = v[i]
      /\ \A i \in 1 .. Len(w) : i = Len(v) + 1 \/ i \in 1 .. Len(v)
  BY Longer
<1> HIDE DEF w
<1>2. \A i \in 1 .. Len(w) : IsConfig(w[i]) \/ IsDone(w[i]) => i \in 1 .. Len(v)
  BY <1>1
<1>3. \A i \in 1 .. Len(v) : i \in 1 .. Len(w)
  BY <1>1
<1>4. Boots(w) <=> Boots(v)
  BY <1>1, <1>2, <1>3 DEF Boots
<1>5. Returned(w) = Returned(v)
  <2>1. ASSUME NEW r \in Slot
        PROVE  (\E i \in 1 .. Len(w) : w[i] = Done(r)) <=> (\E i \in 1 .. Len(v) : v[i] = Done(r))
    <3>1. IsDone(Done(r))
      BY DoneIs
    <3> QED BY <1>1, <1>2, <1>3, <3>1
  <2> QED BY <2>1 DEF Returned
<1>6. ASSUME ToldOnce(v) PROVE ToldOnce(w)
  <2>1. ASSUME NEW i \in 1 .. Len(w), NEW j \in 1 .. Len(w), IsDone(w[i]), w[i] = w[j]
        PROVE  i = j
    <3>1. i \in 1 .. Len(v) /\ j \in 1 .. Len(v)
      BY <1>2, <2>1
    <3> QED BY <1>1, <1>6, <2>1, <3>1 DEF ToldOnce
  <2> QED BY <2>1 DEF ToldOnce
<1>7. ASSUME Announced(v, s) PROVE Announced(w, s)
  <2>1. PICK i \in 1 .. Len(v) : /\ v[i] = Config(s)
                                 /\ \A j \in i + 1 .. Len(v) : ~IsConfig(v[j]) /\ ~IsDone(v[j])
    BY <1>7 DEF Announced
  <2>2. ASSUME NEW j \in i + 1 .. Len(w) PROVE ~IsConfig(w[j]) /\ ~IsDone(w[j])
    <3>1. j \in 1 .. Len(w)
      BY <1>1, <2>1
    <3>2. CASE j \in 1 .. Len(v)
      <4>1. j \in i + 1 .. Len(v)
        BY <2>2, <3>2
      <4> QED BY <1>1, <2>1, <3>2, <4>1
    <3> QED BY <1>2, <3>1, <3>2
  <2>3. i \in 1 .. Len(w) /\ w[i] = Config(s)
    BY <1>1, <1>3, <2>1
  <2> QED BY <2>2, <2>3 DEF Announced
<1>8. QED
  BY <1>4, <1>5, <1>6, <1>7 DEF w

LEMMA DoneAppended ==
  ASSUME NEW v \in Seq(Mail), NEW s \in Slot, s \notin Returned(v), ToldOnce(v)
  PROVE  LET w == Append(v, Done(s)) IN
         (Boots(w) <=> Boots(v)) /\ Returned(w) = Returned(v) \cup {s} /\ ToldOnce(w)
<1> DEFINE w == Append(v, Done(s))
<1>0. Done(s) \in Mail /\ IsDone(Done(s)) /\ ~IsConfig(Done(s))
  BY DoneIs
<1>1. /\ Len(v) \in Nat /\ Len(w) = Len(v) + 1 /\ w[Len(v) + 1] = Done(s)
      /\ \A i \in 1 .. Len(v) : w[i] = v[i]
      /\ \A i \in 1 .. Len(w) : i = Len(v) + 1 \/ i \in 1 .. Len(v)
  BY <1>0, Longer
<1> HIDE DEF w
<1>2. \A i \in 1 .. Len(v) : i \in 1 .. Len(w)
  BY <1>1
<1>3. Len(v) + 1 \in 1 .. Len(w)
  BY <1>1
<1>4. Boots(w) <=> Boots(v)
  BY <1>0, <1>1, <1>2 DEF Boots
<1>5. Returned(w) = Returned(v) \cup {s}
  <2>1. ASSUME NEW r \in Slot
        PROVE  (\E i \in 1 .. Len(w) : w[i] = Done(r)) <=> (r = s \/ \E i \in 1 .. Len(v) : v[i] = Done(r))
    <3>1. Done(s) = Done(r) => s = r
      BY DoneIs
    <3> QED BY <1>1, <1>2, <1>3, <3>1
  <2> QED BY <2>1 DEF Returned
<1>6. ToldOnce(w)
  <2>1. \A i \in 1 .. Len(v) : v[i] # Done(s)
    BY DEF Returned
  <2>2. ASSUME NEW i \in 1 .. Len(w), NEW j \in 1 .. Len(w), IsDone(w[i]), w[i] = w[j]
        PROVE  i = j
    BY <1>1, <2>1, <2>2 DEF ToldOnce
  <2> QED BY <2>2 DEF ToldOnce
<1>7. QED
  BY <1>4, <1>5, <1>6 DEF w

LEMMA ConfigAppended ==
  ASSUME NEW v \in Seq(Mail), NEW s \in Slot
  PROVE  LET w == Append(v, Config(s)) IN Boots(w) /\ Announced(w, s)
<1> DEFINE w == Append(v, Config(s))
<1>0. Config(s) \in Mail /\ IsConfig(Config(s))
  BY DoneIs
<1>1. Len(v) \in Nat /\ Len(w) = Len(v) + 1 /\ w[Len(v) + 1] = Config(s)
  BY <1>0, Longer
<1> HIDE DEF w
<1>2. Len(v) + 1 \in 1 .. Len(w) /\ \A j \in (Len(v) + 1) + 1 .. Len(w) : FALSE
  BY <1>1
<1>3. QED
  BY <1>0, <1>1, <1>2 DEF Boots, Announced, w

LEMMA Shorter ==
  ASSUME NEW v \in Seq(Mail), v # <<>>
  PROVE  LET w == Tail(v) IN
         /\ w \in Seq(Mail) /\ Len(w) \in Nat /\ Len(v) = Len(w) + 1
         /\ v[1] = Head(v) /\ Head(v) \in Mail
         /\ \A i \in 1 .. Len(w) : w[i] = v[i + 1] /\ i + 1 \in 1 .. Len(v)
         /\ \A i \in 1 .. Len(v) : i = 1 \/ (i - 1 \in 1 .. Len(w) /\ w[i - 1] = v[i])
<1>1. /\ Tail(v) \in Seq(Mail) /\ Len(v) \in Nat /\ Len(v) >= 1 /\ Len(Tail(v)) = Len(v) - 1
      /\ v[1] = Head(v) /\ Head(v) \in Mail
      /\ \A i \in 1 .. Len(v) - 1 : Tail(v)[i] = v[i + 1] /\ i + 1 \in 2 .. Len(v)
      /\ \A i \in 2 .. Len(v) : Tail(v)[i - 1] = v[i] /\ i - 1 \in 1 .. Len(v) - 1
  BY Shifted
<1>2. QED
  BY <1>1

LEMMA OnceShifted ==
  ASSUME NEW v \in Seq(Mail), v # <<>>, ToldOnce(v)
  PROVE  ToldOnce(Tail(v))
<1> DEFINE w == Tail(v)
<1>1. \A i \in 1 .. Len(w) : w[i] = v[i + 1] /\ i + 1 \in 1 .. Len(v)
  BY Shorter
<1> HIDE DEF w
<1>2. ASSUME NEW i \in 1 .. Len(w), NEW j \in 1 .. Len(w), IsDone(w[i]), w[i] = w[j]
      PROVE  i = j
  <2>1. i + 1 \in 1 .. Len(v) /\ j + 1 \in 1 .. Len(v) /\ IsDone(v[i + 1]) /\ v[i + 1] = v[j + 1]
    BY <1>1, <1>2
  <2>2. i + 1 = j + 1
    BY <2>1 DEF ToldOnce
  <2> QED BY <2>2
<1>3. QED
  BY <1>2 DEF ToldOnce, w

LEMMA AnnouncedShifted ==
  ASSUME NEW v \in Seq(Mail), v # <<>>, NEW s \in Slot, Announced(v, s),
         ~IsConfig(Head(v)) \/ Boots(Tail(v))
  PROVE  Announced(Tail(v), s)
<1> DEFINE w == Tail(v)
<1>1. /\ Len(w) \in Nat /\ Len(v) = Len(w) + 1 /\ v[1] = Head(v)
      /\ \A i \in 1 .. Len(w) : w[i] = v[i + 1] /\ i + 1 \in 1 .. Len(v)
      /\ \A i \in 1 .. Len(v) : i = 1 \/ (i - 1 \in 1 .. Len(w) /\ w[i - 1] = v[i])
  BY Shorter
<1> HIDE DEF w
<1>2. PICK i \in 1 .. Len(v) : /\ v[i] = Config(s)
                               /\ \A j \in i + 1 .. Len(v) : ~IsConfig(v[j]) /\ ~IsDone(v[j])
  BY DEF Announced
<1>3. i # 1
  <2> SUFFICES ASSUME i = 1 PROVE FALSE
    OBVIOUS
  <2>1. IsConfig(Head(v))
    BY <1>1, <1>2, DoneIs
  <2>2. PICK k \in 1 .. Len(w) : IsConfig(w[k])
    BY <2>1 DEF Boots, w
  <2>3. k + 1 \in i + 1 .. Len(v) /\ w[k] = v[k + 1]
    BY <1>1
  <2> QED BY <1>2, <2>2, <2>3
<1>4. i - 1 \in 1 .. Len(w) /\ w[i - 1] = Config(s)
  BY <1>1, <1>2, <1>3
<1>5. ASSUME NEW j \in (i - 1) + 1 .. Len(w) PROVE ~IsConfig(w[j]) /\ ~IsDone(w[j])
  <2>1. j \in 1 .. Len(w) /\ j + 1 \in i + 1 .. Len(v)
    BY <1>1, <1>3
  <2>2. w[j] = v[j + 1]
    BY <1>1, <2>1
  <2> QED BY <1>2, <2>1, <2>2
<1>6. QED
  BY <1>4, <1>5 DEF Announced, w

LEMMA BootsShifted ==
  ASSUME NEW v \in Seq(Mail), v # <<>>, ~IsConfig(Head(v))
  PROVE  Boots(Tail(v)) <=> Boots(v)
<1> DEFINE w == Tail(v)
<1>1. /\ v[1] = Head(v)
      /\ \A i \in 1 .. Len(w) : w[i] = v[i + 1] /\ i + 1 \in 1 .. Len(v)
      /\ \A i \in 1 .. Len(v) : i = 1 \/ (i - 1 \in 1 .. Len(w) /\ w[i - 1] = v[i])
  BY Shorter
<1> HIDE DEF w
<1>2. Boots(w) => Boots(v)
  BY <1>1 DEF Boots
<1>3. Boots(v) => Boots(w)
  BY <1>1 DEF Boots
<1>4. QED
  BY <1>2, <1>3 DEF w

LEMMA ReturnedShifted ==
  ASSUME NEW v \in Seq(Mail), v # <<>>
  PROVE  /\ Returned(Tail(v)) \subseteq Returned(v)
         /\ \A r \in Returned(v) : Head(v) = Done(r) \/ r \in Returned(Tail(v))
         /\ \A r \in Slot : ToldOnce(v) /\ Head(v) = Done(r) => r \notin Returned(Tail(v))
<1> DEFINE w == Tail(v)
<1>1. /\ Len(w) \in Nat /\ Len(v) = Len(w) + 1 /\ v[1] = Head(v)
      /\ \A i \in 1 .. Len(w) : w[i] = v[i + 1] /\ i + 1 \in 1 .. Len(v)
      /\ \A i \in 1 .. Len(v) : i = 1 \/ (i - 1 \in 1 .. Len(w) /\ w[i - 1] = v[i])
  BY Shorter
<1> HIDE DEF w
<1>2. Returned(w) \subseteq Returned(v)
  BY <1>1 DEF Returned
<1>3. \A r \in Returned(v) : Head(v) = Done(r) \/ r \in Returned(w)
  BY <1>1 DEF Returned
<1>4. ASSUME NEW r \in Slot, ToldOnce(v), Head(v) = Done(r), r \in Returned(w) PROVE FALSE
  <2>1. PICK k \in 1 .. Len(w) : w[k] = Done(r)
    BY <1>4 DEF Returned
  <2>2. k + 1 \in 1 .. Len(v) /\ v[k + 1] = v[1] /\ 1 \in 1 .. Len(v) /\ IsDone(v[1])
    BY <1>1, <1>4, <2>1, DoneIs
  <2>3. k + 1 = 1
    BY <1>4, <2>2 DEF ToldOnce
  <2> QED BY <2>3
<1>5. QED
  BY <1>2, <1>3, <1>4 DEF w

\* When the last announcement of a restart has been handled.
LEMMA ConfigShifted ==
  ASSUME NEW v \in Seq(Mail), v # <<>>, NEW s \in Slot, Announced(v, s), ~Boots(Tail(v))
  PROVE  Head(v) = Config(s) /\ Returned(Tail(v)) = {} /\ ToldOnce(Tail(v))
<1> DEFINE w == Tail(v)
<1>1. /\ Len(w) \in Nat /\ Len(v) = Len(w) + 1 /\ v[1] = Head(v)
      /\ \A i \in 1 .. Len(w) : w[i] = v[i + 1] /\ i + 1 \in 1 .. Len(v)
      /\ \A i \in 1 .. Len(v) : i = 1 \/ (i - 1 \in 1 .. Len(w) /\ w[i - 1] = v[i])
  BY Shorter
<1> HIDE DEF w
<1>2. PICK i \in 1 .. Len(v) : /\ v[i] = Config(s)
                               /\ \A j \in i + 1 .. Len(v) : ~IsConfig(v[j]) /\ ~IsDone(v[j])
  BY DEF Announced
<1>3. i = 1
  <2> SUFFICES ASSUME i # 1 PROVE FALSE
    OBVIOUS
  <2>1. i - 1 \in 1 .. Len(w) /\ w[i - 1] = Config(s)
    BY <1>1, <1>2
  <2>2. IsConfig(Config(s))
    BY DoneIs
  <2>3. Boots(w)
    BY <2>1, <2>2 DEF Boots
  <2> QED BY <2>3 DEF w
<1>4. ASSUME NEW j \in 1 .. Len(w) PROVE ~IsDone(w[j])
  <2>1. j + 1 \in i + 1 .. Len(v) /\ w[j] = v[j + 1]
    BY <1>1, <1>3
  <2> QED BY <1>2, <2>1
<1>5. Returned(w) = {}
  <2>1. ASSUME NEW r \in Slot, NEW j \in 1 .. Len(w), w[j] = Done(r) PROVE FALSE
    BY <1>4, <2>1, DoneIs
  <2> QED BY <2>1 DEF Returned
<1>6. ToldOnce(w)
  BY <1>4 DEF ToldOnce
<1>7. QED
  BY <1>1, <1>2, <1>3, <1>5, <1>6 DEF w

-----------------------------------------------------------------------------
(***************************************************************************)
(* What happens to the others does not matter to a core.                   *)
(***************************************************************************)
SlotsKept(d) == /\ memory'[d] = memory[d] /\ coreSlot'[d] = coreSlot[d]
                /\ nextTxSlot'[d] = nextTxSlot[d] /\ txSlotBusy'[d] = txSlotBusy[d]
HistoryKept(d) == taken'[d] = taken[d] /\ count'.to[d] = count.to[d] /\ gone \subseteq gone'
FrameKept(d) == /\ (frame'.core = d <=> frame.core = d) /\ (frame.core = d => frame'.no = frame.no)
                /\ (marking' = d <=> marking = d)
FifoKept(d) == \/ net_fifo' = net_fifo
               \/ \E s \in Seq(Chunk) : net_fifo' = net_fifo \o s /\ \A k \in 1 .. Len(s) : s[k].core # d
               \/ /\ net_fifo # <<>> /\ net_fifo' = Tail(net_fifo)
                  /\ ~FirstOf(Head(net_fifo), d) /\ ~OthersOf(Head(net_fifo), d)
Unrelated(x) == ~IsConfig(x) /\ ~IsDone(x)
MailKept(d) == \/ mail'[d] = mail[d]
               \/ \E x \in Mail : Unrelated(x) /\ mail'[d] = Append(mail[d], x)
               \/ mail[d] # <<>> /\ Unrelated(Head(mail[d])) /\ mail'[d] = Tail(mail[d])

LEMMA FifoStays ==
  ASSUME Types, NEW d \in Core, FifoKept(d)
  PROVE  /\ \A m, z \in Nat : \A N \in [Nat -> Nat] : \A mem :
              InFifo(net_fifo, d, m, z, N, mem) => InFifo(net_fifo', d, m, z, N, mem)
         /\ (\A i \in 1 .. Len(net_fifo) : net_fifo[i].core # d)
              => \A i \in 1 .. Len(net_fifo') : net_fifo'[i].core # d
<1>1. net_fifo \in Seq(Chunk)
  BY DEF Types, TxTypes
<1>2. CASE net_fifo' = net_fifo
  BY <1>2
<1>3. ASSUME NEW s \in Seq(Chunk), net_fifo' = net_fifo \o s, \A k \in 1 .. Len(s) : s[k].core # d
      PROVE  /\ \A m, z \in Nat : \A N \in [Nat -> Nat] : \A mem :
                  InFifo(net_fifo, d, m, z, N, mem) => InFifo(net_fifo', d, m, z, N, mem)
             /\ (\A i \in 1 .. Len(net_fifo) : net_fifo[i].core # d)
                  => \A i \in 1 .. Len(net_fifo') : net_fifo'[i].core # d
  <2>1. \A m, z \in Nat : \A N \in [Nat -> Nat] : \A mem :
          InFifo(net_fifo, d, m, z, N, mem) => InFifo(net_fifo', d, m, z, N, mem)
    BY <1>1, <1>3, FifoAppended
  <2>2. ASSUME \A i \in 1 .. Len(net_fifo) : net_fifo[i].core # d,
               NEW i \in 1 .. Len(net_fifo')
        PROVE  net_fifo'[i].core # d
    <3>1. PICK q \in Seq(Chunk) : q = net_fifo
      BY <1>1
    <3>2. i \in 1 .. Len(q) + Len(s) /\ Len(q) \in Nat /\ Len(s) \in Nat
      BY <1>3, <2>2, <3>1
    <3>3. CASE i \in 1 .. Len(q)
      <4>1. (q \o s)[i] = q[i]
        BY <3>3, Joined
      <4> QED BY <1>3, <2>2, <3>1, <3>3, <4>1
    <3>4. CASE i - Len(q) \in 1 .. Len(s)
      <4>1. (q \o s)[Len(q) + (i - Len(q))] = s[i - Len(q)]
        BY <3>4, Joined
      <4>2. Len(q) + (i - Len(q)) = i
        BY <3>2
      <4> QED BY <1>3, <3>1, <3>4, <4>1, <4>2
    <3> QED BY <3>2, <3>3, <3>4
  <2> QED BY <2>1, <2>2
<1>4. CASE /\ net_fifo # <<>> /\ net_fifo' = Tail(net_fifo)
           /\ ~FirstOf(Head(net_fifo), d) /\ ~OthersOf(Head(net_fifo), d)
  <2>1. \A m, z \in Nat : \A N \in [Nat -> Nat] : \A mem :
          InFifo(net_fifo, d, m, z, N, mem) => InFifo(net_fifo', d, m, z, N, mem)
    BY <1>1, <1>4, FifoShifted
  <2>2. (\A i \in 1 .. Len(net_fifo) : net_fifo[i].core # d)
                  => \A i \in 1 .. Len(net_fifo') : net_fifo'[i].core # d
    BY <1>1, <1>4
  <2> QED BY <2>1, <2>2
<1>5. QED
  BY <1>2, <1>3, <1>4 DEF FifoKept

LEMMA MailStays ==
  ASSUME Types, NEW d \in Core, MailKept(d)
  PROVE  /\ (Boots(mail'[d]) <=> Boots(mail[d])) /\ Returned(mail'[d]) = Returned(mail[d])
         /\ (ToldOnce(mail[d]) => ToldOnce(mail'[d]))
         /\ \A s \in Slot : Announced(mail[d], s) => Announced(mail'[d], s)
<1>1. mail[d] \in Seq(Mail)
  BY DEF Types, CoreTypes
<1>2. CASE mail'[d] = mail[d]
  BY <1>2
<1>3. ASSUME NEW x \in Mail, Unrelated(x), mail'[d] = Append(mail[d], x)
      PROVE  /\ (Boots(mail'[d]) <=> Boots(mail[d])) /\ Returned(mail'[d]) = Returned(mail[d])
             /\ (ToldOnce(mail[d]) => ToldOnce(mail'[d]))
             /\ \A s \in Slot : Announced(mail[d], s) => Announced(mail'[d], s)
  BY <1>1, <1>3, MailAppended, SizesAre DEF Unrelated
<1>4. CASE mail[d] # <<>> /\ Unrelated(Head(mail[d])) /\ mail'[d] = Tail(mail[d])
  <2>1. Boots(mail'[d]) <=> Boots(mail[d])
    BY <1>1, <1>4, BootsShifted DEF Unrelated
  <2>2. Returned(mail'[d]) = Returned(mail[d])
    <3>1. \A r \in Slot : Head(mail[d]) # Done(r)
      BY <1>4, DoneIs DEF Unrelated
    <3>2. \A r \in Returned(mail[d]) : r \in Slot
      BY DEF Returned
    <3>3. /\ Returned(Tail(mail[d])) \subseteq Returned(mail[d])
          /\ \A r \in Returned(mail[d]) : Head(mail[d]) = Done(r) \/ r \in Returned(Tail(mail[d]))
      BY <1>1, <1>4, ReturnedShifted
    <3>4. Returned(Tail(mail[d])) = Returned(mail[d])
      BY <3>1, <3>2, <3>3
    <3> QED BY <1>4, <3>4
  <2>3. ToldOnce(mail[d]) => ToldOnce(mail'[d])
    BY <1>1, <1>4, OnceShifted
  <2>4. \A s \in Slot : Announced(mail[d], s) => Announced(mail'[d], s)
    BY <1>1, <1>4, AnnouncedShifted DEF Unrelated
  <2> QED BY <2>1, <2>2, <2>3, <2>4
<1>5. QED
  BY <1>2, <1>3, <1>4 DEF MailKept

LEMMA TakenStays ==
  ASSUME NEW d \in Core, taken'[d] = taken[d], gone \subseteq gone'
  PROVE  LastTaken(d)' = LastTaken(d) /\ (TakenInOrder(d) => TakenInOrder(d)')
<1>1. LastTaken(d)' = LastTaken(d)
  BY DEF LastTaken
<1>2. ASSUME TakenInOrder(d) PROVE TakenInOrder(d)'
  BY <1>2 DEF TakenInOrder, InTurn
<1>3. QED
  BY <1>1, <1>2

LEMMA Locality ==
  ASSUME Types, NEW d \in Core, SlotsKept(d), HistoryKept(d), FrameKept(d), FifoKept(d), MailKept(d),
         CoreInv(d)
  PROVE  CoreInv(d)'
<1>1. LastTaken(d)' = LastTaken(d) /\ (TakenInOrder(d) => TakenInOrder(d)')
  BY TakenStays DEF HistoryKept
<1>2. Booting(d)' <=> Booting(d)
  BY BootingIs, BootingWas, MailStays
<1>3. ASSUME Restarted(d) PROVE Restarted(d)'
  <2>1. Announced(mail'[d], coreSlot[d])
    BY <1>3, MailStays DEF Restarted, Types, CoreTypes
  <2>2. \A i \in 1 .. Len(net_fifo') : net_fifo'[i].core # d
    BY <1>3, FifoStays DEF Restarted
  <2>3. \A s \in Slot : memory'[d][s].first = 0
    BY <1>3 DEF Restarted, SlotsKept
  <2>4. frame'.core # d /\ marking' # d
    BY <1>3 DEF Restarted, FrameKept
  <2>5. \A k \in 1 .. count'.to[d] : k <= LastTaken(d)' \/ <<d, k>> \in gone'
    BY <1>1, <1>3 DEF Restarted, HistoryKept
  <2> QED BY <2>1, <2>2, <2>3, <2>4, <2>5 DEF Restarted, SlotsKept
<1>4. ASSUME UnderWay(d) PROVE UnderWay(d)'
  <2>1. PICK a \in Nat, m \in Nat, z \in Nat, N \in [Nat -> Nat] : Way(d, a, m, z, N)
    BY <1>4 DEF UnderWay
  <2>2. InFifo(net_fifo', d, m, z, N, memory'[d])
    BY <2>1, FifoStays DEF Way, SlotsKept
  <2>3. InMemory(memory'[d], a, m, N)
    BY <2>1 DEF Way, SlotsKept
  <2>4. Rising(d, a, z, N)'
    BY <1>1, <2>1 DEF Way, Rising, HistoryKept, FrameKept
  <2>5. NoneMissing(d, a, z, N)'
    BY <1>1, <2>1 DEF Way, NoneMissing, HistoryKept, FrameKept
  <2>6. Given(d, a, z)'
    BY <2>1, MailStays DEF Way, Given
  <2>7. InStep(d, a, z)'
    BY <2>1, MailStays DEF Way, InStep, Owed, SlotsKept, FrameKept
  <2>8. Way(d, a, m, z, N)'
    BY <2>1, <2>2, <2>3, <2>4, <2>5, <2>6, <2>7 DEF Way
  <2> QED BY <2>8 DEF UnderWay
<1>5. LastTaken(d)' <= count'.to[d]
  BY <1>1 DEF CoreInv, HistoryKept
<1>6. QED
  BY <1>1, <1>2, <1>3, <1>4, <1>5 DEF CoreInv

-----------------------------------------------------------------------------
(***************************************************************************)
(* The transmission of frames.                                             *)
(***************************************************************************)
LEMMA Parted ==
  ASSUME SlotInv
  PROVE  Types /\ Offered /\ \A c \in Core : CoreInv(c) /\ LastTaken(c) \in Nat
<1>1. ASSUME NEW c \in Core PROVE LastTaken(c) \in Nat
  <2>1. taken[c] \in Seq(Held)
    BY DEF SlotInv, CoreTypes
  <2>2. CASE taken[c] = <<>>
    BY <2>2 DEF LastTaken
  <2>3. CASE taken[c] # <<>>
    <3>1. taken[c][Len(taken[c])] \in Held
      BY <2>1, <2>3
    <3> QED BY <2>3, <3>1 DEF LastTaken, Held
  <2> QED BY <2>2, <2>3
<1>2. QED
  BY <1>1 DEF SlotInv, Types

LEMMA OfferedStep ==
  ASSUME SlotInv, [Next]_vars PROVE Offered'
<1> USE DEF Offered
<1>0. Types /\ Offered /\ frame.core \in {-1} \cup Core /\ -1 \notin Core
  BY Parted, SizesAre DEF Types, TxTypes
<1>1. ASSUME NEW ip \in Ips, NewFrame(ip) PROVE Offered'
  <2> DEFINE c == DestIp(ip) - 1
  <2>1. marking' = marking /\ marking = -1
    BY <1>1 DEF NewFrame
  <2>2. CASE c \in Core
    <3>1. frame' = [ip |-> ip, core |-> c, no |-> count.to[c] + 1]
          /\ count' = [count EXCEPT !.to[c] = @ + 1]
      BY <1>1, <2>2 DEF NewFrame
    <3>2. ~Illegal(DestIp(ip))
      <4>1. PICK n \in Int : n = DestIp(ip)
        BY DestIpIs
      <4>2. n - 1 \in 0 .. CORES - 1
        BY <2>2, <4>1 DEF Core
      <4> QED BY <4>1, <4>2, SizesAre DEF Illegal
    <3> HIDE DEF c
    <3>3. CoreTypes /\ count.to[c] \in Nat
      BY <1>0, <2>2 DEF Types, CoreTypes
    <3>4. count'.to = [count.to EXCEPT ![c] = count.to[c] + 1] /\ count.to \in [Core -> Nat]
      BY <2>2, <3>1, <3>3, CountTo DEF CoreTypes
    <3> QED BY <2>1, <2>2, <3>1, <3>2, <3>3, <3>4
  <2>3. CASE c \notin Core
    <3>1. frame' = [ip |-> ip, core |-> -1, no |-> 0]
      BY <1>1, <2>3 DEF NewFrame
    <3> QED BY <2>1, <3>1
  <2> QED BY <2>2, <2>3
<1>2. CASE TxIllegal
  BY <1>0, <1>2 DEF TxIllegal, NoFrame, Called
<1>3. CASE TxBusy
  <2>1. count'.to = count.to /\ marking' = marking /\ marking = -1
    BY <1>3 DEF TxBusy, Called
  <2>2. frame' = frame \/ frame' = [ip |-> -1, core |-> -1, no |-> 0]
    BY <1>3 DEF TxBusy, NoFrame
  <2>3. CASE frame' = frame
    BY <1>0, <2>1, <2>3
  <2>4. CASE frame' = [ip |-> -1, core |-> -1, no |-> 0]
    BY <2>1, <2>4
  <2> QED BY <2>2, <2>3, <2>4
<1>4. CASE Transmit
  BY <1>0, <1>4 DEF Transmit, history
<1>5. CASE Mark
  BY <1>0, <1>5 DEF Mark, NoFrame
<1>6. CASE TxTimeout \/ Arrive \/ UNCHANGED vars
  BY <1>0, <1>6 DEF TxTimeout, Arrive, vars, history
<1>7. ASSUME NEW c \in Core, TimePasses(c) \/ CoreTakes(c) \/ CoreContinues(c) \/ Handle(c)
      PROVE  Offered'
  BY <1>0, <1>7 DEF TimePasses, CoreTakes, CoreContinues, Handle, history
<1>8. ASSUME NEW c \in Core, NEW n \in UpLines, CoreStarts(c, n) PROVE Offered'
  <2>1. count'.to = count.to /\ UNCHANGED <<frame, marking>>
    BY <1>0, <1>8, CountFrom DEF CoreStarts, Types
  <2> QED BY <1>0, <2>1
<1>9. ASSUME NEW c \in Core, NEW s \in Slot, Restart(c, s) PROVE Offered'
  <2>1. count'.to = count.to /\ UNCHANGED <<frame, marking>>
    BY <1>0, <1>9, CountRestart DEF Restart, Types
  <2> QED BY <1>0, <2>1
<1>10. QED
  BY <1>1, <1>2, <1>3, <1>4, <1>5, <1>6, <1>7, <1>8, <1>9 DEF Next

\* A new frame has the next number of its core.
LEMMA SlotsNewFrame ==
  ASSUME SlotInv, SlotsCareful, NEW ip \in Ips, NewFrame(ip), NEW d \in Core
  PROVE  CoreInv(d)'
<1> DEFINE c == DestIp(ip) - 1
<1>0. Types /\ CoreTypes /\ CoreInv(d) /\ LastTaken(d) \in Nat /\ -1 \notin Core
  BY Parted, SizesAre DEF Types
<1>1. /\ UNCHANGED <<marking, nextTxSlot, txSlotBusy, net_fifo, memory, coreSlot, mail, taken, gone>>
      /\ frame = NoFrame /\ marking = -1
  BY DEF NewFrame, tx, fifo, cores
<1>2. SlotsKept(d) /\ FifoKept(d) /\ MailKept(d)
  BY <1>1 DEF SlotsKept, FifoKept, MailKept
<1>3. CASE c # d
  <2>1. frame'.core # d
    <3>1. frame' = [ip |-> ip, core |-> c, no |-> count.to[c] + 1] \/ frame' = [ip |-> ip, core |-> -1, no |-> 0]
      BY DEF NewFrame
    <3> QED BY <1>0, <1>3, <3>1
  <2>2. FrameKept(d)
    BY <1>0, <1>1, <2>1 DEF FrameKept, NoFrame
  <2>3. count'.to[d] = count.to[d]
    <3>1. CASE c \in Core
      <4>1. count' = [count EXCEPT !.to[c] = @ + 1]
        BY <3>1 DEF NewFrame
      <4>2. count'.to = [count.to EXCEPT ![c] = count.to[c] + 1]
        BY <1>0, <3>1, <4>1, CountTo
      <4> QED BY <1>0, <1>3, <4>2 DEF CoreTypes
    <3>2. CASE c \notin Core
      BY <3>2 DEF NewFrame
    <3> QED BY <3>1, <3>2
  <2>4. HistoryKept(d)
    BY <1>1, <2>3 DEF HistoryKept
  <2> QED BY <1>0, <1>2, <2>2, <2>4, Locality
<1>4. CASE c = d
  <2>1. /\ ~Booting(d) /\ frame' = [ip |-> ip, core |-> d, no |-> count.to[d] + 1]
        /\ count' = [count EXCEPT !.to[d] = @ + 1]
    BY <1>4 DEF NewFrame, SlotsCareful
  <2>2. PICK k \in Nat : k = count.to[d]
    BY <1>0 DEF CoreTypes
  <2>3. count'.to[d] = k + 1 /\ frame'.no = k + 1 /\ frame'.core = d
    <3>1. count'.to = [count.to EXCEPT ![d] = count.to[d] + 1]
      BY <1>0, <2>1, CountTo
    <3> QED BY <1>0, <2>1, <2>2, <3>1 DEF CoreTypes
  <2>4. TakenInOrder(d)' /\ LastTaken(d)' = LastTaken(d)
    BY <1>0, <1>1, TakenStays DEF CoreInv
  <2>5. LastTaken(d) <= k
    BY <1>0, <2>2 DEF CoreInv
  <2>6. PICK a \in Nat, m \in Nat, z \in Nat, N \in [Nat -> Nat] : Way(d, a, m, z, N)
    BY <1>0, <2>1 DEF CoreInv, UnderWay
  <2>7. Rising(d, a, z, N)'
    <3>1. ASSUME NEW p \in a .. z - 1
          PROVE  LastTaken(d) < N[p] /\ N[p] <= k + 1 /\ N[p] < k + 1
      <4>1. LastTaken(d) < N[p] /\ N[p] <= k
        BY <2>2, <2>6 DEF Way, Rising
      <4>2. N[p] \in Nat
        BY <3>1
      <4> QED BY <4>1, <4>2
    <3>2. LastTaken(d) < k + 1
      BY <1>0, <2>5
    <3>3. \A p, r \in a .. z - 1 : p < r => N[p] < N[r]
      BY <2>6 DEF Way, Rising
    <3> QED BY <2>3, <2>4, <3>1, <3>2, <3>3 DEF Rising
  <2>8. NoneMissing(d, a, z, N)'
    <3>1. ASSUME NEW i \in 1 .. k
          PROVE  i <= LastTaken(d) \/ <<d, i>> \in gone \/ \E p \in a .. z - 1 : N[p] = i
      BY <1>0, <1>1, <2>2, <2>6 DEF Way, NoneMissing, NoFrame
    <3>2. \A i \in 1 .. k + 1 : i \in 1 .. k \/ i = k + 1
      OBVIOUS
    <3>3. marking' # d
      BY <1>0, <1>1
    <3> QED BY <1>1, <2>3, <2>4, <3>1, <3>2, <3>3 DEF NoneMissing
  <2>9. Given(d, a, z)' /\ InStep(d, a, z)'
    BY <1>1, <2>6 DEF Way, Given, InStep, Owed
  <2>10. InFifo(net_fifo', d, m, z, N, memory'[d]) /\ InMemory(memory'[d], a, m, N)
    BY <1>1, <2>6 DEF Way
  <2>11. Way(d, a, m, z, N)'
    BY <2>6, <2>7, <2>8, <2>9, <2>10 DEF Way
  <2>12. UnderWay(d)'
    BY <2>11 DEF UnderWay
  <2>13. ~Booting(d)'
    BY <1>1, <2>1 DEF Booting
  <2>14. LastTaken(d)' <= count'.to[d]
    BY <1>0, <2>3, <2>4, <2>5
  <2> QED BY <2>4, <2>12, <2>13, <2>14 DEF CoreInv
<1>5. QED
  BY <1>3, <1>4

\* A frame that is given up is among those that may be missing.
LEMMA SlotsBusy ==
  ASSUME SlotInv, SlotsCareful, TxBusy, NEW d \in Core
  PROVE  CoreInv(d)'
<1> DEFINE c == frame.core
<1>0. Types /\ CoreTypes /\ Offered /\ CoreInv(d) /\ LastTaken(d) \in Nat /\ -1 \notin Core
  BY Parted, SizesAre DEF Types
<1>1. /\ UNCHANGED <<marking, nextTxSlot, txSlotBusy, net_fifo, memory, coreSlot, mail, taken, count>>
      /\ marking = -1 /\ c \in Core
      /\ \/ UNCHANGED <<frame, gone>>
         \/ frame' = NoFrame /\ gone' = gone \cup {<<c, frame.no>>}
  BY DEF TxBusy, tx, fifo, cores, Called
<1>2. SlotsKept(d) /\ FifoKept(d) /\ MailKept(d)
  BY <1>1 DEF SlotsKept, FifoKept, MailKept
<1>3. HistoryKept(d)
  BY <1>1 DEF HistoryKept
<1>4. CASE c # d \/ UNCHANGED frame
  <2>1. FrameKept(d)
    BY <1>0, <1>1, <1>4 DEF FrameKept, NoFrame
  <2> QED BY <1>0, <1>2, <1>3, <2>1, Locality
<1>5. CASE c = d /\ frame' = NoFrame /\ gone' = gone \cup {<<c, frame.no>>}
  <2>1. ~Booting(d)
    BY <1>0, <1>5 DEF CoreInv, Restarted
  <2>2. frame'.core # d /\ gone' = gone \cup {<<d, frame.no>>}
    BY <1>0, <1>5 DEF NoFrame
  <2>3. TakenInOrder(d)' /\ LastTaken(d)' = LastTaken(d)
    BY <1>0, <1>1, TakenStays DEF CoreInv
  <2>4. PICK a \in Nat, m \in Nat, z \in Nat, N \in [Nat -> Nat] : Way(d, a, m, z, N)
    BY <1>0, <2>1 DEF CoreInv, UnderWay
  <2>5. Rising(d, a, z, N)'
    BY <1>1, <2>2, <2>3, <2>4 DEF Way, Rising
  <2>6. NoneMissing(d, a, z, N)'
    BY <1>1, <2>2, <2>3, <2>4 DEF Way, NoneMissing
  <2>7. Given(d, a, z)' /\ InStep(d, a, z)'
    BY <1>1, <2>4 DEF Way, Given, InStep, Owed
  <2>8. InFifo(net_fifo', d, m, z, N, memory'[d]) /\ InMemory(memory'[d], a, m, N)
    BY <1>1, <2>4 DEF Way
  <2>9. Way(d, a, m, z, N)'
    BY <2>4, <2>5, <2>6, <2>7, <2>8 DEF Way
  <2>10. UnderWay(d)'
    BY <2>9 DEF UnderWay
  <2>11. ~Booting(d)'
    BY <1>1, <2>1 DEF Booting
  <2>12. LastTaken(d)' <= count'.to[d]
    BY <1>0, <1>1, <2>3 DEF CoreInv
  <2> QED BY <2>3, <2>10, <2>11, <2>12 DEF CoreInv
<1>6. QED
  BY <1>1, <1>4, <1>5

\* One position more.
LEMMA OneMore ==
  ASSUME NEW m \in Nat, NEW z \in Nat, m <= z
  PROVE  /\ z \in m .. (z + 1) - 1
         /\ \A p \in m .. (z + 1) - 1 : p = z \/ p \in m .. z - 1
         /\ \A p \in m .. z - 1 : p \in m .. (z + 1) - 1 /\ p # z /\ p \in Nat
OBVIOUS

\* r is q, of n chunks, with another frame for c.
LongerBy(q, r, n, c, t, no) ==
  /\ n \in Nat /\ Len(r) \in Nat /\ Len(r) >= n + 2
  /\ \A i \in 1 .. n : r[i] = q[i] /\ i \in 1 .. Len(r)
  /\ OthersOf(r[n + 1], c) /\ r[n + 1].slot = t /\ r[n + 1].no = no
  /\ FirstOf(r[n + 2], c) /\ r[n + 2].slot = t /\ r[n + 2].no = no
  /\ \A i \in 1 .. Len(r) : FirstOf(r[i], c) => i \in 1 .. n \/ i = n + 2
  /\ \A i \in 1 .. Len(r) : OthersOf(r[i], c) => i \in 1 .. n \/ i = n + 1

LEMMA SentInOrder ==
  ASSUME NEW q \in Seq(Chunk), NEW c \in Core, NEW t \in Slot, NEW no \in Nat
  PROVE  LongerBy(q, q \o Sent(c, t, no), Len(q), c, t, no)
<1> DEFINE s == Sent(c, t, no)
           r == q \o s
           n == Len(q)
<1>1. /\ s \in Seq(Chunk) /\ Len(s) \in {2, 3}
      /\ s[1] = [core |-> c, slot |-> t, part |-> "others", no |-> no]
      /\ s[2] = [core |-> c, slot |-> t, part |-> "first", no |-> no]
      /\ Len(s) = 3 => s[3] = [core |-> c, slot |-> t, part |-> "irq", no |-> no]
  BY SentIs
<1> HIDE DEF s
<1>2. /\ Len(r) = n + Len(s) /\ n \in Nat /\ Len(s) \in Nat
      /\ \A i \in 1 .. n : r[i] = q[i]
      /\ \A k \in 1 .. Len(s) : r[n + k] = s[k]
  BY <1>1, Joined
<1> HIDE DEF r, n
<1>3. /\ OthersOf(s[1], c) /\ ~FirstOf(s[1], c) /\ s[1].slot = t /\ s[1].no = no /\ s[1].core = c
      /\ FirstOf(s[2], c) /\ ~OthersOf(s[2], c) /\ s[2].slot = t /\ s[2].no = no /\ s[2].core = c
      /\ Len(s) = 3 => ~FirstOf(s[3], c) /\ ~OthersOf(s[3], c) /\ s[3].core = c
  BY <1>1 DEF FirstOf, OthersOf
<1>4. PICK l \in {2, 3} : l = Len(s)
  BY <1>1
<1>5. 1 \in 1 .. l /\ 2 \in 1 .. l /\ (l = 3 => 3 \in 1 .. l)
  <2>1. CASE l = 2
    BY <2>1
  <2>2. CASE l = 3
    BY <2>2
  <2> QED BY <2>1, <2>2
<1>6. Len(r) \in Nat /\ Len(r) >= n + 2 /\ \A i \in 1 .. n : i \in 1 .. Len(r)
  <2>1. Len(r) = n + l /\ n \in Nat
    BY <1>2, <1>4
  <2>2. Len(r) \in Nat /\ Len(r) >= n + 2
    BY <2>1
  <2> QED BY <2>1, <2>2
<1>7. r[n + 1] = s[1] /\ r[n + 2] = s[2] /\ (Len(s) = 3 => r[n + 3] = s[3])
  BY <1>2, <1>4, <1>5
<1>8. \A i \in 1 .. Len(r) : i \in 1 .. n \/ i = n + 1 \/ i = n + 2 \/ (Len(s) = 3 /\ i = n + 3)
  <2>1. Len(r) = n + l /\ n \in Nat
    BY <1>2, <1>4
  <2>2. CASE l = 2
    BY <1>4, <2>1, <2>2
  <2>3. CASE l = 3
    BY <1>4, <2>1, <2>3
  <2> QED BY <2>2, <2>3
<1>9. /\ \A i \in 1 .. Len(r) : FirstOf(r[i], c) => i \in 1 .. n \/ i = n + 2
      /\ \A i \in 1 .. Len(r) : OthersOf(r[i], c) => i \in 1 .. n \/ i = n + 1
  BY <1>3, <1>7, <1>8
<1>10. LongerBy(q, r, n, c, t, no)
  BY <1>2, <1>3, <1>6, <1>7, <1>9 DEF LongerBy
<1>11. QED
  BY <1>10 DEF r, n, s

LEMMA SentTo ==
  ASSUME NEW c \in Core, NEW t \in Slot, NEW no \in Nat, NEW k \in 1 .. Len(Sent(c, t, no))
  PROVE  Sent(c, t, no)[k].core = c
<1> DEFINE n == Len(Parts)
<1>1. Sent(c, t, no) = [i \in 1 .. n |-> [core |-> c, slot |-> t, part |-> Parts[i], no |-> no]] /\ n \in Nat
  BY PartsAre DEF Sent
<1> HIDE DEF n
<1>2. Len(Sent(c, t, no)) = n
  BY <1>1
<1>3. QED
  BY <1>1, <1>2

Below(N, m, z, no) == m <= z /\ \A p \in m .. z - 1 : N[p] < no

\* A frame that is put into net_fifo, with a number above those before it.
LEMMA FifoSent ==
  ASSUME NEW q \in Seq(Chunk), NEW c \in Core, NEW no \in Nat, NEW m \in Nat, NEW z \in Nat,
         NEW N \in [Nat -> Nat], NEW mem, InFifo(q, c, m, z, N, mem), Below(N, m, z, no)
  PROVE  InFifo(q \o Sent(c, At(z), no), c, m, z + 1, [N EXCEPT ![z] = no], mem)
<1> DEFINE r == q \o Sent(c, At(z), no)
           n == Len(q)
           M == [N EXCEPT ![z] = no]
<1>1. /\ n \in Nat /\ Len(r) \in Nat /\ Len(r) >= n + 2
      /\ \A i \in 1 .. n : r[i] = q[i] /\ i \in 1 .. Len(r)
      /\ OthersOf(r[n + 1], c) /\ r[n + 1].slot = At(z) /\ r[n + 1].no = no
      /\ FirstOf(r[n + 2], c) /\ r[n + 2].slot = At(z) /\ r[n + 2].no = no
      /\ \A i \in 1 .. Len(r) : FirstOf(r[i], c) => i \in 1 .. n \/ i = n + 2
      /\ \A i \in 1 .. Len(r) : OthersOf(r[i], c) => i \in 1 .. n \/ i = n + 1
  <2>1. At(z) \in Slot
    BY AtIs
  <2>2. LongerBy(q, r, n, c, At(z), no)
    BY <2>1, SentInOrder
  <2> HIDE DEF r, n
  <2> QED BY <2>2 DEF LongerBy
<1>2. M[z] = no /\ \A p \in m .. z - 1 : M[p] = N[p] /\ N[p] \in Nat /\ N[p] < no
  <2>1. m <= z /\ \A p \in m .. z - 1 : N[p] < no
    BY DEF Below
  <2>2. \A p \in m .. z - 1 : p # z /\ p \in Nat
    BY <2>1, OneMore
  <2> QED BY <2>1, <2>2
<1> HIDE DEF r, M, n
<1>0. n \in Nat /\ Len(r) \in Nat /\ Len(r) >= n + 2
  BY <1>1
<1>3. FirstLines(q, c, m, z, N) /\ OtherLines(q, c, mem)
  BY DEF InFifo
<1>4. /\ z \in m .. (z + 1) - 1
      /\ \A p \in m .. (z + 1) - 1 : p = z \/ p \in m .. z - 1
      /\ \A p \in m .. z - 1 : p \in m .. (z + 1) - 1
  BY OneMore DEF Below
<1>5. ASSUME NEW i \in 1 .. n, FirstOf(q[i], c)
      PROVE  \E p \in m .. z - 1 : q[i].slot = At(p) /\ q[i].no = N[p]
  BY <1>3, <1>5 DEF FirstLines, n
<1>6. FirstLines(r, c, m, z + 1, M)
  <2>1. ASSUME NEW i \in 1 .. Len(r), FirstOf(r[i], c)
        PROVE  \E p \in m .. (z + 1) - 1 : r[i].slot = At(p) /\ r[i].no = M[p]
    <3>1. CASE i \in 1 .. n
      <4>1. PICK p \in m .. z - 1 : q[i].slot = At(p) /\ q[i].no = N[p]
        BY <1>1, <1>5, <2>1, <3>1
      <4> QED BY <1>1, <1>2, <1>4, <3>1, <4>1
    <3>2. CASE i = n + 2
      BY <1>1, <1>2, <1>4, <3>2
    <3> QED BY <1>1, <2>1, <3>1, <3>2
  <2>2. ASSUME NEW p \in m .. (z + 1) - 1
        PROVE  \E i \in 1 .. Len(r) : FirstOf(r[i], c) /\ r[i].no = M[p]
    <3>1. CASE p \in m .. z - 1
      <4>1. PICK i \in 1 .. n : FirstOf(q[i], c) /\ q[i].no = N[p]
        BY <1>3, <3>1 DEF FirstLines, n
      <4> QED BY <1>1, <1>2, <3>1, <4>1
    <3>2. CASE p = z
      <4>1. n + 2 \in 1 .. Len(r)
        BY <1>0
      <4> QED BY <1>1, <1>2, <3>2, <4>1
    <3> QED BY <1>4, <3>1, <3>2
  <2>3. ASSUME NEW i \in 1 .. Len(r), NEW j \in 1 .. Len(r), i < j, FirstOf(r[i], c), FirstOf(r[j], c)
        PROVE  r[i].no < r[j].no
    <3>1. i \in 1 .. n
      BY <1>1, <2>3
    <3>2. CASE j \in 1 .. n
      BY <1>1, <1>3, <2>3, <3>1, <3>2 DEF FirstLines, n
    <3>3. CASE j = n + 2
      <4>1. PICK p \in m .. z - 1 : q[i].slot = At(p) /\ q[i].no = N[p]
        BY <1>1, <1>5, <2>3, <3>1
      <4> QED BY <1>1, <1>2, <3>1, <3>3, <4>1
    <3> QED BY <1>1, <2>3, <3>2, <3>3
  <2> QED BY <2>1, <2>2, <2>3 DEF FirstLines
<1>7. OtherLines(r, c, mem)
  <2>1. ASSUME NEW i \in 1 .. Len(r), OthersOf(r[i], c)
        PROVE  \E j \in i + 1 .. Len(r) : FirstOf(r[j], c) /\ Same(r[i], r[j])
    <3>1. CASE i \in 1 .. n
      <4>1. PICK j \in i + 1 .. n : FirstOf(q[j], c) /\ Same(q[i], q[j])
        BY <1>1, <1>3, <2>1, <3>1 DEF OtherLines, n
      <4>2. j \in 1 .. n /\ j \in i + 1 .. Len(r)
        BY <1>0, <3>1
      <4> QED BY <1>1, <3>1, <4>1, <4>2
    <3>2. CASE i = n + 1
      <4>1. n + 2 \in i + 1 .. Len(r)
        BY <1>0, <3>2
      <4> QED BY <1>1, <3>2, <4>1 DEF Same
    <3> QED BY <1>1, <2>1, <3>1, <3>2
  <2>2. ASSUME NEW i \in 1 .. Len(r), FirstOf(r[i], c)
        PROVE  \/ mem[r[i].slot].others = r[i].no
               \/ \E j \in 1 .. i - 1 : OthersOf(r[j], c) /\ Same(r[i], r[j])
    <3>1. CASE i \in 1 .. n
      <4>1. \/ mem[q[i].slot].others = q[i].no
            \/ \E j \in 1 .. i - 1 : OthersOf(q[j], c) /\ Same(q[i], q[j])
        BY <1>1, <1>3, <2>2, <3>1 DEF OtherLines, n
      <4>2. \A j \in 1 .. i - 1 : j \in 1 .. n
        BY <1>0, <3>1
      <4> QED BY <1>1, <3>1, <4>1, <4>2
    <3>2. CASE i = n + 2
      <4>1. n + 1 \in 1 .. i - 1
        BY <1>0, <3>2
      <4> QED BY <1>1, <3>2, <4>1 DEF Same
    <3> QED BY <1>1, <2>2, <3>1, <3>2
  <2> QED BY <2>1, <2>2 DEF OtherLines
<1>8. QED
  BY <1>6, <1>7 DEF InFifo, r, M

\* A free slot is one that holds nothing the core has still to take.
LEMMA Room ==
  ASSUME NEW c \in Core, NEW a \in Nat, NEW m \in Nat, NEW z \in Nat, Window(a, m, z),
         At(z) \notin Owed(c, a, z)
  PROVE  Window(a, m, z + 1)
<1>1. a <= m /\ m <= z /\ z <= a + SLOTS
  BY DEF Window
<1>2. z # a + SLOTS
  <2> SUFFICES ASSUME z = a + SLOTS PROVE FALSE
    OBVIOUS
  <2>1. a \in a .. z - 1
    BY SizesAre
  <2>2. At(z) = At(a)
    BY NextSlot
  <2> QED BY <2>1, <2>2 DEF Owed
<1>3. QED
  BY <1>1, <1>2, SizesAre DEF Window

LEMMA SlotsTransmit ==
  ASSUME SlotInv, SlotsCareful, Transmit, NEW d \in Core
  PROVE  CoreInv(d)'
<1> DEFINE c == frame.core
           no == frame.no
<1>0. Types /\ CoreTypes /\ Offered /\ CoreInv(d) /\ LastTaken(d) \in Nat /\ -1 \notin Core
  BY Parted, SizesAre DEF Types
<1>1. /\ UNCHANGED <<frame, nextTxSlot, txSlotBusy, memory, coreSlot, mail, taken, count, gone>>
      /\ marking = -1 /\ marking' = c /\ c \in Core
      /\ net_fifo' = net_fifo \o Sent(c, nextTxSlot[c], no)
      /\ nextTxSlot[c] \notin txSlotBusy[c]
  BY DEF Transmit, Sent, isBusy, cores, history, Called
<1>2. net_fifo \in Seq(Chunk) /\ nextTxSlot[c] \in Slot /\ no \in Nat /\ nextTxSlot[d] \in Slot
  BY <1>0, <1>1 DEF Types, TxTypes
<1> HIDE DEF c, no
<1>3. SlotsKept(d) /\ MailKept(d) /\ HistoryKept(d)
  BY <1>1 DEF SlotsKept, MailKept, HistoryKept
<1>4. CASE c # d
  <2>1. FrameKept(d)
    BY <1>0, <1>1, <1>4 DEF FrameKept
  <2>2. FifoKept(d)
    <3>1. Sent(c, nextTxSlot[c], no) \in Seq(Chunk)
          /\ \A k \in 1 .. Len(Sent(c, nextTxSlot[c], no)) : Sent(c, nextTxSlot[c], no)[k].core = c
      <4>1. Sent(c, nextTxSlot[c], no) \in Seq(Chunk)
        BY <1>1, <1>2, SentIs
      <4>2. \A k \in 1 .. Len(Sent(c, nextTxSlot[c], no)) : Sent(c, nextTxSlot[c], no)[k].core = c
        BY <1>1, <1>2, SentTo
      <4> QED BY <4>1, <4>2
    <3> QED BY <1>1, <1>4, <3>1 DEF FifoKept
  <2> QED BY <1>0, <1>3, <2>1, <2>2, Locality
<1>5. CASE c = d
  <2>1. frame.core = d /\ frame.no = no /\ marking # d /\ marking' = d /\ no = count.to[d]
    BY <1>0, <1>1, <1>5 DEF c, no, Offered
  <2>2. ~Booting(d)
    BY <1>0, <2>1 DEF CoreInv, Restarted
  <2>3. TakenInOrder(d)' /\ LastTaken(d)' = LastTaken(d)
    BY <1>0, <1>1, TakenStays DEF CoreInv
  <2>4. PICK a \in Nat, m \in Nat, z \in Nat, N \in [Nat -> Nat] : Way(d, a, m, z, N)
    BY <1>0, <2>2 DEF CoreInv, UnderWay
  <2>20. PICK M \in [Nat -> Nat] : M = [N EXCEPT ![z] = no]
    BY <1>2
  <2>5. nextTxSlot[d] = At(z) /\ txSlotBusy[d] = Owed(d, a, z) /\ At(z) \notin Owed(d, a, z)
    BY <1>1, <1>5, <2>1, <2>4 DEF Way, InStep
  <2>6. Window(a, m, z) /\ Window(a, m, z + 1) /\ a <= z /\ m <= z /\ a <= m
    <3>1. Window(a, m, z)
      BY <2>4 DEF Way
    <3>2. Window(a, m, z + 1)
      BY <2>5, <3>1, Room
    <3>3. a <= m /\ m <= z
      BY <3>1 DEF Window
    <3> QED BY <3>1, <3>2, <3>3
  <2>7. /\ M \in [Nat -> Nat] /\ M[z] = no
        /\ \A p \in a .. z - 1 : M[p] = N[p]
        /\ z \in a .. (z + 1) - 1
        /\ \A p \in a .. (z + 1) - 1 : p = z \/ p \in a .. z - 1
        /\ \A p \in a .. z - 1 : p \in a .. (z + 1) - 1
        /\ \A p \in a .. m - 1 : p \in a .. z - 1
    <3>1. no \in Nat /\ a <= z /\ m <= z /\ a <= m
      BY <1>2, <2>6
    <3>2. M \in [Nat -> Nat] /\ M[z] = no
      BY <2>20, <3>1
    <3>3. \A p \in a .. z - 1 : M[p] = N[p]
      BY <2>20, <3>1
    <3>4. /\ z \in a .. (z + 1) - 1
          /\ \A p \in a .. (z + 1) - 1 : p = z \/ p \in a .. z - 1
          /\ \A p \in a .. z - 1 : p \in a .. (z + 1) - 1
          /\ \A p \in a .. m - 1 : p \in a .. z - 1
      BY <3>1
    <3> QED BY <3>2, <3>3, <3>4
  <2>8. \A p \in a .. z - 1 : N[p] \in Nat /\ N[p] < no /\ LastTaken(d) < N[p] /\ N[p] <= count.to[d]
    BY <2>1, <2>4 DEF Way, Rising
  <2>9. InFifo(net_fifo', d, m, z + 1, M, memory'[d])
    <3>1. Below(N, m, z, no)
      BY <2>6, <2>8 DEF Below
    <3>2. InFifo(net_fifo, d, m, z, N, memory[d])
      BY <2>4 DEF Way
    <3> QED BY <1>1, <1>2, <1>5, <2>5, <2>6, <2>20, <3>1, <3>2, FifoSent
  <2>10. InMemory(memory'[d], a, m, M)
    BY <1>1, <2>4, <2>7 DEF Way, InMemory
  <2>11. Rising(d, a, z + 1, M)'
    <3>1. LastTaken(d) < no
      BY <2>1, <2>4 DEF Way, Rising
    <3>2. ASSUME NEW p \in a .. (z + 1) - 1
          PROVE  LastTaken(d) < M[p] /\ M[p] <= count.to[d]
      <4>1. CASE p = z
        <5>1. M[p] = no /\ no = count.to[d] /\ no \in Nat
          BY <1>2, <2>1, <2>7, <4>1
        <5> QED BY <3>1, <5>1
      <4>2. CASE p \in a .. z - 1
        BY <2>7, <2>8, <4>2
      <4> QED BY <2>7, <4>1, <4>2
    <3>3. ASSUME NEW p \in a .. (z + 1) - 1, NEW r \in a .. (z + 1) - 1, p < r
          PROVE  M[p] < M[r]
      <4>1. p \in a .. z - 1
        BY <3>3
      <4>2. CASE r = z
        BY <2>7, <2>8, <4>1, <4>2
      <4>3. CASE r \in a .. z - 1
        BY <2>4, <2>7, <3>3, <4>1, <4>3 DEF Way, Rising
      <4> QED BY <2>7, <4>2, <4>3
    <3> QED BY <1>1, <2>1, <2>3, <3>2, <3>3 DEF Rising
  <2>12. NoneMissing(d, a, z + 1, M)'
    <3>1. ASSUME NEW k \in 1 .. count.to[d]
          PROVE  k <= LastTaken(d) \/ <<d, k>> \in gone \/ \E p \in a .. (z + 1) - 1 : M[p] = k
      <4>1. \/ k <= LastTaken(d) \/ <<d, k>> \in gone \/ \E p \in a .. z - 1 : N[p] = k
            \/ k = no
        BY <2>1, <2>4 DEF Way, NoneMissing
      <4> QED BY <2>7, <4>1
    <3> QED BY <1>1, <2>3, <3>1 DEF NoneMissing
  <2>13. Given(d, a, z + 1)'
    <3>1. At(z) \notin Returned(mail[d])
      BY <2>5 DEF Owed
    <3> QED BY <1>1, <2>4, <2>7, <3>1 DEF Way, Given
  <2>14. InStep(d, a, z + 1)'
    <3>1. Owed(d, a, z + 1) = Owed(d, a, z) \cup {At(z)}
      BY <2>7 DEF Owed
    <3>2. Owed(d, a, z + 1)' = Owed(d, a, z + 1)
      BY <1>1 DEF Owed
    <3>3. (nextTxSlot[d] + 1) % SLOTS = At(z + 1)
      BY <2>5, NextSlot
    <3>4. coreSlot[d] = At(a)
      BY <2>4 DEF Way, InStep
    <3>5. /\ nextTxSlot'[d] = At(z) /\ nextTxSlot[d] = At(z) /\ coreSlot'[d] = At(a)
          /\ txSlotBusy'[d] = Owed(d, a, z) /\ marking' = d
      BY <1>1, <2>1, <2>5, <3>4
    <3>6. txSlotBusy'[d] = Owed(d, a, z + 1)' \ {nextTxSlot'[d]} /\ nextTxSlot'[d] \in Owed(d, a, z + 1)'
      BY <2>5, <3>1, <3>2, <3>5
    <3> QED BY <3>3, <3>5, <3>6 DEF InStep
  <2>15. Way(d, a, m, z + 1, M)'
    BY <2>6, <2>9, <2>10, <2>11, <2>12, <2>13, <2>14 DEF Way
  <2>16. UnderWay(d)'
    <3>1. PICK y \in Nat : y = z + 1
      OBVIOUS
    <3>2. Way(d, a, m, y, M)'
      BY <2>15, <3>1
    <3> QED BY <3>2 DEF UnderWay
  <2>17. ~Booting(d)'
    BY <1>1, <2>2 DEF Booting
  <2>18. LastTaken(d)' <= count'.to[d]
    BY <1>0, <1>1, <2>3 DEF CoreInv
  <2> QED BY <2>3, <2>16, <2>17, <2>18 DEF CoreInv
<1>6. QED
  BY <1>4, <1>5

LEMMA SlotsMark ==
  ASSUME SlotInv, SlotsCareful, Mark, NEW d \in Core
  PROVE  CoreInv(d)'
<1> DEFINE c == marking
<1>0. Types /\ CoreTypes /\ Offered /\ CoreInv(d) /\ LastTaken(d) \in Nat /\ -1 \notin Core
  BY Parted, SizesAre DEF Types
<1>1. /\ UNCHANGED <<net_fifo, memory, coreSlot, mail, taken, count, gone>>
      /\ c \in Core /\ marking' = -1 /\ frame' = NoFrame
      /\ txSlotBusy' = [txSlotBusy EXCEPT ![c] = @ \cup {nextTxSlot[c]}]
      /\ nextTxSlot' = [nextTxSlot EXCEPT ![c] = (@ + 1) % SLOTS]
  BY <1>0 DEF Mark, fifo, cores, history, Types, TxTypes
<1>2. frame.core = c /\ frame'.core = -1 /\ c # -1
  BY <1>0, <1>1 DEF Offered, NoFrame
<1>3. nextTxSlot \in [Core -> Slot] /\ txSlotBusy \in [Core -> SUBSET Slot]
  BY <1>0 DEF Types, TxTypes
<1>4. FifoKept(d) /\ MailKept(d) /\ HistoryKept(d)
  BY <1>1 DEF FifoKept, MailKept, HistoryKept
<1>5. CASE c # d
  <2>1. FrameKept(d) /\ SlotsKept(d)
    BY <1>0, <1>1, <1>2, <1>3, <1>5 DEF FrameKept, SlotsKept
  <2> QED BY <1>0, <1>4, <2>1, Locality
<1>6. CASE c = d
  <2>1. ~Booting(d)
    BY <1>0, <1>6 DEF CoreInv, Restarted
  <2>2. TakenInOrder(d)' /\ LastTaken(d)' = LastTaken(d)
    BY <1>0, <1>1, TakenStays DEF CoreInv
  <2>3. PICK a \in Nat, m \in Nat, z \in Nat, N \in [Nat -> Nat] : Way(d, a, m, z, N)
    BY <1>0, <2>1 DEF CoreInv, UnderWay
  <2>4. frame.core = d /\ marking = d /\ frame'.core # d /\ marking' # d
    BY <1>0, <1>1, <1>2, <1>6
  <2>5. Rising(d, a, z, N)' /\ NoneMissing(d, a, z, N)'
    BY <1>1, <2>2, <2>3, <2>4 DEF Way, Rising, NoneMissing
  <2>6. InStep(d, a, z)'
    <3>1. /\ coreSlot[d] = At(a) /\ (nextTxSlot[d] + 1) % SLOTS = At(z)
          /\ nextTxSlot[d] \in Owed(d, a, z)
          /\ txSlotBusy[d] = Owed(d, a, z) \ {nextTxSlot[d]}
      BY <2>3, <2>4 DEF Way, InStep
    <3>2. nextTxSlot'[d] = (nextTxSlot[d] + 1) % SLOTS
          /\ txSlotBusy'[d] = txSlotBusy[d] \cup {nextTxSlot[d]}
      BY <1>1, <1>3, <1>6
    <3>3. Owed(d, a, z)' = Owed(d, a, z)
      BY <1>1 DEF Owed
    <3>4. txSlotBusy'[d] = Owed(d, a, z)'
      BY <3>1, <3>2, <3>3
    <3> QED BY <1>1, <2>4, <3>1, <3>2, <3>4 DEF InStep
  <2>7. Given(d, a, z)'
    BY <1>1, <2>3 DEF Way, Given
  <2>8. InFifo(net_fifo', d, m, z, N, memory'[d]) /\ InMemory(memory'[d], a, m, N)
    BY <1>1, <2>3 DEF Way
  <2>9. Way(d, a, m, z, N)'
    BY <2>3, <2>5, <2>6, <2>7, <2>8 DEF Way
  <2>10. UnderWay(d)'
    BY <2>9 DEF UnderWay
  <2>11. ~Booting(d)'
    BY <1>1, <2>1 DEF Booting
  <2>12. LastTaken(d)' <= count'.to[d]
    BY <1>0, <1>1, <2>2 DEF CoreInv
  <2> QED BY <2>2, <2>10, <2>11, <2>12 DEF CoreInv
<1>7. QED
  BY <1>5, <1>6

-----------------------------------------------------------------------------
(***************************************************************************)
(* The lines of a frame reach the memory of the core.                      *)
(***************************************************************************)
LEMMA SamePosition ==
  ASSUME NEW a \in Nat, NEW z \in Nat, z <= a + SLOTS,
         NEW p \in a .. z - 1, NEW r \in a .. z - 1, At(p) = At(r)
  PROVE  p = r
<1>1. p \in Nat /\ r \in Nat /\ p < r + SLOTS /\ r < p + SLOTS
  BY SizesAre
<1>2. ~(p < r) /\ ~(r < p)
  BY <1>1, Apart
<1>3. QED
  BY <1>1, <1>2

LEMMA TailOf ==
  ASSUME NEW q \in Seq(Chunk), q # <<>>
  PROVE  LET r == Tail(q) IN
         /\ Len(r) \in Nat /\ Len(q) = Len(r) + 1 /\ 1 \in 1 .. Len(q)
         /\ q[1] = Head(q) /\ q[1] \in Chunk
         /\ \A i \in 1 .. Len(r) : r[i] = q[i + 1] /\ i + 1 \in 1 .. Len(q)
         /\ \A i \in 1 .. Len(q) : i = 1 \/ (i - 1 \in 1 .. Len(r) /\ r[i - 1] = q[i])
<1>1. /\ Len(q) \in Nat /\ Len(q) >= 1 /\ Len(Tail(q)) = Len(q) - 1
      /\ q[1] = Head(q) /\ Head(q) \in Chunk
      /\ \A i \in 1 .. Len(q) - 1 : Tail(q)[i] = q[i + 1] /\ i + 1 \in 2 .. Len(q)
      /\ \A i \in 2 .. Len(q) : Tail(q)[i - 1] = q[i] /\ i - 1 \in 1 .. Len(q) - 1
  BY Shifted
<1>2. QED
  BY <1>1

OthersWritten(mem, mem2, x) == /\ mem2[x.slot].others = x.no
                               /\ \A s \in Slot : s # x.slot => mem2[s] = mem[s]
OthersKept(mem, mem2) == \A s \in Slot : mem2[s].others = mem[s].others
IsNext(x, mem, m, z, N) == m < z /\ x.slot = At(m) /\ x.no = N[m] /\ mem[At(m)].others = N[m]
Increasing(N, m, z) == \A p, r \in m .. z - 1 : p < r => N[p] < N[r]

LEMMA OthersArrive ==
  ASSUME NEW q \in Seq(Chunk), q # <<>>, NEW c \in Core, OthersOf(Head(q), c),
         NEW m \in Nat, NEW z \in Nat, z <= m + SLOTS, NEW N \in [Nat -> Nat], NEW mem, NEW mem2,
         InFifo(q, c, m, z, N, mem), OthersWritten(mem, mem2, Head(q))
  PROVE  /\ InFifo(Tail(q), c, m, z, N, mem2)
         /\ \E p \in m .. z - 1 : Head(q).slot = At(p)
<1> DEFINE r == Tail(q)
           x == Head(q)
<1>1. /\ Len(r) \in Nat /\ Len(q) = Len(r) + 1 /\ 1 \in 1 .. Len(q)
      /\ q[1] = x /\ q[1] \in Chunk
      /\ \A i \in 1 .. Len(r) : r[i] = q[i + 1] /\ i + 1 \in 1 .. Len(q)
      /\ \A i \in 1 .. Len(q) : i = 1 \/ (i - 1 \in 1 .. Len(r) /\ r[i - 1] = q[i])
  BY TailOf
<1>2. FirstLines(q, c, m, z, N) /\ OtherLines(q, c, mem)
  BY DEF InFifo
<1>3. OthersOf(x, c) /\ ~FirstOf(x, c)
  BY DEF OthersOf, FirstOf
<1>4. mem2[x.slot].others = x.no /\ \A s \in Slot : s # x.slot => mem2[s] = mem[s]
  BY DEF OthersWritten
<1>0. Len(r) \in Nat /\ Len(q) = Len(r) + 1
  BY <1>1
<1> HIDE DEF r, x
<1>5. FirstLines(r, c, m, z, N)
  <2>1. ASSUME NEW i \in 1 .. Len(r), FirstOf(r[i], c)
        PROVE  \E p \in m .. z - 1 : r[i].slot = At(p) /\ r[i].no = N[p]
    <3>1. PICK k \in 1 .. Len(q) : k = i + 1 /\ r[i] = q[k]
      BY <1>1
    <3> QED BY <1>2, <2>1, <3>1 DEF FirstLines
  <2>2. ASSUME NEW p \in m .. z - 1
        PROVE  \E i \in 1 .. Len(r) : FirstOf(r[i], c) /\ r[i].no = N[p]
    <3>1. PICK i \in 1 .. Len(q) : FirstOf(q[i], c) /\ q[i].no = N[p]
      BY <1>2 DEF FirstLines
    <3>2. i # 1
      BY <1>1, <1>3, <3>1
    <3>3. i - 1 \in 1 .. Len(r) /\ r[i - 1] = q[i]
      BY <1>1, <3>2
    <3> QED BY <3>1, <3>3
  <2>3. ASSUME NEW i \in 1 .. Len(r), NEW j \in 1 .. Len(r), i < j, FirstOf(r[i], c), FirstOf(r[j], c)
        PROVE  r[i].no < r[j].no
    <3>1. PICK k \in 1 .. Len(q) : k = i + 1 /\ r[i] = q[k]
      BY <1>1
    <3>2. PICK l \in 1 .. Len(q) : l = j + 1 /\ r[j] = q[l]
      BY <1>1
    <3>3. k < l
      BY <2>3, <3>1, <3>2
    <3> QED BY <1>2, <2>3, <3>1, <3>2, <3>3 DEF FirstLines
  <2> QED BY <2>1, <2>2, <2>3 DEF FirstLines
<1>6. PICK f \in 2 .. Len(q) : FirstOf(q[f], c) /\ Same(x, q[f])
  <2>1. \E f \in 1 + 1 .. Len(q) : FirstOf(q[f], c) /\ Same(q[1], q[f])
    BY <1>1, <1>2, <1>3 DEF OtherLines
  <2>2. PICK f \in 1 + 1 .. Len(q) : FirstOf(q[f], c) /\ Same(x, q[f])
    BY <1>1, <2>1
  <2>3. f \in 2 .. Len(q)
    BY <1>0
  <2> QED BY <2>2, <2>3
<1>7. PICK p \in m .. z - 1 : x.slot = At(p) /\ x.no = N[p]
  <2>1. PICK p \in m .. z - 1 : q[f].slot = At(p) /\ q[f].no = N[p]
    BY <1>1, <1>2, <1>6 DEF FirstLines
  <2> QED BY <1>6, <2>1 DEF Same
<1>8. OtherLines(r, c, mem2)
  <2>1. ASSUME NEW i \in 1 .. Len(r), OthersOf(r[i], c)
        PROVE  \E j \in i + 1 .. Len(r) : FirstOf(r[j], c) /\ Same(r[i], r[j])
    <3>1. PICK k \in 1 .. Len(q) : k = i + 1 /\ r[i] = q[k]
      BY <1>1
    <3>2. PICK j \in k + 1 .. Len(q) : FirstOf(q[j], c) /\ Same(q[k], q[j])
      BY <1>2, <2>1, <3>1 DEF OtherLines
    <3>3. j \in 1 .. Len(q) /\ j # 1 /\ j - 1 \in i + 1 .. Len(r)
      BY <1>0, <3>1
    <3>4. r[j - 1] = q[j]
      BY <1>1, <3>3
    <3>5. PICK l \in i + 1 .. Len(r) : l = j - 1
      BY <3>3
    <3>6. FirstOf(r[l], c) /\ Same(r[i], r[l])
      BY <3>1, <3>2, <3>4, <3>5
    <3> QED BY <3>6
  <2>2. ASSUME NEW i \in 1 .. Len(r), FirstOf(r[i], c)
        PROVE  \/ mem2[r[i].slot].others = r[i].no
               \/ \E j \in 1 .. i - 1 : OthersOf(r[j], c) /\ Same(r[i], r[j])
    <3>1. PICK k \in 1 .. Len(q) : k = i + 1 /\ r[i] = q[k]
      BY <1>1
    <3>2. PICK u \in m .. z - 1 : r[i].slot = At(u) /\ r[i].no = N[u]
      BY <1>2, <2>2, <3>1 DEF FirstLines
    <3>3. CASE r[i].slot = x.slot
      <4>1. u = p
        BY <1>7, <3>2, <3>3, SamePosition
      <4> QED BY <1>4, <1>7, <3>2, <3>3, <4>1
    <3>4. CASE r[i].slot # x.slot
      <4>1. r[i].slot \in Slot
        <5>1. u \in Nat
          OBVIOUS
        <5> QED BY <3>2, <5>1, AtIs
      <4>2. mem2[r[i].slot] = mem[r[i].slot]
        BY <1>4, <3>4, <4>1
      <4>3. \/ mem[q[k].slot].others = q[k].no
            \/ \E j \in 1 .. k - 1 : OthersOf(q[j], c) /\ Same(q[k], q[j])
        BY <1>2, <2>2, <3>1 DEF OtherLines
      <4>4. ASSUME NEW j \in 1 .. k - 1, OthersOf(q[j], c), Same(q[k], q[j])
            PROVE  \E l \in 1 .. i - 1 : OthersOf(r[l], c) /\ Same(r[i], r[l])
        <5>1. j # 1
          BY <1>1, <3>1, <3>4, <4>4 DEF Same
        <5>2. j \in 1 .. Len(q) /\ j - 1 \in 1 .. i - 1
          BY <1>0, <3>1, <5>1
        <5>3. r[j - 1] = q[j]
          BY <1>1, <5>1, <5>2
        <5> QED BY <3>1, <4>4, <5>2, <5>3
      <4> QED BY <3>1, <4>2, <4>3, <4>4
    <3> QED BY <3>3, <3>4
  <2> QED BY <2>1, <2>2 DEF OtherLines
<1>9. QED
  BY <1>5, <1>7, <1>8 DEF InFifo, r, x

LEMMA FirstArrives ==
  ASSUME NEW q \in Seq(Chunk), q # <<>>, NEW c \in Core, FirstOf(Head(q), c),
         NEW m \in Nat, NEW z \in Nat, NEW N \in [Nat -> Nat], NEW mem, NEW mem2,
         InFifo(q, c, m, z, N, mem), Increasing(N, m, z), OthersKept(mem, mem2)
  PROVE  IsNext(Head(q), mem, m, z, N) /\ InFifo(Tail(q), c, m + 1, z, N, mem2)
<1> DEFINE r == Tail(q)
           x == Head(q)
<1>1. /\ Len(r) \in Nat /\ Len(q) = Len(r) + 1 /\ 1 \in 1 .. Len(q)
      /\ q[1] = x /\ q[1] \in Chunk
      /\ \A i \in 1 .. Len(r) : r[i] = q[i + 1] /\ i + 1 \in 1 .. Len(q)
      /\ \A i \in 1 .. Len(q) : i = 1 \/ (i - 1 \in 1 .. Len(r) /\ r[i - 1] = q[i])
  BY TailOf
<1>2. FirstLines(q, c, m, z, N) /\ OtherLines(q, c, mem)
  BY DEF InFifo
<1>3. FirstOf(x, c) /\ ~OthersOf(x, c)
  BY DEF OthersOf, FirstOf
<1>4. /\ \A s \in Slot : mem2[s].others = mem[s].others
      /\ \A u, v \in m .. z - 1 : u < v => N[u] < N[v]
  BY DEF Increasing, OthersKept
<1>0. Len(r) \in Nat /\ Len(q) = Len(r) + 1
  BY <1>1
<1> HIDE DEF r, x
<1>5. PICK p \in m .. z - 1 : q[1].slot = At(p) /\ q[1].no = N[p]
  BY <1>1, <1>2, <1>3 DEF FirstLines
<1>6. p = m
  <2> SUFFICES ASSUME p # m PROVE FALSE
    OBVIOUS
  <2>1. m \in m .. z - 1 /\ m < p
    OBVIOUS
  <2>2. N[m] < N[p]
    BY <1>4, <2>1
  <2>3. PICK i \in 1 .. Len(q) : FirstOf(q[i], c) /\ q[i].no = N[m]
    BY <1>2, <2>1 DEF FirstLines
  <2>4. N[m] \in Nat /\ N[p] \in Nat
    <3>1. m \in Nat /\ p \in Nat
      OBVIOUS
    <3> QED BY <3>1
  <2>8. N[p] # N[m]
    BY <2>2, <2>4
  <2>5. i # 1
    BY <1>5, <2>3, <2>8
  <2>6. 1 < i
    BY <1>1, <2>5
  <2>7. q[1].no < q[i].no
    BY <1>1, <1>2, <1>3, <2>3, <2>6 DEF FirstLines
  <2> QED BY <1>5, <2>2, <2>3, <2>4, <2>7
<1>7. m < z /\ x.slot = At(m) /\ x.no = N[m]
  BY <1>1, <1>5, <1>6
<1>8. mem[At(m)].others = N[m]
  <2>1. \/ mem[q[1].slot].others = q[1].no
        \/ \E j \in 1 .. 1 - 1 : OthersOf(q[j], c) /\ Same(q[1], q[j])
    BY <1>1, <1>2, <1>3 DEF OtherLines
  <2>2. \A j \in 1 .. 1 - 1 : FALSE
    OBVIOUS
  <2> QED BY <1>1, <1>7, <2>1, <2>2
<1>9. FirstLines(r, c, m + 1, z, N)
  <2>1. ASSUME NEW i \in 1 .. Len(r), FirstOf(r[i], c)
        PROVE  \E u \in m + 1 .. z - 1 : r[i].slot = At(u) /\ r[i].no = N[u]
    <3>1. PICK k \in 1 .. Len(q) : k = i + 1 /\ r[i] = q[k]
      BY <1>1
    <3>2. PICK u \in m .. z - 1 : r[i].slot = At(u) /\ r[i].no = N[u]
      BY <1>2, <2>1, <3>1 DEF FirstLines
    <3>3. 1 < k
      BY <3>1
    <3>4. q[1].no < q[k].no
      BY <1>1, <1>2, <1>3, <2>1, <3>1, <3>3 DEF FirstLines
    <3>5. N[m] < N[u] /\ N[m] \in Nat /\ u \in Nat
      BY <1>1, <1>7, <3>1, <3>2, <3>4
    <3>6. u # m
      BY <3>5
    <3> QED BY <3>2, <3>6
  <2>2. ASSUME NEW u \in m + 1 .. z - 1
        PROVE  \E i \in 1 .. Len(r) : FirstOf(r[i], c) /\ r[i].no = N[u]
    <3>1. u \in m .. z - 1 /\ m \in m .. z - 1 /\ m < u
      OBVIOUS
    <3>2. PICK i \in 1 .. Len(q) : FirstOf(q[i], c) /\ q[i].no = N[u]
      BY <1>2, <3>1 DEF FirstLines
    <3>3. N[m] < N[u]
      BY <1>4, <3>1
    <3>6. m \in Nat /\ u \in Nat
      BY <3>1
    <3>7. N[m] # N[u]
      <4>1. N[m] \in Nat /\ N[u] \in Nat
        BY <3>6
      <4> QED BY <3>3, <4>1
    <3>4. i # 1
      BY <1>1, <1>7, <3>2, <3>7
    <3>5. i - 1 \in 1 .. Len(r) /\ r[i - 1] = q[i]
      BY <1>1, <3>4
    <3> QED BY <3>2, <3>5
  <2>3. ASSUME NEW i \in 1 .. Len(r), NEW j \in 1 .. Len(r), i < j, FirstOf(r[i], c), FirstOf(r[j], c)
        PROVE  r[i].no < r[j].no
    <3>1. PICK k \in 1 .. Len(q) : k = i + 1 /\ r[i] = q[k]
      BY <1>1
    <3>2. PICK l \in 1 .. Len(q) : l = j + 1 /\ r[j] = q[l]
      BY <1>1
    <3>3. k < l
      BY <2>3, <3>1, <3>2
    <3> QED BY <1>2, <2>3, <3>1, <3>2, <3>3 DEF FirstLines
  <2> QED BY <2>1, <2>2, <2>3 DEF FirstLines
<1>10. OtherLines(r, c, mem2)
  <2>1. ASSUME NEW i \in 1 .. Len(r), OthersOf(r[i], c)
        PROVE  \E j \in i + 1 .. Len(r) : FirstOf(r[j], c) /\ Same(r[i], r[j])
    <3>1. PICK k \in 1 .. Len(q) : k = i + 1 /\ r[i] = q[k]
      BY <1>1
    <3>2. PICK j \in k + 1 .. Len(q) : FirstOf(q[j], c) /\ Same(q[k], q[j])
      BY <1>2, <2>1, <3>1 DEF OtherLines
    <3>3. j \in 1 .. Len(q) /\ j # 1 /\ j - 1 \in i + 1 .. Len(r)
      BY <1>0, <3>1
    <3>4. r[j - 1] = q[j]
      BY <1>1, <3>3
    <3>5. PICK l \in i + 1 .. Len(r) : l = j - 1
      BY <3>3
    <3>6. FirstOf(r[l], c) /\ Same(r[i], r[l])
      BY <3>1, <3>2, <3>4, <3>5
    <3> QED BY <3>6
  <2>2. ASSUME NEW i \in 1 .. Len(r), FirstOf(r[i], c)
        PROVE  \/ mem2[r[i].slot].others = r[i].no
               \/ \E j \in 1 .. i - 1 : OthersOf(r[j], c) /\ Same(r[i], r[j])
    <3>1. PICK k \in 1 .. Len(q) : k = i + 1 /\ r[i] = q[k]
      BY <1>1
    <3>2. PICK u \in m .. z - 1 : r[i].slot = At(u) /\ r[i].no = N[u]
      BY <1>2, <2>2, <3>1 DEF FirstLines
    <3>3. r[i].slot \in Slot
      <4>1. u \in Nat
        OBVIOUS
      <4> QED BY <3>2, <4>1, AtIs
    <3>4. mem2[r[i].slot].others = mem[r[i].slot].others
      BY <1>4, <3>3
    <3>5. \/ mem[q[k].slot].others = q[k].no
          \/ \E j \in 1 .. k - 1 : OthersOf(q[j], c) /\ Same(q[k], q[j])
      BY <1>2, <2>2, <3>1 DEF OtherLines
    <3>6. ASSUME NEW j \in 1 .. k - 1, OthersOf(q[j], c), Same(q[k], q[j])
          PROVE  \E l \in 1 .. i - 1 : OthersOf(r[l], c) /\ Same(r[i], r[l])
      <4>1. j # 1
        BY <1>1, <1>3, <3>6
      <4>2. j \in 1 .. Len(q) /\ j - 1 \in 1 .. i - 1
        BY <1>0, <3>1, <4>1
      <4>3. r[j - 1] = q[j]
        BY <1>1, <4>1, <4>2
      <4> QED BY <3>1, <3>6, <4>2, <4>3
    <3> QED BY <3>1, <3>4, <3>5, <3>6
  <2> QED BY <2>1, <2>2 DEF OtherLines
<1>11. QED
  BY <1>7, <1>8, <1>9, <1>10 DEF InFifo, IsNext, r, x

\* What Arrive does to the memory.
Writes(x) ==
  /\ \A d \in Core \ {x.core} : memory'[d] = memory[d]
  /\ \A s \in Slot \ {x.slot} : memory'[x.core][s] = memory[x.core][s]
  /\ x.part = "first" => memory'[x.core][x.slot] =
       [first |-> x.no, others |-> memory[x.core][x.slot].others]
  /\ x.part = "others" => memory'[x.core][x.slot] =
       [first |-> memory[x.core][x.slot].first, others |-> x.no]
  /\ x.part = "irq" => memory' = memory

LEMMA Written ==
  ASSUME Types, Arrive
  PROVE  LET x == Head(net_fifo) IN
         /\ net_fifo \in Seq(Chunk) /\ net_fifo # <<>> /\ net_fifo' = Tail(net_fifo)
         /\ x \in Chunk /\ x.core \in Core /\ x.slot \in Slot /\ x.no \in Nat
         /\ x.part \in {"first", "others", "irq"} /\ Writes(x)
<1> DEFINE x == Head(net_fifo)
<1>1. /\ net_fifo # <<>> /\ net_fifo' = Tail(net_fifo) /\ net_fifo \in Seq(Chunk)
      /\ memory' = CASE x.part = "first"  -> [memory EXCEPT ![x.core][x.slot].first = x.no]
                     [] x.part = "others" -> [memory EXCEPT ![x.core][x.slot].others = x.no]
                     [] x.part = "irq"    -> memory
  BY DEF Arrive, Types, TxTypes
<1>2. x \in Chunk
  BY <1>1
<1> HIDE DEF x
<1>3. x.core \in Core /\ x.slot \in Slot /\ x.no \in Nat /\ x.part \in {"first", "others", "irq"}
  BY <1>2 DEF Chunk
<1>4. memory \in [Core -> [Slot -> Held]]
  BY DEF Types, CoreTypes
<1>5. memory[x.core][x.slot] = [first |-> memory[x.core][x.slot].first,
                                others |-> memory[x.core][x.slot].others]
  <2>1. memory[x.core][x.slot] \in Held
    BY <1>3, <1>4
  <2> QED BY <2>1 DEF Held
<1>6. Writes(x)
  <2>1. CASE x.part = "first"
    <3>1. memory' = [memory EXCEPT ![x.core][x.slot].first = x.no]
      BY <1>1, <2>1
    <3> QED BY <1>3, <1>4, <1>5, <2>1, <3>1 DEF Writes
  <2>2. CASE x.part = "others"
    <3>1. memory' = [memory EXCEPT ![x.core][x.slot].others = x.no]
      BY <1>1, <2>2
    <3> QED BY <1>3, <1>4, <1>5, <2>2, <3>1 DEF Writes
  <2>3. CASE x.part = "irq"
    <3>1. memory' = memory
      BY <1>1, <2>3
    <3> QED BY <2>3, <3>1 DEF Writes
  <2> QED BY <1>3, <2>1, <2>2, <2>3
<1>7. QED
  BY <1>1, <1>2, <1>3, <1>6 DEF x

LEMMA SlotsArrive ==
  ASSUME SlotInv, SlotsCareful, Arrive, NEW d \in Core
  PROVE  CoreInv(d)'
<1> DEFINE x == Head(net_fifo)
<1>0. Types /\ CoreTypes /\ CoreInv(d)
  BY Parted DEF Types
<1>1. UNCHANGED <<frame, marking, nextTxSlot, txSlotBusy, coreSlot, mail, taken, count, gone>>
  BY DEF Arrive, tx, history
<1>2. /\ net_fifo \in Seq(Chunk) /\ net_fifo # <<>> /\ net_fifo' = Tail(net_fifo)
      /\ x \in Chunk /\ x.core \in Core /\ x.slot \in Slot /\ x.no \in Nat
      /\ x.part \in {"first", "others", "irq"}
  BY <1>0, Written
<1>3. /\ \A e \in Core \ {x.core} : memory'[e] = memory[e]
      /\ \A s \in Slot \ {x.slot} : memory'[x.core][s] = memory[x.core][s]
      /\ x.part = "first" => memory'[x.core][x.slot] =
           [first |-> x.no, others |-> memory[x.core][x.slot].others]
      /\ x.part = "others" => memory'[x.core][x.slot] =
           [first |-> memory[x.core][x.slot].first, others |-> x.no]
      /\ x.part = "irq" => memory' = memory
  BY <1>0, Written DEF Writes
<1>4. MailKept(d) /\ HistoryKept(d) /\ FrameKept(d)
  BY <1>1 DEF MailKept, HistoryKept, FrameKept
<1>5. CASE x.core # d \/ x.part = "irq"
  <2>1. memory'[d] = memory[d]
    BY <1>3, <1>5
  <2>2. SlotsKept(d)
    BY <1>1, <2>1 DEF SlotsKept
  <2>3. ~FirstOf(x, d) /\ ~OthersOf(x, d)
    BY <1>5 DEF FirstOf, OthersOf
  <2>4. FifoKept(d)
    BY <1>2, <2>3 DEF FifoKept
  <2> QED BY <1>0, <1>4, <2>2, <2>4, Locality
<1>6. ASSUME x.core = d PROVE ~Booting(d)
  <2>1. 1 \in 1 .. Len(net_fifo) /\ net_fifo[1].core = d
    <3>1. 1 \in 1 .. Len(net_fifo) /\ net_fifo[1] = Head(net_fifo)
      BY <1>2, TailOf
    <3> QED BY <1>6, <3>1
  <2> QED BY <1>0, <2>1 DEF CoreInv, Restarted
<1>7. TakenInOrder(d)' /\ LastTaken(d)' = LastTaken(d) /\ LastTaken(d)' <= count'.to[d]
  BY <1>0, <1>1, TakenStays DEF CoreInv
<1>8. Booting(d)' <=> Booting(d)
  BY <1>1 DEF Booting
<1>9. ASSUME NEW a \in Nat, NEW z \in Nat, NEW N \in [Nat -> Nat],
             Rising(d, a, z, N) /\ NoneMissing(d, a, z, N) /\ Given(d, a, z) /\ InStep(d, a, z)
      PROVE  (Rising(d, a, z, N) /\ NoneMissing(d, a, z, N) /\ Given(d, a, z) /\ InStep(d, a, z))'
  <2>1. Rising(d, a, z, N)' /\ NoneMissing(d, a, z, N)'
    BY <1>1, <1>7, <1>9 DEF Rising, NoneMissing
  <2>2. Given(d, a, z)' /\ InStep(d, a, z)'
    BY <1>1, <1>9 DEF Given, InStep, Owed
  <2> QED BY <2>1, <2>2
<1>10. CASE x.core = d /\ x.part = "others"
  <2>1. PICK a \in Nat, m \in Nat, z \in Nat, N \in [Nat -> Nat] : Way(d, a, m, z, N)
    BY <1>0, <1>6, <1>10 DEF CoreInv, UnderWay
  <2>2. /\ memory'[d][x.slot].others = x.no /\ memory'[d][x.slot].first = memory[d][x.slot].first
        /\ \A s \in Slot : s # x.slot => memory'[d][s] = memory[d][s]
    BY <1>3, <1>10
  <2>3. OthersWritten(memory[d], memory'[d], x) /\ OthersOf(x, d)
    BY <1>10, <2>2 DEF OthersWritten, OthersOf
  <2>4. InFifo(net_fifo, d, m, z, N, memory[d]) /\ InMemory(memory[d], a, m, N)
    BY <2>1 DEF Way
  <2>5. a <= m /\ m <= z /\ z <= a + SLOTS
    BY <2>1 DEF Way, Window
  <2>6. z <= m + SLOTS
    BY <2>5, SizesAre
  <2>7. InFifo(net_fifo', d, m, z, N, memory'[d]) /\ \E p \in m .. z - 1 : x.slot = At(p)
    BY <1>2, <2>3, <2>4, <2>6, OthersArrive
  <2>8. InMemory(memory'[d], a, m, N)
    <3>1. PICK p \in m .. z - 1 : x.slot = At(p)
      BY <2>7
    <3>2. ASSUME NEW r \in a .. m - 1 PROVE At(r) # x.slot /\ At(r) \in Slot
      <4>1. r \in Nat /\ r < p /\ p < r + SLOTS /\ p \in Nat
        BY <2>5, SizesAre
      <4> QED BY <3>1, <4>1, Apart, AtIs
    <3>3. \A r \in a .. m - 1 : memory'[d][At(r)] = [first |-> N[r], others |-> N[r]]
      BY <2>2, <2>4, <3>2 DEF InMemory
    <3>4. \A s \in Slot : memory'[d][s].first = memory[d][s].first
      BY <2>2
    <3>5. \A s \in Slot : memory'[d][s].first # 0 => \E r \in a .. m - 1 : s = At(r)
      BY <2>4, <3>4 DEF InMemory
    <3> QED BY <3>3, <3>5 DEF InMemory
  <2>9. Way(d, a, m, z, N)'
    BY <1>9, <2>1, <2>7, <2>8 DEF Way
  <2>10. UnderWay(d)'
    BY <2>9 DEF UnderWay
  <2> QED BY <1>6, <1>7, <1>8, <1>10, <2>10 DEF CoreInv
<1>11. CASE x.core = d /\ x.part = "first"
  <2>1. PICK a \in Nat, m \in Nat, z \in Nat, N \in [Nat -> Nat] : Way(d, a, m, z, N)
    BY <1>0, <1>6, <1>11 DEF CoreInv, UnderWay
  <2>2. /\ memory'[d][x.slot] = [first |-> x.no, others |-> memory[d][x.slot].others]
        /\ \A s \in Slot : s # x.slot => memory'[d][s] = memory[d][s]
    BY <1>3, <1>11
  <2>3. FirstOf(x, d) /\ OthersKept(memory[d], memory'[d])
    BY <1>11, <2>2 DEF FirstOf, OthersKept
  <2>4. InFifo(net_fifo, d, m, z, N, memory[d]) /\ InMemory(memory[d], a, m, N)
    BY <2>1 DEF Way
  <2>5. a <= m /\ m <= z /\ z <= a + SLOTS
    BY <2>1 DEF Way, Window
  <2>6. Increasing(N, m, z)
    <3>1. \A p \in m .. z - 1 : p \in a .. z - 1
      BY <2>5
    <3> QED BY <2>1, <3>1 DEF Way, Rising, Increasing
  <2>7. /\ m < z /\ x.slot = At(m) /\ x.no = N[m] /\ memory[d][At(m)].others = N[m]
        /\ InFifo(net_fifo', d, m + 1, z, N, memory'[d])
    <3>1. net_fifo \in Seq(Chunk) /\ net_fifo # <<>> /\ net_fifo' = Tail(net_fifo)
      BY <1>2
    <3>2. FirstOf(Head(net_fifo), d)
      BY <2>3
    <3>3. InFifo(net_fifo, d, m, z, N, memory[d]) /\ OthersKept(memory[d], memory'[d])
      BY <2>3, <2>4
    <3>4. IsNext(Head(net_fifo), memory[d], m, z, N)
      BY <2>6, <3>1, <3>2, <3>3, FirstArrives
    <3>5. InFifo(Tail(net_fifo), d, m + 1, z, N, memory'[d])
      BY <2>6, <3>1, <3>2, <3>3, FirstArrives
    <3> QED BY <3>1, <3>4, <3>5 DEF IsNext
  <2>8. InMemory(memory'[d], a, m + 1, N)
    <3>1. ASSUME NEW r \in a .. m - 1 PROVE At(r) # x.slot /\ At(r) \in Slot
      <4>1. r \in Nat /\ r < m /\ m < r + SLOTS
        BY <2>5, <2>7, SizesAre
      <4> QED BY <2>7, <4>1, Apart, AtIs
    <3>2. \A r \in a .. m - 1 : memory'[d][At(r)] = [first |-> N[r], others |-> N[r]]
      BY <2>2, <2>4, <3>1 DEF InMemory
    <3>3. memory'[d][At(m)] = [first |-> N[m], others |-> N[m]]
      BY <2>2, <2>7
    <3>4. /\ m \in a .. (m + 1) - 1
          /\ \A p \in a .. (m + 1) - 1 : p = m \/ p \in a .. m - 1
          /\ \A p \in a .. m - 1 : p \in a .. (m + 1) - 1
      BY <2>5, OneMore
    <3>5. ASSUME NEW s \in Slot, memory'[d][s].first # 0
          PROVE  \E r \in a .. (m + 1) - 1 : s = At(r)
      <4>1. CASE s = x.slot
        BY <2>7, <3>4, <4>1
      <4>2. CASE s # x.slot
        <5>1. memory[d][s].first # 0
          BY <2>2, <3>5, <4>2
        <5>2. PICK r \in a .. m - 1 : s = At(r)
          BY <2>4, <5>1 DEF InMemory
        <5> QED BY <3>4, <5>2
      <4> QED BY <4>1, <4>2
    <3>6. \A r \in a .. (m + 1) - 1 : memory'[d][At(r)] = [first |-> N[r], others |-> N[r]]
      BY <3>2, <3>3, <3>4
    <3> QED BY <3>5, <3>6 DEF InMemory
  <2>9. Window(a, m + 1, z)
    BY <2>5, <2>7 DEF Window
  <2>10. Way(d, a, m + 1, z, N)'
    BY <1>9, <2>1, <2>7, <2>8, <2>9 DEF Way
  <2>11. UnderWay(d)'
    <3>1. PICK y \in Nat : y = m + 1
      OBVIOUS
    <3>2. Way(d, a, y, z, N)'
      BY <2>10, <3>1
    <3> QED BY <3>2 DEF UnderWay
  <2> QED BY <1>6, <1>7, <1>8, <1>11, <2>11 DEF CoreInv
<1>12. QED
  BY <1>2, <1>5, <1>10, <1>11

-----------------------------------------------------------------------------
(***************************************************************************)
(* The cores.                                                              *)
(***************************************************************************)
\* What is in net_fifo does not depend on a slot that the core has taken.
LEMMA FifoElsewhere ==
  ASSUME NEW q \in Seq(Chunk), NEW c \in Core, NEW a \in Nat, NEW m \in Nat, NEW z \in Nat,
         a < m, Window(a, m, z), NEW N \in [Nat -> Nat], NEW mem, NEW mem2,
         InFifo(q, c, m, z, N, mem), \A s \in Slot : s # At(a) => mem2[s] = mem[s]
  PROVE  InFifo(q, c, m, z, N, mem2)
<1>1. FirstLines(q, c, m, z, N) /\ OtherLines(q, c, mem)
  BY DEF InFifo
<1>2. m <= z /\ z <= a + SLOTS
  BY DEF Window
<1>3. ASSUME NEW i \in 1 .. Len(q), FirstOf(q[i], c) PROVE mem2[q[i].slot] = mem[q[i].slot]
  <2>1. PICK p \in m .. z - 1 : q[i].slot = At(p)
    BY <1>1, <1>3 DEF FirstLines
  <2>2. p \in Nat /\ a < p /\ p < a + SLOTS
    BY <1>2, SizesAre
  <2>3. At(p) # At(a) /\ At(p) \in Slot
    BY <2>2, Apart, AtIs
  <2> QED BY <2>1, <2>3
<1>4. OtherLines(q, c, mem2)
  BY <1>1, <1>3 DEF OtherLines
<1>5. QED
  BY <1>1, <1>4 DEF InFifo

LEMMA OneLess ==
  ASSUME NEW a \in Nat, NEW z \in Nat, a < z, z <= a + SLOTS
  PROVE  /\ a \in a .. z - 1
         /\ \A p \in a + 1 .. z - 1 : p \in a .. z - 1 /\ p # a /\ p \in Nat /\ a < p /\ p < a + SLOTS
BY SizesAre

LEMMA SlotsTakes ==
  ASSUME SlotInv, SlotsCareful, NEW c \in Core, CoreTakes(c), NEW d \in Core
  PROVE  CoreInv(d)'
<1> DEFINE s == coreSlot[c]
<1>0. Types /\ CoreTypes /\ CoreInv(d) /\ LastTaken(d) \in Nat
  BY Parted DEF Types
<1>1. /\ UNCHANGED <<frame, marking, nextTxSlot, txSlotBusy, net_fifo, count, gone>>
      /\ taken' = [taken EXCEPT ![c] = Append(@, memory[c][s])]
      /\ memory' = [memory EXCEPT ![c][s] = Vacant]
      /\ coreSlot' = [coreSlot EXCEPT ![c] = (s + 1) % SLOTS]
      /\ Post(c, "RXDONE", s) /\ memory[c][s].first # 0
  BY DEF CoreTakes, tx, fifo
<1>2. s \in Slot /\ memory \in [Core -> [Slot -> Held]] /\ coreSlot \in [Core -> Slot]
      /\ taken \in [Core -> Seq(Held)] /\ memory[c][s] \in Held
  BY <1>0 DEF CoreTypes
<1>3. mail'[c] = Append(mail[c], Done(s)) /\ \A e \in Core \ {c} : mail'[e] = mail[e]
  <2>1. Done(s) \in Mail
    BY <1>2, DoneIs
  <2> QED BY <1>0, <1>1, <2>1, Posted DEF Done
<1>4. FifoKept(d) /\ FrameKept(d)
  BY <1>1 DEF FifoKept, FrameKept
<1>5. CASE d # c
  <2>1. memory'[d] = memory[d] /\ coreSlot'[d] = coreSlot[d] /\ taken'[d] = taken[d] /\ mail'[d] = mail[d]
    BY <1>1, <1>2, <1>3, <1>5
  <2>2. SlotsKept(d) /\ HistoryKept(d) /\ MailKept(d)
    BY <1>1, <2>1 DEF SlotsKept, HistoryKept, MailKept
  <2> QED BY <1>0, <1>4, <2>2, Locality
<1>6. CASE d = c
  <2> HIDE DEF s
  <2>1. ~Booting(d)
    BY <1>0, <1>1, <1>2, <1>6 DEF CoreInv, Restarted
  <2>2. PICK a \in Nat, m \in Nat, z \in Nat, N \in [Nat -> Nat] : Way(d, a, m, z, N)
    BY <1>0, <2>1 DEF CoreInv, UnderWay
  <2>3. /\ InFifo(net_fifo, d, m, z, N, memory[d]) /\ InMemory(memory[d], a, m, N)
        /\ Window(a, m, z) /\ Given(d, a, z) /\ InStep(d, a, z)
    BY <2>2 DEF Way
  <2>4. s = At(a)
    BY <1>6, <2>3 DEF InStep, s
  <2>5. a < m /\ a + 1 <= m /\ m <= z /\ z <= a + SLOTS
    <3>1. PICK p \in a .. m - 1 : s = At(p)
      BY <1>1, <1>2, <1>6, <2>3 DEF InMemory
    <3> QED BY <2>3, <3>1 DEF Window
  <2>6. memory[d][s] = [first |-> N[a], others |-> N[a]] /\ N[a] \in Nat
    BY <2>3, <2>4, <2>5 DEF InMemory
  <2>7. a \in a .. z - 1 /\ \A p \in (a + 1) .. z - 1 : p \in a .. z - 1 /\ p # a /\ p \in Nat /\ a < p /\ p < a + SLOTS
    <3>1. a < z /\ z <= a + SLOTS
      BY <2>5
    <3> QED BY <3>1, OneLess
  <2>8. /\ memory'[d][s].first = 0 /\ \A r \in Slot : r # s => memory'[d][r] = memory[d][r]
        /\ coreSlot'[d] = (s + 1) % SLOTS /\ taken'[d] = Append(taken[d], memory[d][s])
        /\ mail'[d] = Append(mail[d], Done(s))
    BY <1>1, <1>2, <1>3, <1>6 DEF Vacant
  <2>9. coreSlot'[d] = At(a + 1)
    BY <2>4, <2>8, NextSlot
  <2>10. taken[d] \in Seq(Held) /\ taken'[d] = Append(taken[d], [first |-> N[a], others |-> N[a]])
    BY <1>2, <2>6, <2>8
  <2>28. PICK h \in Held : h = [first |-> N[a], others |-> N[a]]
    BY <2>6 DEF Held
  <2>29. /\ taken'[d] \in Seq(Held) /\ Len(taken[d]) \in Nat
         /\ Len(taken'[d]) = Len(taken[d]) + 1 /\ taken'[d][Len(taken[d]) + 1] = h
         /\ \A i \in 1 .. Len(taken[d]) : taken'[d][i] = taken[d][i]
    <3>1. PICK t \in Seq(Held) : t = taken[d]
      BY <2>10
    <3>2. taken'[d] = Append(t, h)
      BY <2>10, <2>28, <3>1
    <3>3. /\ Append(t, h) \in Seq(Held) /\ Len(t) \in Nat
          /\ Len(Append(t, h)) = Len(t) + 1 /\ Append(t, h)[Len(t) + 1] = h
          /\ \A i \in 1 .. Len(t) : Append(t, h)[i] = t[i]
      OBVIOUS
    <3> QED BY <3>1, <3>2, <3>3
  <2>11. LastTaken(d)' = N[a]
    <3>1. taken'[d] # <<>> /\ taken'[d][Len(taken'[d])] = [first |-> N[a], others |-> N[a]]
      <4>1. taken'[d][Len(taken'[d])] = h
        BY <2>29
      <4>2. taken'[d] # <<>>
        BY <2>29
      <4> QED BY <2>28, <4>1, <4>2
    <3>2. LastTaken(d)' = taken'[d][Len(taken'[d])].first
      BY <3>1 DEF LastTaken
    <3> QED BY <3>1, <3>2
  <2>12. LastTaken(d) < N[a] /\ N[a] <= count.to[d] /\ (frame.core = d /\ marking # d => N[a] < frame.no)
    BY <2>2, <2>7 DEF Way, Rising
  <2>13. \A p \in a + 1 .. z - 1 : N[a] < N[p] /\ N[p] \in Nat
    BY <2>2, <2>7 DEF Way, Rising
  <2>14. TakenInOrder(d)'
    <3>1. PICK t \in Seq(Held) : t = taken[d]
      BY <2>10
    <3>2. PICK n \in Nat : n = Len(t)
      BY <3>1
    <3>3. /\ Len(taken'[d]) = n + 1 /\ taken'[d][n + 1] = [first |-> N[a], others |-> N[a]]
          /\ \A i \in 1 .. n : taken'[d][i] = t[i]
      BY <2>28, <2>29, <3>1, <3>2
    <3>4. LastTaken(d) = IF n = 0 THEN 0 ELSE t[n].first
      <4>1. t = <<>> <=> n = 0
        BY <3>2
      <4> QED BY <3>1, <3>2, <4>1 DEF LastTaken
    <3>5. ASSUME NEW k \in LastTaken(d) + 1 .. N[a] - 1 PROVE <<d, k>> \in gone
      <4>1. k \in 1 .. count.to[d] /\ ~(k <= LastTaken(d)) /\ k < N[a] /\ k \in Nat
        <5>1. PICK l \in Nat, v \in Nat, e \in Nat : l = LastTaken(d) /\ v = N[a] /\ e = count.to[d]
          BY <1>0, <2>6 DEF CoreTypes
        <5>2. k \in l + 1 .. v - 1 /\ v <= e /\ l < v
          BY <2>12, <3>5, <5>1
        <5>3. k \in 1 .. e /\ ~(k <= l) /\ k < v /\ k \in Nat
          BY <5>2
        <5> QED BY <5>1, <5>3
      <4>2. \A p \in a .. z - 1 : N[p] # k
        <5> SUFFICES ASSUME NEW p \in a .. z - 1 PROVE N[p] # k
          OBVIOUS
        <5>1. CASE p = a
          <6>1. N[p] = N[a]
            BY <5>1
          <6> QED BY <2>6, <4>1, <6>1
        <5>2. CASE p # a
          <6>1. p \in a + 1 .. z - 1
            BY <5>2
          <6>2. N[a] < N[p] /\ N[p] \in Nat
            BY <2>13, <6>1
          <6> QED BY <2>6, <4>1, <6>2
        <5> QED BY <5>1, <5>2
      <4>3. ASSUME frame.core = d, marking # d, frame.no = k PROVE FALSE
        <5>1. PICK v \in Nat, f \in Nat : v = N[a] /\ f = frame.no
          BY <1>0, <2>6 DEF Types, TxTypes
        <5>2. v < f
          BY <2>12, <4>3, <5>1
        <5>3. k < v /\ k = f
          BY <4>1, <4>3, <5>1
        <5> QED BY <5>2, <5>3
      <4> QED BY <2>2, <4>1, <4>2, <4>3 DEF Way, NoneMissing
    <3>6. ASSUME NEW i \in 1 .. n + 1
          PROVE  InTurn(d, taken'[d], i)
      <4>1. CASE i = n + 1
        <5>1. LastTaken(d) = IF i = 1 THEN 0 ELSE taken'[d][i - 1].first
          <6>1. CASE n = 0
            BY <3>4, <4>1, <6>1
          <6>2. CASE n # 0
            <7>1. i # 1 /\ i - 1 = n /\ n \in 1 .. n
              BY <4>1, <6>2
            <7> QED BY <3>3, <3>4, <6>2, <7>1
          <6> QED BY <6>1, <6>2
        <5>2. taken'[d][i].first = N[a] /\ taken'[d][i].others = N[a]
          <6>1. taken'[d][i] = [first |-> N[a], others |-> N[a]]
            BY <3>3, <4>1
          <6> QED BY <6>1
        <5> QED BY <1>0, <2>6, <2>12, <3>5, <5>1, <5>2 DEF InTurn
      <4>2. CASE i \in 1 .. n
        <5>1. taken'[d][i] = t[i] /\ (i # 1 => taken'[d][i - 1] = t[i - 1])
          <6>1. i # 1 => i - 1 \in 1 .. n
            BY <4>2
          <6> QED BY <3>3, <4>2, <6>1
        <5>2. TakenInOrder(d)
          BY <1>0 DEF CoreInv
        <5>3. i \in 1 .. Len(taken[d])
          BY <3>1, <3>2, <4>2
        <5>4. InTurn(d, taken[d], i)
          BY <5>2, <5>3 DEF TakenInOrder
        <5>5. taken'[d][i] = taken[d][i] /\ (i # 1 => taken'[d][i - 1] = taken[d][i - 1])
          BY <3>1, <5>1
        <5>6. CASE i = 1
          BY <5>4, <5>5, <5>6 DEF InTurn
        <5>7. CASE i # 1
          <6>1. taken'[d][i - 1] = taken[d][i - 1]
            BY <5>5, <5>7
          <6> QED BY <5>4, <5>5, <5>7, <6>1 DEF InTurn
        <5> QED BY <5>6, <5>7
      <4> QED BY <4>1, <4>2
    <3> QED BY <1>1, <3>3, <3>6 DEF TakenInOrder, InTurn
  <2>15. InFifo(net_fifo', d, m, z, N, memory'[d])
    <3>1. net_fifo \in Seq(Chunk) /\ net_fifo' = net_fifo
      BY <1>0, <1>1 DEF Types, TxTypes
    <3>2. \A r \in Slot : r # At(a) => memory'[d][r] = memory[d][r]
      BY <2>4, <2>8
    <3>3. InFifo(net_fifo, d, m, z, N, memory'[d])
      BY <2>3, <2>5, <3>1, <3>2, FifoElsewhere
    <3> QED BY <3>1, <3>3
  <2>16. InMemory(memory'[d], a + 1, m, N)
    <3>1. ASSUME NEW p \in a + 1 .. m - 1
          PROVE  p \in a .. m - 1 /\ At(p) # s /\ At(p) \in Slot
      <4>1. p \in a .. m - 1 /\ p \in a + 1 .. z - 1
        BY <2>5
      <4> QED BY <2>4, <2>7, <4>1, Apart, AtIs
    <3>2. \A p \in a + 1 .. m - 1 : memory'[d][At(p)] = [first |-> N[p], others |-> N[p]]
      BY <2>3, <2>8, <3>1 DEF InMemory
    <3>3. ASSUME NEW r \in Slot, memory'[d][r].first # 0
          PROVE  \E p \in a + 1 .. m - 1 : r = At(p)
      <4>1. r # s /\ memory[d][r].first # 0
        BY <2>8, <3>3
      <4>2. PICK p \in a .. m - 1 : r = At(p)
        BY <2>3, <4>1 DEF InMemory
      <4>3. p # a
        BY <2>4, <4>1, <4>2
      <4>4. p \in a + 1 .. m - 1
        BY <4>3
      <4> QED BY <4>2, <4>4
    <3> QED BY <3>2, <3>3 DEF InMemory
  <2>17. Rising(d, a + 1, z, N)'
    <3>1. \A p, r \in a + 1 .. z - 1 : p < r => N[p] < N[r]
      BY <2>2, <2>7 DEF Way, Rising
    <3>2. \A p \in a + 1 .. z - 1 : N[p] <= count.to[d] /\ (frame.core = d /\ marking # d => N[p] < frame.no)
      BY <2>2, <2>7 DEF Way, Rising
    <3> QED BY <1>1, <2>11, <2>12, <2>13, <3>1, <3>2 DEF Rising
  <2>18. NoneMissing(d, a + 1, z, N)'
    <3>1. ASSUME NEW k \in 1 .. count.to[d]
          PROVE  \/ k <= N[a] \/ <<d, k>> \in gone \/ \E p \in a + 1 .. z - 1 : N[p] = k
                 \/ frame.core = d /\ marking # d /\ frame.no = k
      <4>1. \/ k <= LastTaken(d) \/ <<d, k>> \in gone \/ \E p \in a .. z - 1 : N[p] = k
            \/ frame.core = d /\ marking # d /\ frame.no = k
        BY <2>2 DEF Way, NoneMissing
      <4>2. ASSUME NEW p \in a .. z - 1, N[p] = k PROVE k <= N[a] \/ p \in a + 1 .. z - 1
        <5>1. CASE p = a
          BY <2>6, <4>2, <5>1
        <5>2. CASE p # a
          BY <5>2
        <5> QED BY <5>1, <5>2
      <4>3. k <= LastTaken(d) => k <= N[a]
        BY <1>0, <2>6, <2>12
      <4> QED BY <4>1, <4>2, <4>3
    <3> QED BY <1>1, <2>11, <3>1 DEF NoneMissing
  <2>19. /\ (Boots(mail'[d]) <=> Boots(mail[d])) /\ Returned(mail'[d]) = Returned(mail[d]) \cup {s}
         /\ ToldOnce(mail'[d])
    <3>1. s \notin Returned(mail[d]) /\ ToldOnce(mail[d])
      BY <2>3, <2>4, <2>7 DEF Given
    <3>2. mail[d] \in Seq(Mail)
      BY <1>0 DEF CoreTypes
    <3>3. s \in Slot
      BY <1>2 DEF s
    <3> QED BY <2>8, <3>1, <3>2, <3>3, DoneAppended
  <2>20. Given(d, a + 1, z)'
    <3>1. ASSUME NEW p \in a + 1 .. z - 1 PROVE At(p) \notin Returned(mail'[d])
      <4>1. At(p) # s
        BY <2>4, <2>7, Apart
      <4>2. At(p) \notin Returned(mail[d])
        BY <2>3, <2>7 DEF Given
      <4> QED BY <2>19, <4>1, <4>2
    <3> QED BY <2>19, <3>1 DEF Given
  <2>21. Owed(d, a + 1, z)' = Owed(d, a, z)
    <3>1. \A p \in a .. z - 1 : p = a \/ p \in a + 1 .. z - 1
      OBVIOUS
    <3>2. {At(p) : p \in a .. z - 1} = {At(a)} \cup {At(p) : p \in a + 1 .. z - 1}
      BY <2>7, <3>1
    <3> QED BY <2>4, <2>19, <3>2 DEF Owed
  <2>22. InStep(d, a + 1, z)'
    BY <1>1, <2>3, <2>9, <2>21 DEF InStep
  <2>23. Window(a + 1, m, z)
    BY <2>5, SizesAre DEF Window
  <2>24. Way(d, a + 1, m, z, N)'
    BY <2>15, <2>16, <2>17, <2>18, <2>20, <2>22, <2>23 DEF Way
  <2>25. UnderWay(d)'
    <3>1. PICK y \in Nat : y = a + 1
      OBVIOUS
    <3>2. Way(d, y, m, z, N)'
      BY <2>24, <3>1
    <3> QED BY <3>2 DEF UnderWay
  <2>26. ~Booting(d)'
    BY <2>1, <2>19, BootingIs, BootingWas
  <2>27. LastTaken(d)' <= count'.to[d]
    BY <1>1, <2>11, <2>12
  <2> QED BY <2>14, <2>25, <2>26, <2>27 DEF CoreInv
<1>7. QED
  BY <1>5, <1>6

\* Steps that do not concern the way to a core: a frame for nowhere, the
\* time-outs, and what a core sends.
LEMMA SlotsElsewhere ==
  ASSUME SlotInv, TxIllegal \/ TxTimeout \/ UNCHANGED vars \/ \E c \in Core : TimePasses(c),
         NEW d \in Core
  PROVE  CoreInv(d)'
<1>0. Types /\ Offered /\ CoreInv(d) /\ d # -1
  BY Parted, SizesAre
<1>1. /\ UNCHANGED <<marking, nextTxSlot, txSlotBusy, net_fifo, memory, coreSlot, mail, taken, count, gone>>
      /\ UNCHANGED frame \/ (TxIllegal /\ frame' = NoFrame)
  BY DEF TxIllegal, TxTimeout, vars, TimePasses, tx, fifo, cores, history
<1>2. FrameKept(d)
  <2>1. CASE UNCHANGED frame
    BY <1>1, <2>1 DEF FrameKept
  <2>2. CASE TxIllegal /\ frame' = NoFrame
    <3>1. frame.core = -1
      BY <1>0, <2>2 DEF TxIllegal, Offered
    <3>2. frame'.core = -1
      BY <2>2 DEF NoFrame
    <3> QED BY <1>0, <1>1, <3>1, <3>2 DEF FrameKept
  <2> QED BY <1>1, <2>1, <2>2
<1>3. SlotsKept(d) /\ HistoryKept(d) /\ FifoKept(d) /\ MailKept(d)
  BY <1>1 DEF SlotsKept, HistoryKept, FifoKept, MailKept
<1>4. QED
  BY <1>0, <1>2, <1>3, Locality

LEMMA SlotsSends ==
  ASSUME SlotInv, NEW c \in Core, CoreContinues(c) \/ \E n \in UpLines : CoreStarts(c, n),
         NEW d \in Core
  PROVE  CoreInv(d)'
<1>0. Types /\ CoreTypes /\ CoreInv(d)
  BY Parted DEF Types
<1>1. UNCHANGED <<frame, marking, nextTxSlot, txSlotBusy, net_fifo, memory, coreSlot, taken, gone>>
  BY DEF CoreStarts, CoreContinues, tx, fifo, history
<1>2. count'.to = count.to
  <2>1. ASSUME NEW n \in UpLines, CoreStarts(c, n) PROVE count'.to = count.to
    BY <1>0, <2>1, CountFrom DEF CoreStarts
  <2>2. CASE CoreContinues(c)
    BY <2>2 DEF CoreContinues, history
  <2> QED BY <2>1, <2>2
<1>3. PICK box \in {"PACKETSTART", "PACKETDATA"}, f \in Frame : Post(c, box, f)
  <2>1. ASSUME NEW n \in UpLines, CoreStarts(c, n)
        PROVE  \E b \in {"PACKETSTART", "PACKETDATA"}, g \in Frame : Post(c, b, g)
    <3>1. n \in Nat /\ count.from[c] + 1 \in Nat
      BY <1>0, NetAssumption DEF CoreTypes
    <3>2. [no |-> count.from[c] + 1, lines |-> n, done |-> 0] \in Frame
      BY <3>1 DEF Frame
    <3>3. Post(c, "PACKETSTART", [no |-> count.from[c] + 1, lines |-> n, done |-> 0])
      BY <2>1 DEF CoreStarts
    <3> QED BY <3>2, <3>3
  <2>2. CASE CoreContinues(c)
    <3>1. sending[c] \in Frame
      BY <1>0 DEF CoreTypes
    <3>2. Post(c, "PACKETDATA", sending[c])
      BY <2>2 DEF CoreContinues
    <3> QED BY <3>1, <3>2
  <2> QED BY <2>1, <2>2
<1> DEFINE x == [box |-> box, arg |-> f]
<1>4. x \in Mail /\ Unrelated(x)
  BY DEF Mail, Unrelated, IsConfig, IsDone
<1>5. mail'[c] = Append(mail[c], x) /\ \A e \in Core \ {c} : mail'[e] = mail[e]
  BY <1>0, <1>3, <1>4, Posted
<1> HIDE DEF x
<1>6. MailKept(d)
  BY <1>4, <1>5 DEF MailKept
<1>7. SlotsKept(d) /\ HistoryKept(d) /\ FrameKept(d) /\ FifoKept(d)
  BY <1>1, <1>2 DEF SlotsKept, HistoryKept, FrameKept, FifoKept
<1>8. QED
  BY <1>0, <1>6, <1>7, Locality

\* A restart comes when nothing is on its way; what is in the slots is lost.
LEMMA SlotsRestart ==
  ASSUME SlotInv, SlotsCareful, NEW c \in Core, NEW s \in Slot, Restart(c, s), NEW d \in Core
  PROVE  CoreInv(d)'
<1> DEFINE lost == {memory[c][k].first : k \in Slot} \ {0}
<1>0. Types /\ CoreTypes /\ Offered /\ CoreInv(d) /\ LastTaken(d) \in Nat /\ -1 \notin Core
  BY Parted, SizesAre DEF Types
<1>1. /\ UNCHANGED <<frame, marking, nextTxSlot, txSlotBusy, net_fifo, taken>>
      /\ memory' = [memory EXCEPT ![c] = [k \in Slot |-> Vacant]]
      /\ coreSlot' = [coreSlot EXCEPT ![c] = s] /\ Post(c, "CONFIG", s)
      /\ gone' = gone \cup {<<c, no>> : no \in lost}
      /\ frame.core # c /\ \A i \in 1 .. Len(net_fifo) : net_fifo[i].core # c
  BY DEF Restart, tx, fifo, SlotsCareful
<1>2. count'.to = count.to
  BY <1>0, CountRestart DEF Restart
<1>3. memory \in [Core -> [Slot -> Held]] /\ coreSlot \in [Core -> Slot] /\ mail[c] \in Seq(Mail)
  BY <1>0 DEF CoreTypes
<1>4. mail'[c] = Append(mail[c], Config(s)) /\ \A e \in Core \ {c} : mail'[e] = mail[e]
  <2>1. Config(s) \in Mail
    BY DoneIs
  <2> QED BY <1>0, <1>1, <2>1, Posted DEF Config
<1>5. gone \subseteq gone'
  BY <1>1
<1>6. CASE d # c
  <2>1. SlotsKept(d) /\ MailKept(d)
    BY <1>1, <1>3, <1>4, <1>6 DEF SlotsKept, MailKept
  <2>2. HistoryKept(d) /\ FrameKept(d) /\ FifoKept(d)
    BY <1>1, <1>2, <1>5 DEF HistoryKept, FrameKept, FifoKept
  <2> QED BY <1>0, <2>1, <2>2, Locality
<1>7. CASE d = c
  <2>1. TakenInOrder(c)' /\ LastTaken(c)' = LastTaken(c)
    BY <1>0, <1>1, <1>5, <1>7, TakenStays DEF CoreInv
  <2>2. Boots(mail'[c]) /\ Announced(mail'[c], s)
    BY <1>3, <1>4, ConfigAppended
  <2>3. \A r \in Slot : memory'[c][r].first = 0
    BY <1>1, <1>3 DEF Vacant
  <2>4. frame'.core # c /\ marking' # c
    BY <1>0, <1>1 DEF Offered
  <2>5. ASSUME NEW k \in 1 .. count.to[c] PROVE k <= LastTaken(c) \/ <<c, k>> \in gone'
    <3>1. CASE Booting(c)
      BY <1>0, <1>5, <1>7, <3>1 DEF CoreInv, Restarted
    <3>2. CASE ~Booting(c)
      <4>1. PICK a \in Nat, m \in Nat, z \in Nat, N \in [Nat -> Nat] : Way(c, a, m, z, N)
        BY <1>0, <1>7, <3>2 DEF CoreInv, UnderWay
      <4>2. \/ k <= LastTaken(c) \/ <<c, k>> \in gone \/ \E p \in a .. z - 1 : N[p] = k
            \/ frame.core = c
        BY <4>1 DEF Way, NoneMissing
      <4>3. ASSUME NEW p \in a .. z - 1, N[p] = k PROVE <<c, k>> \in gone'
        <5>1. p \notin m .. z - 1
          BY <1>1, <4>1 DEF Way, InFifo, FirstLines, FirstOf
        <5>2. p \in a .. m - 1 /\ p \in Nat
          BY <5>1
        <5>3. memory[c][At(p)] = [first |-> k, others |-> k] /\ At(p) \in Slot
          BY <4>1, <4>3, <5>2, AtIs DEF Way, InMemory
        <5>4. memory[c][At(p)].first = k /\ k # 0
          BY <5>3
        <5>5. k \in lost
          BY <5>3, <5>4
        <5> HIDE DEF lost
        <5> QED BY <1>1, <5>5
      <4> QED BY <1>1, <1>5, <4>2, <4>3
    <3> QED BY <3>1, <3>2
  <2>6. Restarted(c)'
    <3>1. coreSlot'[c] = s
      BY <1>1, <1>3
    <3>2. \A k \in 1 .. count'.to[c] : k <= LastTaken(c)' \/ <<c, k>> \in gone'
      BY <1>2, <2>1, <2>5
    <3> QED BY <1>1, <2>2, <2>3, <2>4, <3>1, <3>2 DEF Restarted
  <2>7. Booting(c)'
    BY <2>2, BootingWas
  <2>8. LastTaken(c)' <= count'.to[c]
    BY <1>0, <1>2, <1>7, <2>1 DEF CoreInv
  <2> QED BY <1>7, <2>1, <2>6, <2>7, <2>8 DEF CoreInv
<1>8. QED
  BY <1>6, <1>7

-----------------------------------------------------------------------------
(***************************************************************************)
(* Reception.                                                              *)
(***************************************************************************)
\* The announcement of the latest restart: driver and core begin anew.
LEMMA SlotsReset ==
  ASSUME SlotInv, NEW c \in Core, marking # c, Restarted(c), mail[c] # <<>>,
         UNCHANGED <<frame, marking, net_fifo, memory, coreSlot, count, taken, gone>>,
         Reset(c, Head(mail[c]).arg), mail'[c] = Tail(mail[c]), ~Boots(Tail(mail[c]))
  PROVE  UnderWay(c)'
<1>0. Types /\ CoreTypes /\ mail[c] \in Seq(Mail) /\ coreSlot[c] \in Slot
  BY Parted DEF Types, CoreTypes
<1>1. PICK a \in Nat : a = coreSlot[c] /\ a \in Slot
  BY <1>0, SizesAre
<1>2. At(a) = a
  <2>1. a \in 0 .. SLOTS - 1 /\ a = SLOTS * 0 + a
    BY <1>1, SizesAre DEF Slot
  <2> QED BY <2>1, Unique
<1>3. Head(mail[c]) = Config(a) /\ Returned(mail'[c]) = {} /\ ToldOnce(mail'[c])
  BY <1>0, <1>1, ConfigShifted DEF Restarted
<1>4. nextTxSlot'[c] = a /\ txSlotBusy'[c] = {}
  <2>1. Reset(c, a)
    BY <1>1, <1>3, DoneIs
  <2> QED BY <1>0, <2>1 DEF Reset, Types, TxTypes
<1>5. PICK N \in [Nat -> Nat] : TRUE
  <2>1. [n \in Nat |-> 0] \in [Nat -> Nat]
    OBVIOUS
  <2> QED BY <2>1
<1>6. \A p \in a .. a - 1 : FALSE
  OBVIOUS
<1>7. InFifo(net_fifo', c, a, a, N, memory'[c])
  <2>1. \A i \in 1 .. Len(net_fifo') : ~FirstOf(net_fifo'[i], c) /\ ~OthersOf(net_fifo'[i], c)
    BY DEF Restarted, FirstOf, OthersOf
  <2> QED BY <1>6, <2>1 DEF InFifo, FirstLines, OtherLines
<1>8. InMemory(memory'[c], a, a, N)
  BY <1>6 DEF Restarted, InMemory
<1>9. LastTaken(c)' = LastTaken(c)
  BY DEF LastTaken
<1>10. Rising(c, a, a, N)' /\ NoneMissing(c, a, a, N)'
  BY <1>6, <1>9 DEF Restarted, Rising, NoneMissing
<1>11. Given(c, a, a)'
  BY <1>3, <1>6 DEF Given
<1>12. Owed(c, a, a)' = {}
  BY <1>3, <1>6 DEF Owed
<1>13. InStep(c, a, a)'
  BY <1>1, <1>2, <1>4, <1>12 DEF InStep
<1>14. Window(a, a, a)
  BY SizesAre DEF Window
<1>15. Way(c, a, a, a, N)'
  BY <1>7, <1>8, <1>10, <1>11, <1>13, <1>14 DEF Way
<1>16. QED
  BY <1>15 DEF UnderWay

\* A slot is given back.
LEMMA SlotsComplete ==
  ASSUME SlotInv, NEW c \in Core, marking # c, UnderWay(c), mail[c] # <<>>,
         UNCHANGED <<frame, marking, net_fifo, memory, coreSlot, count, taken, gone>>,
         IsDone(Head(mail[c])), Complete(c, Head(mail[c]).arg), mail'[c] = Tail(mail[c])
  PROVE  UnderWay(c)'
<1>0. Types /\ CoreTypes /\ mail[c] \in Seq(Mail) /\ Head(mail[c]) \in Mail
  BY Parted DEF Types, CoreTypes
<1>1. PICK s \in Slot : Head(mail[c]) = Done(s) /\ s = Head(mail[c]).arg
  BY <1>0, IsWhich
<1>2. nextTxSlot'[c] = nextTxSlot[c] /\ txSlotBusy'[c] = txSlotBusy[c] \ {s}
  <2>1. Complete(c, s)
    BY <1>1
  <2> QED BY <1>0, <2>1 DEF Complete, Types, TxTypes
<1>3. PICK a \in Nat, m \in Nat, z \in Nat, N \in [Nat -> Nat] : Way(c, a, m, z, N)
  BY DEF UnderWay
<1>4. ToldOnce(mail[c]) /\ \A p \in a .. z - 1 : At(p) \notin Returned(mail[c])
  BY <1>3 DEF Way, Given
<1>5. /\ Returned(mail[c]) = Returned(mail'[c]) \cup {s} /\ s \notin Returned(mail'[c])
      /\ ToldOnce(mail'[c])
  <2>1. s \in Returned(mail[c])
    <3>1. mail[c][1] = Done(s) /\ 1 \in 1 .. Len(mail[c])
      BY <1>0, <1>1, Shorter
    <3> QED BY <3>1 DEF Returned
  <2>2. /\ Returned(Tail(mail[c])) \subseteq Returned(mail[c])
        /\ \A r \in Returned(mail[c]) : Head(mail[c]) = Done(r) \/ r \in Returned(Tail(mail[c]))
        /\ s \notin Returned(Tail(mail[c]))
    BY <1>0, <1>1, <1>4, ReturnedShifted
  <2>3. \A r \in Returned(mail[c]) : r \in Slot /\ (Done(s) = Done(r) => s = r)
    BY DoneIs DEF Returned
  <2>4. Returned(mail[c]) = Returned(Tail(mail[c])) \cup {s}
    BY <1>1, <2>1, <2>2, <2>3
  <2> QED BY <1>0, <1>4, <2>2, <2>4, OnceShifted
<1>6. Given(c, a, z)'
  BY <1>4, <1>5 DEF Given
<1>7. Owed(c, a, z)' = Owed(c, a, z) \ {s}
  <2>1. s \notin {At(p) : p \in a .. z - 1}
    BY <1>4, <1>5
  <2> QED BY <1>5, <2>1 DEF Owed
<1>8. InStep(c, a, z)'
  BY <1>2, <1>3, <1>7 DEF Way, InStep
<1>9. LastTaken(c)' = LastTaken(c)
  BY DEF LastTaken
<1>10. Rising(c, a, z, N)' /\ NoneMissing(c, a, z, N)'
  BY <1>3, <1>9 DEF Way, Rising, NoneMissing
<1>11. Way(c, a, m, z, N)'
  BY <1>3, <1>6, <1>8, <1>10 DEF Way
<1>12. QED
  BY <1>11 DEF UnderWay

\* As long as another restart is announced, what comes before it is without effect.
LEMMA SlotsAwait ==
  ASSUME SlotInv, NEW c \in Core, Restarted(c), mail[c] # <<>>,
         UNCHANGED <<frame, marking, net_fifo, memory, coreSlot, count, taken, gone>>,
         mail'[c] = Tail(mail[c]), ~IsConfig(Head(mail[c])) \/ Boots(Tail(mail[c]))
  PROVE  Restarted(c)'
<1>1. mail[c] \in Seq(Mail) /\ coreSlot[c] \in Slot
  BY Parted DEF Types, CoreTypes
<1>2. Announced(mail'[c], coreSlot'[c])
  BY <1>1, AnnouncedShifted DEF Restarted
<1>3. LastTaken(c)' = LastTaken(c)
  BY DEF LastTaken
<1>4. QED
  BY <1>2, <1>3 DEF Restarted

LEMMA SlotsHandle ==
  ASSUME SlotInv, SlotsCareful, NEW c \in Core, Handle(c), NEW d \in Core
  PROVE  CoreInv(d)'
<1> DEFINE x == Head(mail[c])
<1>0. Types /\ CoreTypes /\ CoreInv(d)
  BY Parted DEF Types
<1>1. /\ mail[c] # <<>> /\ mail' = [mail EXCEPT ![c] = Tail(@)] /\ marking # c
      /\ CASE x.box = "CONFIG"      -> Reset(c, x.arg) /\ UNCHANGED <<rxInFlight, received>>
           [] x.box = "RXDONE"      -> Complete(c, x.arg) /\ UNCHANGED <<rxInFlight, received>>
           [] x.box = "PACKETSTART" -> RxStart(c, x.arg) /\ UNCHANGED tx
           [] x.box = "PACKETDATA"  -> RxData(c, x.arg) /\ UNCHANGED tx
      /\ UNCHANGED <<frame, marking, net_fifo, memory, coreSlot, count, taken, gone>>
  BY DEF Handle, fifo, cores, SlotsCareful
<1>2. mail \in [Core -> Seq(Mail)] /\ mail[c] \in Seq(Mail) /\ x \in Mail
  BY <1>0, <1>1 DEF CoreTypes
<1>3. mail'[c] = Tail(mail[c]) /\ \A e \in Core \ {c} : mail'[e] = mail[e]
  BY <1>1, <1>2
<1>4. nextTxSlot \in [Core -> Slot] /\ txSlotBusy \in [Core -> SUBSET Slot]
  BY <1>0 DEF Types, TxTypes
<1> HIDE DEF x
<1>5. \/ IsConfig(x) /\ Reset(c, x.arg)
      \/ IsDone(x) /\ Complete(c, x.arg)
      \/ Unrelated(x) /\ UNCHANGED tx
  BY <1>1, <1>2, MailIs DEF IsConfig, IsDone, Unrelated
<1>6. HistoryKept(d) /\ FrameKept(d) /\ FifoKept(d)
  BY <1>1 DEF HistoryKept, FrameKept, FifoKept
<1>7. CASE d # c
  <2>1. nextTxSlot'[d] = nextTxSlot[d] /\ txSlotBusy'[d] = txSlotBusy[d]
    BY <1>4, <1>5, <1>7 DEF Reset, Complete, tx
  <2>2. SlotsKept(d) /\ MailKept(d)
    BY <1>1, <1>3, <1>7, <2>1 DEF SlotsKept, MailKept
  <2> QED BY <1>0, <1>6, <2>2, Locality
<1>8. CASE d = c /\ Unrelated(x) /\ UNCHANGED tx
  <2>1. SlotsKept(d) /\ MailKept(d)
    BY <1>1, <1>3, <1>8 DEF SlotsKept, MailKept, tx, x
  <2> QED BY <1>0, <1>6, <2>1, Locality
<1>9. CASE d = c /\ ~Unrelated(x)
  <2>1. TakenInOrder(c)' /\ LastTaken(c)' <= count'.to[c]
    BY <1>0, <1>6, <1>9, TakenStays DEF CoreInv, HistoryKept
  <2>2. CASE Booting(c)
    <3>1. Restarted(c)
      BY <1>0, <1>9, <2>2 DEF CoreInv
    <3>2. CASE ~IsConfig(x) \/ Boots(Tail(mail[c]))
      <4>1. Boots(Tail(mail[c]))
        BY <1>1, <1>2, <2>2, <3>2, BootsShifted, BootingIs DEF x
      <4>2. Restarted(c)'
        BY <1>1, <1>3, <3>1, <3>2, SlotsAwait DEF x
      <4>3. Booting(c)'
        BY <1>3, <4>1, BootingWas
      <4> QED BY <1>9, <2>1, <4>2, <4>3 DEF CoreInv
    <3>3. CASE IsConfig(x) /\ ~Boots(Tail(mail[c]))
      <4>1. Reset(c, x.arg)
        BY <1>5, <3>3, <1>2, IsWhich DEF Unrelated
      <4>2. UnderWay(c)'
        BY <1>1, <1>3, <3>1, <3>3, <4>1, SlotsReset DEF x
      <4>3. ~Booting(c)'
        BY <1>3, <3>3, BootingWas
      <4> QED BY <1>9, <2>1, <4>2, <4>3 DEF CoreInv
    <3> QED BY <3>2, <3>3
  <2>3. CASE ~Booting(c)
    <3>1. ~IsConfig(x) /\ IsDone(x)
      <4>1. mail[c][1] = x /\ 1 \in 1 .. Len(mail[c])
        BY <1>1, <1>2, Shorter DEF x
      <4>2. ~IsConfig(x)
        BY <2>3, <4>1, BootingIs DEF Boots
      <4> QED BY <1>9, <4>2 DEF Unrelated
    <3>2. Complete(c, x.arg)
      BY <1>5, <3>1 DEF Unrelated
    <3>3. UnderWay(c)
      BY <1>0, <1>9, <2>3 DEF CoreInv
    <3>4. UnderWay(c)'
      BY <1>1, <1>3, <3>1, <3>2, <3>3, SlotsComplete DEF x
    <3>5. ~Booting(c)'
      BY <1>1, <1>2, <1>3, <2>3, <3>1, BootsShifted, BootingIs, BootingWas DEF x
    <3> QED BY <1>9, <2>1, <3>4, <3>5 DEF CoreInv
  <2> QED BY <2>2, <2>3
<1>10. QED
  BY <1>5, <1>7, <1>8, <1>9 DEF Unrelated

-----------------------------------------------------------------------------
(***************************************************************************)
(* The theorems.                                                           *)
(***************************************************************************)
LEMMA SlotsInitially == Init => SlotInv
<1> SUFFICES ASSUME Init PROVE SlotInv
  OBVIOUS
<1>1. Types
  BY TypesInitially
<1>2. Offered
  BY DEF Init, Offered, NoFrame
<1>3. ASSUME NEW c \in Core PROVE CoreInv(c)
  <2>1. /\ taken[c] = <<>> /\ net_fifo = <<>> /\ mail[c] = <<>> /\ count.to[c] = 0 /\ coreSlot[c] = 0
        /\ nextTxSlot[c] = 0 /\ txSlotBusy[c] = {} /\ frame.core = -1 /\ marking = -1
        /\ \A s \in Slot : memory[c][s].first = 0
    BY <1>3 DEF Init, NoFrame, Vacant
  <2>2. /\ LastTaken(c) = 0 /\ TakenInOrder(c) /\ ~Booting(c) /\ Returned(mail[c]) = {}
        /\ ToldOnce(mail[c])
    BY <2>1 DEF LastTaken, TakenInOrder, Booting, Returned, ToldOnce
  <2>3. PICK N \in [Nat -> Nat] : TRUE
    <3>1. [n \in Nat |-> 0] \in [Nat -> Nat]
      OBVIOUS
    <3> QED BY <3>1
  <2>4. At(0) = 0
    <3>1. 0 \in 0 .. SLOTS - 1 /\ SLOTS * 0 + 0 = 0
      BY SizesAre
    <3> QED BY <3>1, Unique
  <2>5. \A p \in 0 .. 0 - 1 : FALSE
    OBVIOUS
  <2>6. c # -1
    BY <1>3, SizesAre
  <2>7. InFifo(net_fifo, c, 0, 0, N, memory[c]) /\ InMemory(memory[c], 0, 0, N)
    BY <2>1, <2>5 DEF InFifo, FirstLines, OtherLines, InMemory
  <2>8. Rising(c, 0, 0, N) /\ NoneMissing(c, 0, 0, N)
    BY <2>1, <2>5, <2>6 DEF Rising, NoneMissing
  <2>9. Given(c, 0, 0)
    BY <2>2, <2>5 DEF Given
  <2>10. Owed(c, 0, 0) = {}
    BY <2>2, <2>5 DEF Owed
  <2>11. InStep(c, 0, 0)
    BY <2>1, <2>4, <2>6, <2>10 DEF InStep
  <2>12. Window(0, 0, 0)
    BY SizesAre DEF Window
  <2>13. Way(c, 0, 0, 0, N)
    BY <2>7, <2>8, <2>9, <2>11, <2>12 DEF Way
  <2>14. UnderWay(c)
    BY <2>13 DEF UnderWay
  <2> QED BY <2>1, <2>2, <2>14 DEF CoreInv
<1>4. QED
  BY <1>1, <1>2, <1>3 DEF SlotInv, Types

LEMMA SlotsStep == ASSUME SlotInv, SlotsCareful, [Next]_vars PROVE SlotInv'
<1>1. Types'
  BY Parted, TypesStep
<1>2. Offered'
  BY OfferedStep
<1>3. ASSUME NEW d \in Core PROVE CoreInv(d)'
  <2>1. ASSUME NEW ip \in Ips, NewFrame(ip) PROVE CoreInv(d)'
    BY <2>1, SlotsNewFrame
  <2>2. CASE TxBusy
    BY <2>2, SlotsBusy
  <2>3. CASE Transmit
    BY <2>3, SlotsTransmit
  <2>4. CASE Mark
    BY <2>4, SlotsMark
  <2>5. CASE Arrive
    BY <2>5, SlotsArrive
  <2>6. ASSUME NEW c \in Core, CoreTakes(c) PROVE CoreInv(d)'
    BY <2>6, SlotsTakes
  <2>7. ASSUME NEW c \in Core, CoreContinues(c) PROVE CoreInv(d)'
    BY <2>7, SlotsSends
  <2>8. ASSUME NEW c \in Core, NEW n \in UpLines, CoreStarts(c, n) PROVE CoreInv(d)'
    BY <2>8, SlotsSends
  <2>9. ASSUME NEW c \in Core, NEW s \in Slot, Restart(c, s) PROVE CoreInv(d)'
    BY <2>9, SlotsRestart
  <2>10. ASSUME NEW c \in Core, Handle(c) PROVE CoreInv(d)'
    BY <2>10, SlotsHandle
  <2>11. CASE TxIllegal \/ TxTimeout \/ UNCHANGED vars \/ \E c \in Core : TimePasses(c)
    BY <2>11, SlotsElsewhere
  <2> QED BY <2>1, <2>2, <2>3, <2>4, <2>5, <2>6, <2>7, <2>8, <2>9, <2>10, <2>11 DEF Next
<1>4. QED
  BY <1>1, <1>2, <1>3 DEF SlotInv, Types

\* The slots the driver owes a core are those of the positions, and those given
\* back.
LEMMA OwingIs ==
  ASSUME SlotInv, NEW c \in Core, marking # c, ~Booting(c)
  PROVE  txSlotBusy[c] = Owing(c) /\ (txSlotBusy[c] = {} => nextTxSlot[c] = coreSlot[c])
<1>0. Types /\ CoreInv(c) /\ LastTaken(c) \in Nat
  BY Parted
<1>1. PICK a \in Nat, m \in Nat, z \in Nat, N \in [Nat -> Nat] : Way(c, a, m, z, N)
  BY <1>0 DEF CoreInv, UnderWay
<1>2. /\ FirstLines(net_fifo, c, m, z, N) /\ InMemory(memory[c], a, m, N) /\ Window(a, m, z)
      /\ Rising(c, a, z, N)
      /\ coreSlot[c] = At(a) /\ nextTxSlot[c] = At(z) /\ txSlotBusy[c] = Owed(c, a, z)
  BY <1>1 DEF Way, InFifo, InStep
<1>3. a <= m /\ m <= z
  BY <1>2 DEF Window
<1>4. ASSUME NEW s \in Owing(c) PROVE s \in Owed(c, a, z)
  <2>1. s \in Slot
    BY <1>4 DEF Owing
  <2>2. ASSUME NEW i \in 1 .. Len(net_fifo), net_fifo[i].core = c, net_fifo[i].slot = s,
               net_fifo[i].part = "first"
        PROVE  s \in Owed(c, a, z)
    <3>1. PICK p \in m .. z - 1 : s = At(p)
      BY <1>2, <2>2 DEF FirstLines, FirstOf
    <3>2. p \in a .. z - 1
      BY <1>3
    <3> QED BY <3>1, <3>2 DEF Owed
  <2>3. ASSUME memory[c][s].first # 0 PROVE s \in Owed(c, a, z)
    <3>1. PICK p \in a .. m - 1 : s = At(p)
      BY <1>2, <2>1, <2>3 DEF InMemory
    <3>2. p \in a .. z - 1
      BY <1>3
    <3> QED BY <3>1, <3>2 DEF Owed
  <2>4. ASSUME NEW i \in 1 .. Len(mail[c]), mail[c][i] = [box |-> "RXDONE", arg |-> s]
        PROVE  s \in Owed(c, a, z)
    <3>1. s \in Returned(mail[c])
      BY <2>1, <2>4 DEF Returned, Done
    <3> QED BY <3>1 DEF Owed
  <2> QED BY <1>4, <2>2, <2>3, <2>4 DEF Owing
<1>5. ASSUME NEW p \in a .. z - 1 PROVE At(p) \in Owing(c)
  <2>1. At(p) \in Slot
    BY AtIs
  <2>2. CASE p \in a .. m - 1
    <3>1. memory[c][At(p)] = [first |-> N[p], others |-> N[p]]
      BY <1>2, <2>2 DEF InMemory
    <3>2. LastTaken(c) < N[p] /\ N[p] \in Nat
      BY <1>2 DEF Rising
    <3>3. memory[c][At(p)].first # 0
      BY <1>0, <3>1, <3>2
    <3> QED BY <2>1, <3>3 DEF Owing
  <2>3. CASE p \in m .. z - 1
    <3>1. PICK i \in 1 .. Len(net_fifo) : FirstOf(net_fifo[i], c) /\ net_fifo[i].no = N[p]
      BY <1>2, <2>3 DEF FirstLines
    <3>2. PICK r \in m .. z - 1 : net_fifo[i].slot = At(r) /\ net_fifo[i].no = N[r]
      BY <1>2, <3>1 DEF FirstLines
    <3>3. r = p
      <4>1. r \in a .. z - 1 /\ r \in Nat /\ p \in Nat /\ N[r] \in Nat /\ N[p] \in Nat
        BY <1>3
      <4>2. (r < p => N[r] < N[p]) /\ (p < r => N[p] < N[r])
        BY <1>2, <4>1 DEF Rising
      <4>3. N[r] = N[p]
        BY <3>1, <3>2
      <4>4. ~(N[r] < N[p]) /\ ~(N[p] < N[r])
        BY <4>1, <4>3
      <4> QED BY <4>1, <4>2, <4>4
    <3> QED BY <2>1, <3>1, <3>2, <3>3 DEF Owing, FirstOf
  <2> QED BY <1>3, <2>2, <2>3
<1>6. ASSUME NEW s \in Returned(mail[c]) PROVE s \in Owing(c)
  BY <1>6 DEF Returned, Owing, Done
<1>7. Owed(c, a, z) = Owing(c)
  BY <1>4, <1>5, <1>6 DEF Owed
<1>8. ASSUME txSlotBusy[c] = {} PROVE nextTxSlot[c] = coreSlot[c]
  <2>1. a \notin a .. z - 1
    BY <1>2, <1>8 DEF Owed
  <2>2. a = z
    BY <1>3, <2>1
  <2> QED BY <1>2, <2>2
<1>9. QED
  BY <1>2, <1>7, <1>8

\* The invariant: the frames of a core lie in consecutive positions, first those in
\* its memory, then those in net_fifo (crbnet_hw_tx, crbnet_tx_complete,
\* crbnet_tx_reset and what the cores answer), or the core has announced a restart
\* and nothing is on its way to it.
THEOREM SlotsConsecutive == ASSUME SlotsCareful PROVE Spec => []SlotInv
<1>1. Init => SlotInv
  BY SlotsInitially
<1>2. SlotInv /\ [Next]_vars => SlotInv'
  BY SlotsStep
<1>3. QED
  BY <1>1, <1>2, PTL DEF Spec

\* A core finds each frame whole in the slot in which it expects it, in order and
\* once, and none is missing that was not given up or lost with a restart: the
\* writes of crbnet_hw_tx, from the last line to the first, never meet a slot that
\* is in use.
THEOREM FramesDelivered == ASSUME SlotsCareful PROVE Spec => []FramesReachCore
<1>1. SlotInv => FramesReachCore
  BY DEF SlotInv, CoreInv, TakenInOrder, InTurn, FramesReachCore
<1>2. QED
  BY <1>1, SlotsConsecutive, PTL

\* The driver's busy flags are those of the slots in use, and driver and core agree
\* which is next: no slot is lost to the time-outs or to a restart.
THEOREM SlotsAgree == ASSUME SlotsCareful PROVE Spec => []SlotsInStep
<1>1. SlotInv => SlotsInStep
  BY OwingIs DEF SlotsInStep
<1>2. QED
  BY <1>1, SlotsConsecutive, PTL

-----------------------------------------------------------------------------
(***************************************************************************)
(* The space in net_fifo.                                                  *)
(***************************************************************************)
\* The parts in q take l bytes; f sums them up.
Sums(q, l, f) == /\ f[0] = 0 /\ f[Len(q)] = l
                 /\ \A i \in 1 .. Len(q) : f[i] = f[i - 1] + Bytes(q[i].part)
Holds(q, l) == \E f \in [Nat -> Int] : Sums(q, l, f)

\* Frames shorter than this may take more than twice their length.
Enough == IF IRQ THEN 264 ELSE 72

FitInv == /\ Types /\ level \in Int /\ Holds(net_fifo, level)
          /\ level > BUFFER => LENGTH < Enough

LEMMA BytesAre ==
  /\ Lines \in Nat /\ Lines > 0
  /\ Bytes("first") = 48 /\ Bytes("others") = 48 * (Lines - 1) /\ Bytes("irq") = 96
  /\ \A part \in {"others", "first", "irq"} : Bytes(part) \in Nat
<1>1. LENGTH \in Nat /\ LENGTH > 0
  BY NetAssumption
<1>2. Lines \in Nat /\ Lines > 0
  BY <1>1 DEF Lines
<1>3. Bytes("first") = 48 /\ Bytes("others") = 48 * (Lines - 1) /\ Bytes("irq") = 96
  BY DEF Bytes
<1>4. 48 * (Lines - 1) \in Nat
  BY <1>2
<1>5. QED
  BY <1>2, <1>3, <1>4

LEMMA OneLonger ==
  ASSUME NEW q \in Seq(Chunk), NEW x \in Chunk, NEW l \in Int, Holds(q, l),
         NEW b \in Nat, b = Bytes(x.part)
  PROVE  Holds(Append(q, x), l + b)
<1> DEFINE w == Append(q, x)
<1>1. PICK f \in [Nat -> Int] : Sums(q, l, f)
  BY DEF Holds
<1>3. PICK n \in Nat : n = Len(q)
  OBVIOUS
<1>4. Len(w) = n + 1 /\ w[n + 1] = x /\ \A i \in 1 .. n : w[i] = q[i]
  BY <1>3
<1>5. PICK g \in [Nat -> Int] : g = [i \in Nat |-> IF i <= n THEN f[i] ELSE l + b]
  <2>1. \A i \in Nat : (IF i <= n THEN f[i] ELSE l + b) \in Int
    OBVIOUS
  <2>2. [i \in Nat |-> IF i <= n THEN f[i] ELSE l + b] \in [Nat -> Int]
    BY <2>1
  <2> QED BY <2>2
<1>6. \A i \in 0 .. n : g[i] = f[i]
  BY <1>5
<1>7. g[n + 1] = l + b
  BY <1>5
<1> HIDE DEF w
<1>8. Sums(w, l + b, g)
  <2>1. f[0] = 0 /\ f[n] = l /\ \A i \in 1 .. n : f[i] = f[i - 1] + Bytes(q[i].part)
    BY <1>1, <1>3 DEF Sums
  <2>2. g[0] = 0 /\ g[n] = l
    BY <1>6, <2>1
  <2>3. ASSUME NEW i \in 1 .. n + 1 PROVE g[i] = g[i - 1] + Bytes(w[i].part)
    <3>1. CASE i = n + 1
      <4>1. i - 1 = n /\ w[i] = x
        BY <1>4, <3>1
      <4> QED BY <1>7, <2>2, <3>1, <4>1
    <3>2. CASE i \in 1 .. n
      <4>1. g[i] = f[i] /\ g[i - 1] = f[i - 1]
        BY <1>6, <3>2
      <4> QED BY <1>4, <2>1, <3>2, <4>1
    <3> QED BY <3>1, <3>2
  <2> QED BY <1>4, <1>7, <2>2, <2>3 DEF Sums
<1>9. QED
  BY <1>8 DEF Holds, w

LEMMA OneGone ==
  ASSUME NEW q \in Seq(Chunk), q # <<>>, NEW l \in Int, Holds(q, l),
         NEW b \in Nat, b = Bytes(Head(q).part)
  PROVE  Holds(Tail(q), l - b)
<1> DEFINE w == Tail(q)
<1>1. PICK f \in [Nat -> Int] : Sums(q, l, f)
  BY DEF Holds
<1>2. /\ Len(q) \in Nat /\ Len(q) >= 1 /\ Len(w) = Len(q) - 1 /\ q[1] = Head(q)
      /\ \A i \in 1 .. Len(q) - 1 : w[i] = q[i + 1]
  BY Shifted
<1> HIDE DEF w
<1>3. Len(q) - 1 \in Nat
  BY <1>2
<1>4. PICK n \in Nat : n = Len(q) - 1
  BY <1>3
<1>5. Len(w) = n /\ Len(q) = n + 1 /\ \A i \in 1 .. n : w[i] = q[i + 1]
  BY <1>2, <1>4
<1>6. f[0] = 0 /\ f[n + 1] = l /\ \A i \in 1 .. n + 1 : f[i] = f[i - 1] + Bytes(q[i].part)
  BY <1>1, <1>5 DEF Sums
<1>7. f[1] = b
  <2>1. f[1] = f[1 - 1] + Bytes(q[1].part)
    BY <1>6
  <2>2. f[1 - 1] = 0
    BY <1>6
  <2> QED BY <1>2, <2>1, <2>2
<1>8. PICK g \in [Nat -> Int] : \A i \in Nat : g[i] = f[i + 1] - b
  <2>1. [i \in Nat |-> f[i + 1] - b] \in [Nat -> Int]
    OBVIOUS
  <2> QED BY <2>1
<1>9. g[0] = 0 /\ g[n] = l - b
  BY <1>6, <1>7, <1>8
<1>10. ASSUME NEW i \in 1 .. n PROVE g[i] = g[i - 1] + Bytes(w[i].part)
  <2>1. PICK j \in Nat : j = i - 1
    <3>1. i - 1 \in Nat
      OBVIOUS
    <3> QED BY <3>1
  <2>2. i \in Nat /\ i + 1 \in 1 .. n + 1 /\ (i + 1) - 1 = i /\ j + 1 = i
    BY <2>1
  <2>3. f[i + 1] = f[i] + Bytes(q[i + 1].part)
    BY <1>6, <2>2
  <2>4. g[i] = f[i + 1] - b
    BY <1>8, <2>2
  <2>5. g[j] = f[i] - b
    BY <1>8, <2>2
  <2>6. PICK y : y = Bytes(w[i].part)
    OBVIOUS
  <2>7. f[i + 1] = f[i] + y
    BY <1>5, <2>3, <2>6
  <2>8. w[i] \in Chunk
    <3>1. i + 1 \in 1 .. Len(q) /\ w[i] = q[i + 1]
      BY <1>5
    <3> QED BY <3>1
  <2>9. y \in Nat
    <3>1. w[i].part \in {"others", "first", "irq"}
      BY <2>8 DEF Chunk
    <3> QED BY <2>6, <3>1, BytesAre
  <2>10. f[i + 1] - b = (f[i] - b) + y
    BY <2>2, <2>7, <2>9
  <2>11. g[i] = g[j] + y
    BY <2>4, <2>5, <2>10
  <2> QED BY <2>1, <2>6, <2>11
<1>11. Sums(w, l - b, g)
  BY <1>5, <1>9, <1>10 DEF Sums
<1>12. QED
  BY <1>11 DEF Holds, w

\* The parts of a frame, one after the other.
LEMMA FrameHeld ==
  ASSUME NEW q \in Seq(Chunk), NEW l \in Int, Holds(q, l),
         NEW c \in Core, NEW s \in Slot, NEW no \in Nat
  PROVE  Holds(q \o Sent(c, s, no), l + FrameBytes)
<1> DEFINE o == [core |-> c, slot |-> s, part |-> "others", no |-> no]
           f == [core |-> c, slot |-> s, part |-> "first", no |-> no]
           i == [core |-> c, slot |-> s, part |-> "irq", no |-> no]
<1>1. o \in Chunk /\ f \in Chunk /\ i \in Chunk
  BY DEF Chunk
<1>2. PICK n \in Nat : n = Lines /\ n > 0
  BY BytesAre
<1>3. Bytes(o.part) = 48 * (n - 1) /\ Bytes(f.part) = 48 /\ Bytes(i.part) = 96
  BY <1>2, BytesAre
<1> HIDE DEF o, f, i
<1>4. Holds(Append(Append(q, o), f), l + 48 * n)
  <2>1. PICK b \in Nat : b = 48 * (n - 1)
    <3>1. 48 * (n - 1) \in Nat
      BY <1>2
    <3> QED BY <3>1
  <2>2. Holds(Append(q, o), l + b)
    BY <1>1, <1>3, <2>1, OneLonger
  <2>3. PICK k \in Int : k = l + b
    OBVIOUS
  <2>4. PICK r \in Seq(Chunk), e \in Nat : r = Append(q, o) /\ e = 48
    <3>1. Append(q, o) \in Seq(Chunk)
      BY <1>1
    <3> QED BY <3>1
  <2>5. Holds(Append(Append(q, o), f), k + 48)
    <3>1. Holds(r, k) /\ Bytes(f.part) = e
      BY <1>3, <2>2, <2>3, <2>4
    <3>2. Holds(Append(r, f), k + e)
      BY <1>1, <3>1, OneLonger
    <3> QED BY <2>4, <3>2
  <2>6. k + 48 = l + 48 * n
    BY <1>2, <2>1, <2>3
  <2> QED BY <2>5, <2>6
<1>5. CASE IRQ
  <2>1. Holds(Append(Append(Append(q, o), f), i), (l + 48 * n) + 96)
    <3>1. PICK k \in Int : k = l + 48 * n
      BY <1>2
    <3>2. PICK r \in Seq(Chunk), e \in Nat : r = Append(Append(q, o), f) /\ e = 96
      <4>1. Append(Append(q, o), f) \in Seq(Chunk)
        BY <1>1
      <4> QED BY <4>1
    <3>3. Holds(r, k) /\ Bytes(i.part) = e
      BY <1>3, <1>4, <3>1, <3>2
    <3>4. Holds(Append(r, i), k + e)
      BY <1>1, <3>3, OneLonger
    <3> QED BY <3>1, <3>2, <3>4
  <2>2. Sent(c, s, no) = <<o, f, i>>
    BY <1>5 DEF Sent, Parts, o, f, i
  <2>3. q \o <<o, f, i>> = Append(Append(Append(q, o), f), i)
    BY <1>1
  <2>4. l + FrameBytes = (l + 48 * n) + 96
    BY <1>2, <1>5 DEF FrameBytes
  <2> QED BY <2>1, <2>2, <2>3, <2>4
<1>6. CASE ~IRQ
  <2>1. Sent(c, s, no) = <<o, f>>
    BY <1>6 DEF Sent, Parts, o, f
  <2>2. q \o <<o, f>> = Append(Append(q, o), f)
    BY <1>1
  <2>3. l + FrameBytes = l + 48 * n
    BY <1>2, <1>6 DEF FrameBytes
  <2> QED BY <1>4, <2>1, <2>2, <2>3
<1>7. QED
  BY <1>5, <1>6

\* From that length on a frame takes no more than what crbnet_hw_tx asks for.
LEMMA LongEnough == ASSUME LENGTH >= Enough PROVE FrameBytes <= 2 * LENGTH
<1>1. PICK len \in Nat : len = LENGTH
  BY NetAssumption
<1>2. PICK n \in Nat : n = Lines
  BY BytesAre
<1>3. 32 * n <= len + 31 /\ len + 31 < 32 * n + 32
  BY <1>1, <1>2 DEF Lines
<1>4. CASE IRQ
  <2>1. len >= 264
    BY <1>1, <1>4 DEF Enough
  <2>2. n = 9 \/ n >= 10
    BY <1>3, <2>1
  <2>3. 48 * n + 96 <= 2 * len
    BY <1>3, <2>1, <2>2
  <2> QED BY <1>1, <1>2, <1>4, <2>3 DEF FrameBytes
<1>5. CASE ~IRQ
  <2>1. len >= 72
    BY <1>1, <1>5 DEF Enough
  <2>2. n = 3 \/ n >= 4
    BY <1>3, <2>1
  <2>3. 48 * n <= 2 * len
    BY <1>3, <2>1, <2>2
  <2> QED BY <1>1, <1>2, <1>5, <2>3 DEF FrameBytes
<1>6. QED
  BY <1>4, <1>5

LEMMA FitStep == ASSUME FitInv, [Next]_vars PROVE FitInv'
<1>0. /\ Types /\ level \in Int /\ Holds(net_fifo, level) /\ net_fifo \in Seq(Chunk)
      /\ level > BUFFER => LENGTH < Enough
      /\ BUFFER \in Nat /\ LENGTH \in Nat /\ Enough \in Nat
  BY NetAssumption DEF FitInv, Types, TxTypes, Enough
<1>1. Types'
  BY <1>0, TypesStep
<1>2. CASE Transmit
  <2> DEFINE c == frame.core
  <2>1. /\ net_fifo' = net_fifo \o Sent(c, nextTxSlot[c], frame.no) /\ level' = level + FrameBytes
        /\ c \in Core
        /\ level > BUFFER \/ BUFFER - level >= 2 * LENGTH
    BY <1>2 DEF Transmit, Sent, HasRoom
  <2>2. nextTxSlot[c] \in Slot /\ frame.no \in Nat
    BY <1>0, <2>1 DEF Types, TxTypes
  <2> HIDE DEF c
  <2>3. Holds(net_fifo', level')
    BY <1>0, <2>1, <2>2, FrameHeld
  <2>4. FrameBytes \in Int
    BY BytesAre DEF FrameBytes
  <2>5. level' \in Int
    BY <1>0, <2>1, <2>4
  <2>6. level' > BUFFER => LENGTH < Enough
    <3> SUFFICES ASSUME LENGTH >= Enough PROVE level' <= BUFFER
      BY <1>0, <2>5
    <3>1. FrameBytes <= 2 * LENGTH
      BY LongEnough
    <3>2. BUFFER - level >= 2 * LENGTH
      BY <1>0, <2>1
    <3> QED BY <1>0, <2>1, <2>4, <3>1, <3>2
  <2> QED BY <1>1, <2>3, <2>5, <2>6 DEF FitInv, Enough
<1>3. CASE Arrive
  <2>1. net_fifo # <<>> /\ net_fifo' = Tail(net_fifo) /\ level' = level - Bytes(Head(net_fifo).part)
    BY <1>3 DEF Arrive
  <2>2. PICK b \in Nat : b = Bytes(Head(net_fifo).part)
    <3>1. Head(net_fifo) \in Chunk
      BY <1>0, <2>1
    <3> QED BY <3>1, BytesAre DEF Chunk
  <2>3. Holds(net_fifo', level')
    BY <1>0, <2>1, <2>2, OneGone
  <2>4. level' \in Int /\ level' <= level
    BY <1>0, <2>1, <2>2
  <2>5. level' > BUFFER => LENGTH < Enough
    BY <1>0, <2>4
  <2> QED BY <1>1, <2>3, <2>4, <2>5 DEF FitInv, Enough
<1>4. CASE UNCHANGED fifo
  BY <1>0, <1>1, <1>4 DEF fifo, FitInv, Enough
<1>5. Transmit \/ Arrive \/ UNCHANGED fifo
  BY DEF Next, vars, NewFrame, TxIllegal, TxBusy, Mark, TxTimeout, TimePasses, CoreTakes,
         CoreStarts, CoreContinues, Restart, Handle
<1>6. QED
  BY <1>2, <1>3, <1>4, <1>5

LEMMA FitInitially == Init => FitInv
<1> SUFFICES ASSUME Init PROVE FitInv
  OBVIOUS
<1>1. net_fifo = <<>> /\ level = 0 /\ BUFFER \in Nat
  BY NetAssumption DEF Init
<1>2. [i \in Nat |-> 0] \in [Nat -> Int] /\ Sums(<<>>, 0, [i \in Nat |-> 0])
  BY DEF Sums
<1>3. QED
  BY <1>1, <1>2, TypesInitially DEF FitInv, Holds

\* The level of net_fifo is the sum of what is in it, part by part, and it passes the
\* size of the buffer only with frames of less than 264 bytes, or 72 when no
\* interrupt is sent: from there on the check of crbnet_hw_tx for twice the length,
\* unsigned as it is, is enough.
THEOREM OnlyShortOverflow ==
  Spec => [](Holds(net_fifo, level) /\ (NetFifoFits \/ LENGTH < IF IRQ THEN 264 ELSE 72))
<1>1. Init => FitInv
  BY FitInitially
<1>2. FitInv /\ [Next]_vars => FitInv'
  BY FitStep
<1>3. FitInv => Holds(net_fifo, level) /\ (NetFifoFits \/ LENGTH < IF IRQ THEN 264 ELSE 72)
  BY NetAssumption DEF FitInv, NetFifoFits, Enough
<1>4. QED
  BY <1>1, <1>2, <1>3, PTL DEF Spec

-----------------------------------------------------------------------------
(***************************************************************************)
(* The frames of the cores.                                                *)
(***************************************************************************)
Torn     == "torn" \in Faults
NoMemory == "nomem" \in Faults

\* Not both: a frame whose predecessor was torn can always begin.
FramesCareful == ~(Torn /\ NoMemory)

\* The first j lines of a frame.
Gathered(no, j) == [k \in 1 .. j |-> <<no, k>>]
Lines0 == Nat \X Nat
Wholes == {f \in Seq(Lines0) : \E no \in Nat, j \in Nat \ {0} : f = Gathered(no, j)}

UpTypes == /\ rxInFlight \in [Core -> [got : Seq(Lines0), left : Nat]]
           /\ received \in [Core -> Seq(Wholes)]

IsPacket(x) == x.box \in {"PACKETSTART", "PACKETDATA"}

\* The mailbox of a core, with what the core will send next.
ComingOf(s, k) == IF s = Nothing
                  THEN [box |-> "PACKETSTART", arg |-> [no |-> k + 1, lines |-> 1, done |-> 0]]
                  ELSE [box |-> "PACKETDATA", arg |-> s]
Coming(c) == ComingOf(sending[c], count.from[c])
ToCome(c) == Append(mail[c], Coming(c))

WellFormed(x) == IsPacket(x) => /\ x.arg.done < x.arg.lines
                                /\ (x.box = "PACKETSTART" <=> x.arg.done = 0)

\* The line g comes next after the line f.
Follows(f, g) == IF g.done = 0 THEN g.no > f.no /\ (Torn \/ f.done + 1 = f.lines)
                 ELSE g.no = f.no /\ g.lines = f.lines /\ g.done = f.done + 1
Adjacent(v, i, j) == /\ i < j /\ IsPacket(v[i]) /\ IsPacket(v[j])
                     /\ \A k \in i + 1 .. j - 1 : ~IsPacket(v[k])
Chain(v) == \A i, j \in 1 .. Len(v) : Adjacent(v, i, j) => Follows(v[i].arg, v[j].arg)

\* The line g can come when rx is under assembly and frame last was the last to go up.
Awaits(rx, last, g) ==
  \E no, j \in Nat : /\ j > 0 /\ rx.left > 0 /\ rx.got = Gathered(no, j) /\ last < no
                     /\ IF g.done = 0 THEN g.no > no /\ ~NoMemory
                        ELSE g.no = no /\ g.done = j /\ g.lines = j + rx.left
Fitting(rx, last, g) == /\ last <= g.no /\ (g.done = 0 => last < g.no)
                        /\ rx = NoRx \/ Awaits(rx, last, g)
First(v, i) == IsPacket(v[i]) /\ \A k \in 1 .. i - 1 : ~IsPacket(v[k])
Begins(v, rx, last) == \A i \in 1 .. Len(v) : First(v, i) => Fitting(rx, last, v[i].arg)

\* A mailbox that is in order, with what will come.
Upright(v, rx, last) == Chain(v) /\ Begins(v, rx, last) /\ \A i \in 1 .. Len(v) : WellFormed(v[i])

Number(f) == f[1][1]
LastUp(r) == IF r = <<>> THEN 0 ELSE Number(r[Len(r)])
RisingUp(r) == \A i \in 2 .. Len(r) : Number(r[i - 1]) < Number(r[i])

UpInv(c) == /\ Upright(ToCome(c), rxInFlight[c], LastUp(received[c]))
            /\ sending[c] # Nothing => sending[c].no <= count.from[c]
            /\ RisingUp(received[c])

FramesInv == Types /\ UpTypes /\ \A c \in Core : UpInv(c)

-----------------------------------------------------------------------------
(***************************************************************************)
(* A mailbox becomes longer before what will come, or shorter.             *)
(***************************************************************************)
LEMMA PacketIs ==
  ASSUME NEW x \in Mail
  PROVE  /\ IsPacket(x) => x.arg \in Frame
         /\ IsPacket(x) <=> ~IsConfig(x) /\ ~IsDone(x)
         /\ IsPacket(x) => x.box = "PACKETSTART" \/ x.box = "PACKETDATA"
BY MailIs DEF IsPacket, IsConfig, IsDone

\* Whatever the line g may follow, x may follow as well.
Replaces(g, x, rx, last) == /\ \A f \in Frame : Follows(f, g.arg) => Follows(f, x.arg)
                            /\ Fitting(rx, last, g.arg) => Fitting(rx, last, x.arg)

LEMMA Both ==
  ASSUME NEW v \in Seq(Mail), NEW x \in Mail, NEW h \in Mail
  PROVE  /\ Append(Append(v, x), h) \in Seq(Mail) /\ Len(Append(Append(v, x), h)) = Len(v) + 2
         /\ Append(Append(v, x), h)[Len(v) + 1] = x /\ Append(Append(v, x), h)[Len(v) + 2] = h
         /\ \A i \in 1 .. Len(v) : Append(Append(v, x), h)[i] = v[i]
OBVIOUS

LEMMA Replaced ==
  ASSUME NEW v \in Seq(Mail), NEW g \in Mail, NEW x \in Mail, NEW h \in Mail, NEW rx, NEW last,
         IsPacket(g), IsPacket(x), IsPacket(h), WellFormed(x), WellFormed(h),
         Replaces(g, x, rx, last), Follows(x.arg, h.arg), Upright(Append(v, g), rx, last)
  PROVE  Upright(Append(Append(v, x), h), rx, last)
<1> DEFINE V == Append(v, g)
           W == Append(Append(v, x), h)
<1>1. PICK n \in Nat : n = Len(v)
  OBVIOUS
<1>2. /\ Len(V) = n + 1 /\ V[n + 1] = g /\ \A i \in 1 .. n : V[i] = v[i] /\ v[i] \in Mail
  BY <1>1
<1>3. Len(W) = n + 2 /\ W[n + 1] = x /\ W[n + 2] = h /\ \A i \in 1 .. n : W[i] = v[i]
  BY <1>1, Both
<1>4. Chain(V) /\ Begins(V, rx, last) /\ \A i \in 1 .. n + 1 : WellFormed(V[i])
  BY <1>2 DEF Upright
<1> HIDE DEF V, W
<1>5. \A i \in 1 .. n + 1 : IsPacket(W[i]) <=> IsPacket(V[i])
  <2> SUFFICES ASSUME NEW i \in 1 .. n + 1 PROVE IsPacket(W[i]) <=> IsPacket(V[i])
    OBVIOUS
  <2>1. CASE i = n + 1
    BY <1>2, <1>3, <2>1
  <2>2. CASE i \in 1 .. n
    BY <1>2, <1>3, <2>2
  <2> QED BY <2>1, <2>2
<1>6. Chain(W)
  <2>1. ASSUME NEW i \in 1 .. n + 2, NEW j \in 1 .. n + 2, Adjacent(W, i, j)
        PROVE  Follows(W[i].arg, W[j].arg)
    <3>1. i < j /\ IsPacket(W[i]) /\ IsPacket(W[j]) /\ \A k \in i + 1 .. j - 1 : ~IsPacket(W[k])
      BY <2>1 DEF Adjacent
    <3>2. CASE j = n + 2
      <4>1. n + 1 \notin i + 1 .. j - 1
        BY <1>3, <3>1
      <4>2. i = n + 1
        BY <3>1, <3>2, <4>1
      <4> QED BY <1>3, <3>2, <4>2
    <3>3. CASE j \in 1 .. n + 1
      <4>1. i \in 1 .. n /\ i \in 1 .. n + 1
        BY <3>1, <3>3
      <4>2. \A k \in i + 1 .. j - 1 : k \in 1 .. n + 1
        BY <3>3, <4>1
      <4>3. Adjacent(V, i, j)
        BY <1>5, <3>1, <3>3, <4>1, <4>2 DEF Adjacent
      <4>4. Follows(V[i].arg, V[j].arg)
        BY <1>2, <1>4, <3>3, <4>1, <4>3 DEF Chain
      <4>5. V[i] = W[i] /\ W[i] \in Mail
        BY <1>2, <1>3, <4>1
      <4>6. W[i].arg \in Frame
        BY <3>1, <4>5, PacketIs
      <4>7. CASE j = n + 1
        BY <1>2, <1>3, <4>4, <4>5, <4>6, <4>7 DEF Replaces
      <4>8. CASE j \in 1 .. n
        BY <1>2, <1>3, <4>4, <4>5, <4>8
      <4> QED BY <3>3, <4>7, <4>8
    <3> QED BY <3>2, <3>3
  <2> QED BY <1>3, <2>1 DEF Chain
<1>7. Begins(W, rx, last)
  <2>1. ASSUME NEW i \in 1 .. n + 2, First(W, i) PROVE Fitting(rx, last, W[i].arg)
    <3>1. IsPacket(W[i]) /\ \A k \in 1 .. i - 1 : ~IsPacket(W[k])
      BY <2>1 DEF First
    <3>2. n + 1 \notin 1 .. i - 1
      BY <1>3, <3>1
    <3>3. i \in 1 .. n + 1 /\ \A k \in 1 .. i - 1 : k \in 1 .. n + 1
      BY <3>2
    <3>4. First(V, i)
      BY <1>5, <3>1, <3>3 DEF First
    <3>5. Fitting(rx, last, V[i].arg)
      BY <1>2, <1>4, <3>3, <3>4 DEF Begins
    <3>6. CASE i = n + 1
      BY <1>2, <1>3, <3>5, <3>6 DEF Replaces
    <3>7. CASE i \in 1 .. n
      BY <1>2, <1>3, <3>5, <3>7
    <3> QED BY <3>3, <3>6, <3>7
  <2> QED BY <1>3, <2>1 DEF Begins
<1>8. ASSUME NEW i \in 1 .. n + 2 PROVE WellFormed(W[i])
  <2>1. CASE i \in 1 .. n
    BY <1>2, <1>3, <1>4, <2>1
  <2>2. CASE i = n + 1 \/ i = n + 2
    BY <1>3, <2>2
  <2> QED BY <2>1, <2>2
<1>9. QED
  BY <1>3, <1>6, <1>7, <1>8 DEF Upright, W

LEMMA Inserted ==
  ASSUME NEW v \in Seq(Mail), NEW g \in Mail, NEW x \in Mail, NEW h \in Mail, NEW rx, NEW last,
         IsPacket(g), ~IsPacket(x), IsPacket(h), WellFormed(h),
         Replaces(g, h, rx, last), Upright(Append(v, g), rx, last)
  PROVE  Upright(Append(Append(v, x), h), rx, last)
<1> DEFINE V == Append(v, g)
           W == Append(Append(v, x), h)
<1>1. PICK n \in Nat : n = Len(v)
  OBVIOUS
<1>2. /\ Len(V) = n + 1 /\ V[n + 1] = g /\ \A i \in 1 .. n : V[i] = v[i] /\ v[i] \in Mail
  BY <1>1
<1>3. Len(W) = n + 2 /\ W[n + 1] = x /\ W[n + 2] = h /\ \A i \in 1 .. n : W[i] = v[i]
  BY <1>1, Both
<1>4. Chain(V) /\ Begins(V, rx, last) /\ \A i \in 1 .. n + 1 : WellFormed(V[i])
  BY <1>2 DEF Upright
<1> HIDE DEF V, W
<1>5. \A i \in 1 .. n : IsPacket(W[i]) <=> IsPacket(V[i])
  BY <1>2, <1>3
<1>6. ASSUME NEW i \in 1 .. n, NEW j \in 1 .. n + 2, Adjacent(W, i, j)
      PROVE  Follows(W[i].arg, W[j].arg)
  <2>1. i < j /\ IsPacket(W[i]) /\ IsPacket(W[j]) /\ \A k \in i + 1 .. j - 1 : ~IsPacket(W[k])
    BY <1>6 DEF Adjacent
  <2>2. V[i] = W[i] /\ W[i] \in Mail /\ IsPacket(V[i]) /\ i \in 1 .. n + 1
    BY <1>2, <1>3, <2>1
  <2>3. CASE j = n + 2
    <3>1. \A k \in i + 1 .. (n + 1) - 1 : k \in 1 .. n /\ k \in i + 1 .. j - 1
      BY <2>3
    <3>2. Adjacent(V, i, n + 1)
      BY <1>2, <1>5, <2>1, <2>2, <3>1 DEF Adjacent
    <3>3. Follows(V[i].arg, g.arg)
      <4>1. n + 1 \in 1 .. n + 1
        OBVIOUS
      <4> QED BY <1>2, <1>4, <2>2, <3>2, <4>1 DEF Chain
    <3>4. W[i].arg \in Frame
      BY <2>1, <2>2, PacketIs
    <3> QED BY <1>3, <2>2, <2>3, <3>3, <3>4 DEF Replaces
  <2>4. CASE j \in 1 .. n
    <3>1. \A k \in i + 1 .. j - 1 : k \in 1 .. n
      BY <2>4
    <3>2. Adjacent(V, i, j)
      BY <1>5, <2>1, <2>2, <2>4, <3>1 DEF Adjacent
    <3>3. j \in 1 .. n + 1 /\ V[j] = W[j]
      BY <1>2, <1>3, <2>4
    <3> QED BY <1>2, <1>4, <2>2, <3>2, <3>3 DEF Chain
  <2>5. j # n + 1
    BY <1>3, <2>1
  <2> QED BY <2>3, <2>4, <2>5
<1>7. Chain(W)
  <2>1. ASSUME NEW i \in 1 .. n + 2, NEW j \in 1 .. n + 2, Adjacent(W, i, j) PROVE i \in 1 .. n
    <3>1. i < j /\ IsPacket(W[i])
      BY <2>1 DEF Adjacent
    <3>2. i # n + 1
      BY <1>3, <3>1
    <3> QED BY <3>1, <3>2
  <2> QED BY <1>3, <1>6, <2>1 DEF Chain
<1>8. Begins(W, rx, last)
  <2>1. ASSUME NEW i \in 1 .. n + 2, First(W, i) PROVE Fitting(rx, last, W[i].arg)
    <3>1. IsPacket(W[i]) /\ \A k \in 1 .. i - 1 : ~IsPacket(W[k])
      BY <2>1 DEF First
    <3>2. i # n + 1
      BY <1>3, <3>1
    <3>3. CASE i = n + 2
      <4>1. \A k \in 1 .. (n + 1) - 1 : k \in 1 .. n /\ k \in 1 .. i - 1
        BY <3>3
      <4>2. First(V, n + 1)
        BY <1>2, <1>5, <3>1, <4>1 DEF First
      <4>3. n + 1 \in 1 .. n + 1
        OBVIOUS
      <4>4. Fitting(rx, last, g.arg)
        BY <1>2, <1>4, <4>2, <4>3 DEF Begins
      <4> QED BY <1>3, <3>3, <4>4 DEF Replaces
    <3>4. CASE i \in 1 .. n
      <4>1. \A k \in 1 .. i - 1 : k \in 1 .. n
        BY <3>4
      <4>2. First(V, i)
        BY <1>5, <3>1, <3>4, <4>1 DEF First
      <4>3. i \in 1 .. n + 1 /\ V[i] = W[i]
        BY <1>2, <1>3, <3>4
      <4> QED BY <1>2, <1>4, <4>2, <4>3 DEF Begins
    <3> QED BY <3>2, <3>3, <3>4
  <2> QED BY <1>3, <2>1 DEF Begins
<1>9. ASSUME NEW i \in 1 .. n + 2 PROVE WellFormed(W[i])
  <2>1. CASE i \in 1 .. n
    BY <1>2, <1>3, <1>4, <2>1
  <2>2. CASE i = n + 1 \/ i = n + 2
    BY <1>3, <2>2 DEF WellFormed
  <2> QED BY <2>1, <2>2
<1>10. QED
  BY <1>3, <1>7, <1>8, <1>9 DEF Upright, W

\* What comes after the head v[1].
LEMMA AfterHead ==
  ASSUME NEW v \in Seq(Mail), v # <<>>, NEW rx, NEW last, Upright(v, rx, last)
  PROVE  /\ Chain(Tail(v)) /\ \A i \in 1 .. Len(Tail(v)) : WellFormed(Tail(v)[i])
         /\ ~IsPacket(Head(v)) => Begins(Tail(v), rx, last)
         /\ IsPacket(Head(v)) =>
              /\ Fitting(rx, last, Head(v).arg) /\ WellFormed(Head(v))
              /\ \A i \in 1 .. Len(Tail(v)) : First(Tail(v), i) => Follows(Head(v).arg, Tail(v)[i].arg)
<1> DEFINE w == Tail(v)
<1>1. /\ Len(w) \in Nat /\ Len(v) = Len(w) + 1 /\ v[1] = Head(v)
      /\ \A i \in 1 .. Len(w) : w[i] = v[i + 1] /\ i + 1 \in 1 .. Len(v)
  BY Shorter
<1> HIDE DEF w
<1>2. PICK n \in Nat : n = Len(w)
  BY <1>1
<1>3. Len(v) = n + 1 /\ \A i \in 1 .. n : w[i] = v[i + 1] /\ i + 1 \in 1 .. n + 1
  BY <1>1, <1>2
<1>4. Chain(v) /\ Begins(v, rx, last) /\ \A i \in 1 .. n + 1 : WellFormed(v[i])
  BY <1>3 DEF Upright
<1>5. ASSUME NEW i \in 1 .. n, NEW j \in 1 .. n, Adjacent(w, i, j) PROVE Follows(w[i].arg, w[j].arg)
  <2>1. i < j /\ IsPacket(w[i]) /\ IsPacket(w[j]) /\ \A k \in i + 1 .. j - 1 : ~IsPacket(w[k])
    BY <1>5 DEF Adjacent
  <2>2. ASSUME NEW k \in (i + 1) + 1 .. (j + 1) - 1 PROVE ~IsPacket(v[k])
    <3>1. k - 1 \in i + 1 .. j - 1 /\ k - 1 \in 1 .. n /\ (k - 1) + 1 = k
      BY <2>2
    <3>2. w[k - 1] = v[k]
      BY <1>3, <3>1
    <3> QED BY <2>1, <3>1, <3>2
  <2>3. w[i] = v[i + 1] /\ w[j] = v[j + 1] /\ i + 1 < j + 1
    BY <1>3, <2>1
  <2>4. Adjacent(v, i + 1, j + 1)
    BY <2>1, <2>2, <2>3 DEF Adjacent
  <2>5. i + 1 \in 1 .. Len(v) /\ j + 1 \in 1 .. Len(v)
    BY <1>3
  <2>6. Follows(v[i + 1].arg, v[j + 1].arg)
    BY <1>4, <2>4, <2>5 DEF Chain
  <2> QED BY <2>3, <2>6
<1>6. Chain(w)
  BY <1>2, <1>5 DEF Chain
<1>7. \A i \in 1 .. n : WellFormed(w[i])
  BY <1>3, <1>4
<1>8. ASSUME NEW i \in 1 .. n, First(w, i)
      PROVE  /\ IsPacket(v[i + 1]) /\ \A k \in 2 .. i : ~IsPacket(v[k])
  <2>1. IsPacket(w[i]) /\ \A k \in 1 .. i - 1 : ~IsPacket(w[k])
    BY <1>8 DEF First
  <2>2. ASSUME NEW k \in 2 .. i PROVE ~IsPacket(v[k])
    <3>1. k - 1 \in 1 .. i - 1 /\ k - 1 \in 1 .. n /\ (k - 1) + 1 = k
      BY <2>2
    <3>2. w[k - 1] = v[k]
      BY <1>3, <3>1
    <3> QED BY <2>1, <3>1, <3>2
  <2> QED BY <1>3, <2>1, <2>2
<1>9. ASSUME ~IsPacket(Head(v)) PROVE Begins(w, rx, last)
  <2>1. ASSUME NEW i \in 1 .. n, First(w, i) PROVE Fitting(rx, last, w[i].arg)
    <3>1. IsPacket(v[i + 1]) /\ \A k \in 2 .. i : ~IsPacket(v[k])
      BY <1>8, <2>1
    <3>2. \A k \in 1 .. (i + 1) - 1 : k = 1 \/ k \in 2 .. i
      OBVIOUS
    <3>3. First(v, i + 1)
      BY <1>1, <1>9, <3>1, <3>2 DEF First
    <3>4. i + 1 \in 1 .. Len(v) /\ w[i] = v[i + 1]
      BY <1>3
    <3> QED BY <1>4, <3>3, <3>4 DEF Begins
  <2> QED BY <1>2, <2>1 DEF Begins
<1>10. ASSUME IsPacket(Head(v))
       PROVE  /\ Fitting(rx, last, Head(v).arg) /\ WellFormed(Head(v))
              /\ \A i \in 1 .. n : First(w, i) => Follows(Head(v).arg, w[i].arg)
  <2>1. 1 \in 1 .. n + 1 /\ 1 \in 1 .. Len(v) /\ \A k \in 1 .. 1 - 1 : FALSE
    BY <1>3
  <2>2. First(v, 1)
    BY <1>1, <1>10, <2>1 DEF First
  <2>3. Fitting(rx, last, Head(v).arg) /\ WellFormed(Head(v))
    BY <1>1, <1>4, <2>1, <2>2 DEF Begins
  <2>4. ASSUME NEW i \in 1 .. n, First(w, i) PROVE Follows(Head(v).arg, w[i].arg)
    <3>1. IsPacket(v[i + 1]) /\ \A k \in 2 .. i : ~IsPacket(v[k])
      BY <1>8, <2>4
    <3>2. 1 < i + 1 /\ \A k \in 1 + 1 .. (i + 1) - 1 : k \in 2 .. i
      OBVIOUS
    <3>3. Adjacent(v, 1, i + 1)
      BY <1>1, <1>10, <3>1, <3>2 DEF Adjacent
    <3>4. i + 1 \in 1 .. Len(v) /\ w[i] = v[i + 1]
      BY <1>3
    <3> QED BY <1>1, <1>4, <2>1, <3>3, <3>4 DEF Chain
  <2> QED BY <2>3, <2>4
<1>11. QED
  BY <1>2, <1>6, <1>7, <1>9, <1>10 DEF w

-----------------------------------------------------------------------------
(***************************************************************************)
(* The assembly of a frame.                                                *)
(***************************************************************************)
Rx == [got : Seq(Lines0), left : Nat]

LEMMA GatheredIs ==
  ASSUME NEW no \in Nat, NEW j \in Nat
  PROVE  /\ Gathered(no, j) \in Seq(Lines0) /\ Gathered(no, 1) = << <<no, 1>> >>
         /\ Append(Gathered(no, j), <<no, j + 1>>) = Gathered(no, j + 1)
         /\ j > 0 => Number(Gathered(no, j)) = no /\ Gathered(no, j) \in Wholes
<1>1. \A k \in 1 .. j : <<no, k>> \in Lines0
  BY DEF Lines0
<1>2. Gathered(no, j) \in Seq(Lines0) /\ Len(Gathered(no, j)) = j
  BY <1>1 DEF Gathered
<1>3. Gathered(no, 1) = << <<no, 1>> >>
  BY DEF Gathered
<1>4. Append(Gathered(no, j), <<no, j + 1>>) = Gathered(no, j + 1)
  <2>1. \A k \in 1 .. j + 1 : k = j + 1 \/ k \in 1 .. j
    OBVIOUS
  <2> QED BY <1>2, <2>1 DEF Gathered
<1>5. ASSUME j > 0 PROVE Number(Gathered(no, j)) = no /\ Gathered(no, j) \in Wholes
  <2>1. 1 \in 1 .. j /\ j \in Nat \ {0}
    BY <1>5
  <2>2. Gathered(no, j)[1] = <<no, 1>>
    BY <2>1 DEF Gathered
  <2> QED BY <1>2, <2>1, <2>2 DEF Number, Wholes
<1>6. QED
  BY <1>2, <1>3, <1>4, <1>5

LEMMA NumberIs ==
  ASSUME NEW no \in Nat, NEW j \in Nat \ {0}
  PROVE  Number(Gathered(no, j)) = no
<1>1. j \in Nat /\ j > 0
  OBVIOUS
<1>2. QED
  BY <1>1, GatheredIs

\* After the line f the next may come when nothing is under assembly,
LEMMA FittingNone ==
  ASSUME NEW f \in Frame, NEW g \in Frame, NEW last \in Nat, last <= f.no, Follows(f, g)
  PROVE  Fitting(NoRx, last, g)
<1>1. f.no \in Nat /\ g.no \in Nat
  BY DEF Frame
<1>2. CASE g.done = 0
  <2>1. g.no > f.no
    BY <1>2 DEF Follows
  <2> QED BY <1>1, <2>1 DEF Fitting
<1>3. CASE g.done # 0
  <2>1. g.no = f.no
    BY <1>3 DEF Follows
  <2> QED BY <1>1, <1>3, <2>1 DEF Fitting
<1>4. QED
  BY <1>2, <1>3

\* and when the frame of f is.
LEMMA FittingPart ==
  ASSUME FramesCareful, NEW f \in Frame, NEW g \in Frame, NEW last \in Nat, last < f.no,
         Follows(f, g), f.done + 1 < f.lines, NEW rx,
         rx.got = Gathered(f.no, f.done + 1), rx.left = f.lines - f.done - 1
  PROVE  Fitting(rx, last, g)
<1>1. PICK no \in Nat, l \in Nat, d \in Nat : no = f.no /\ l = f.lines /\ d = f.done
  BY DEF Frame
<1>2. g.no \in Nat /\ g.done \in Nat /\ g.lines \in Nat
  BY DEF Frame
<1>3. PICK j \in Nat : j = d + 1
  OBVIOUS
<1>4. j > 0 /\ rx.left = l - j /\ l - j > 0 /\ rx.got = Gathered(no, j) /\ last < no
  BY <1>1, <1>3
<1>5. CASE g.done = 0
  <2>1. g.no > no /\ (Torn \/ j = l)
    BY <1>1, <1>3, <1>5 DEF Follows
  <2>2. ~NoMemory
    BY <1>4, <2>1 DEF FramesCareful
  <2>3. Awaits(rx, last, g)
    BY <1>4, <1>5, <2>1, <2>2 DEF Awaits
  <2>4. last <= g.no /\ last < g.no
    BY <1>2, <1>4, <2>1
  <2> QED BY <2>3, <2>4 DEF Fitting
<1>6. CASE g.done # 0
  <2>1. g.no = no /\ g.lines = l /\ g.done = j
    BY <1>1, <1>3, <1>6 DEF Follows
  <2>2. g.lines = j + rx.left
    BY <1>4, <2>1
  <2>3. Awaits(rx, last, g)
    BY <1>4, <1>6, <2>1, <2>2 DEF Awaits
  <2>4. last <= g.no
    BY <1>4, <2>1
  <2> QED BY <1>6, <2>3, <2>4 DEF Fitting
<1>7. QED
  BY <1>5, <1>6

\* What a line does: it is left out, when its frame has not begun, or added.
LEMMA LineHandled ==
  ASSUME NEW c \in Core, NEW f \in Frame, NEW rx \in Rx, rx = rxInFlight[c], NEW last \in Nat,
         Fitting(rx, last, f), f.done < f.lines,
         \/ f.done = 0 /\ RxStart(c, f)
         \/ f.done # 0 /\ RxData(c, f)
  PROVE  \/ rx = NoRx /\ UNCHANGED <<rxInFlight, received>>
         \/ /\ last < f.no
            /\ Assembled(c, [got |-> Gathered(f.no, f.done + 1), left |-> f.lines - f.done - 1])
<1>1. f.no \in Nat /\ f.lines \in Nat /\ f.done \in Nat
  BY DEF Frame
<1>2. CASE f.done = 0 /\ RxStart(c, f)
  <2>1. last < f.no
    BY <1>2 DEF Fitting
  <2>2. CASE Assembled(c, [got |-> << <<f.no, 1>> >>, left |-> f.lines - 1])
    <3>1. f.done + 1 = 1 /\ f.lines - f.done - 1 = f.lines - 1
      BY <1>1, <1>2
    <3>2. Gathered(f.no, 1) = << <<f.no, 1>> >>
      BY <1>1, <1>2, GatheredIs
    <3> QED BY <2>1, <2>2, <3>1, <3>2
  <2>3. CASE NoMemory /\ UNCHANGED <<rxInFlight, received>>
    <3>1. rx = NoRx
      BY <1>2, <2>3 DEF Fitting, Awaits
    <3> QED BY <2>3, <3>1
  <2> QED BY <1>2, <2>2, <2>3 DEF RxStart, NoMemory
<1>3. CASE f.done # 0 /\ RxData(c, f)
  <2>1. CASE rx = NoRx
    BY <1>3, <2>1 DEF RxData
  <2>2. CASE rx # NoRx
    <3>1. PICK no \in Nat, j \in Nat :
            /\ j > 0 /\ rx.left > 0 /\ rx.got = Gathered(no, j) /\ last < no
            /\ f.no = no /\ f.done = j /\ f.lines = j + rx.left
      BY <1>3, <2>2 DEF Fitting, Awaits
    <3>2. Assembled(c, [got |-> Append(rx.got, <<f.no, f.done + 1>>), left |-> rx.left - 1])
      BY <1>3, <2>2 DEF RxData
    <3>3. Append(rx.got, <<f.no, f.done + 1>>) = Gathered(f.no, f.done + 1)
      <4>1. Append(Gathered(no, j), <<no, j + 1>>) = Gathered(no, j + 1)
        BY GatheredIs
      <4> QED BY <3>1, <4>1
    <3>4. rx.left \in Nat
      BY DEF Rx
    <3>5. rx.left - 1 = f.lines - f.done - 1
      BY <1>1, <3>1, <3>4
    <3> QED BY <3>1, <3>2, <3>3, <3>5
  <2> QED BY <2>1, <2>2
<1>4. QED
  BY <1>2, <1>3

\* The last frame that has gone up.
LEMMA LastUpIs ==
  ASSUME NEW r \in Seq(Wholes)
  PROVE  LastUp(r) \in Nat
<1>1. CASE r = <<>>
  BY <1>1 DEF LastUp
<1>2. CASE r # <<>>
  <2>1. r[Len(r)] \in Wholes
    BY <1>2
  <2>2. PICK no \in Nat, j \in Nat \ {0} : r[Len(r)] = Gathered(no, j)
    BY <2>1 DEF Wholes
  <2>3. Number(r[Len(r)]) = no
    BY <2>2, NumberIs
  <2> QED BY <1>2, <2>3 DEF LastUp
<1>3. QED
  BY <1>1, <1>2

LEMMA UpLonger ==
  ASSUME NEW r \in Seq(Wholes), RisingUp(r), NEW f \in Wholes, NEW no \in Nat, Number(f) = no,
         LastUp(r) < no
  PROVE  LET s == Append(r, f) IN s \in Seq(Wholes) /\ RisingUp(s) /\ LastUp(s) = no
<1> DEFINE s == Append(r, f)
<1>1. PICK n \in Nat : n = Len(r)
  OBVIOUS
<1>2. s \in Seq(Wholes) /\ Len(s) = n + 1 /\ s[n + 1] = f /\ \A i \in 1 .. n : s[i] = r[i]
  BY <1>1
<1> HIDE DEF s
<1>3. s # <<>>
  BY <1>2
<1>4. LastUp(s) = no
  BY <1>2, <1>3 DEF LastUp
<1>5. ASSUME NEW i \in 2 .. n + 1 PROVE Number(s[i - 1]) < Number(s[i])
  <2>1. CASE i = n + 1
    <3>1. n \in 1 .. n /\ r # <<>> /\ i - 1 = n
      BY <1>1, <2>1
    <3>2. LastUp(r) = Number(r[n])
      BY <1>1, <3>1 DEF LastUp
    <3>3. s[i - 1] = r[n] /\ s[i] = f
      BY <1>2, <2>1, <3>1
    <3> QED BY <3>2, <3>3
  <2>2. CASE i \in 2 .. n
    <3>1. i - 1 \in 1 .. n /\ i \in 1 .. n
      BY <2>2
    <3>2. Number(r[i - 1]) < Number(r[i])
      BY <1>1, <2>2 DEF RisingUp
    <3> QED BY <1>2, <3>1, <3>2
  <2> QED BY <2>1, <2>2
<1>6. RisingUp(s)
  BY <1>2, <1>5 DEF RisingUp
<1>7. QED
  BY <1>2, <1>4, <1>6 DEF s

LEMMA ComingIs ==
  ASSUME NEW s \in Frame, NEW k \in Nat, s # Nothing => s.done # 0 /\ s.done < s.lines
  PROVE  /\ ComingOf(s, k) \in Mail /\ IsPacket(ComingOf(s, k)) /\ WellFormed(ComingOf(s, k))
         /\ ComingOf(s, k).arg \in Frame
         /\ s = Nothing => ComingOf(s, k).arg = [no |-> k + 1, lines |-> 1, done |-> 0]
         /\ s # Nothing => ComingOf(s, k).arg = s
<1> DEFINE x == ComingOf(s, k)
<1>2. CASE s = Nothing
  <2> DEFINE f == [no |-> k + 1, lines |-> 1, done |-> 0]
  <2>1. f \in Frame /\ f.done < f.lines /\ f.done = 0
    BY DEF Frame
  <2> HIDE DEF f
  <2>2. x = [box |-> "PACKETSTART", arg |-> f]
    BY <1>2 DEF ComingOf, f
  <2> HIDE DEF x
  <2>3. x \in Mail /\ IsPacket(x) /\ x.box = "PACKETSTART" /\ x.arg = f
    BY <2>1, <2>2 DEF Mail, IsPacket
  <2>4. WellFormed(x)
    BY <2>1, <2>3 DEF WellFormed
  <2> QED BY <1>2, <2>1, <2>3, <2>4 DEF f, x
<1>3. CASE s # Nothing
  <2>1. x = [box |-> "PACKETDATA", arg |-> s]
    BY <1>3 DEF ComingOf
  <2> HIDE DEF x
  <2>2. x \in Mail /\ IsPacket(x) /\ x.box = "PACKETDATA" /\ x.arg = s
    BY <2>1 DEF Mail, IsPacket
  <2>3. WellFormed(x)
    BY <1>3, <2>2 DEF WellFormed
  <2> QED BY <1>3, <2>2, <2>3 DEF x
<1>4. QED
  BY <1>2, <1>3

Halfway(c) == sending[c] # Nothing => /\ sending[c].done # 0 /\ sending[c].done < sending[c].lines
                                      /\ sending[c].no <= count.from[c]

LEMMA HalfwayIs ==
  ASSUME Types, NEW c \in Core, UpInv(c)
  PROVE  Halfway(c)
<1> SUFFICES ASSUME sending[c] # Nothing
             PROVE  /\ sending[c].done # 0 /\ sending[c].done < sending[c].lines
                    /\ sending[c].no <= count.from[c]
  BY DEF Halfway
<1> DEFINE x == [box |-> "PACKETDATA", arg |-> sending[c]]
<1>1. mail[c] \in Seq(Mail)
  BY DEF Types, CoreTypes
<1>2. ToCome(c) = Append(mail[c], x)
  BY DEF ToCome, Coming, ComingOf
<1> HIDE DEF x
<1>3. PICK v \in Seq(Mail) : v = mail[c]
  BY <1>1
<1>4. PICK w : w = ToCome(c)
  OBVIOUS
<1>5. w[Len(v) + 1] = x /\ Len(v) + 1 \in 1 .. Len(w)
  BY <1>2, <1>3, <1>4
<1>6. WellFormed(x)
  BY <1>5, <1>4 DEF UpInv, Upright
<1>7. x.box = "PACKETDATA" /\ x.arg = sending[c]
  BY DEF x
<1>8. sending[c].done # 0 /\ sending[c].done < sending[c].lines
  BY <1>6, <1>7 DEF WellFormed, IsPacket
<1>9. QED
  BY <1>8 DEF UpInv

\* A line of the same frame and position,
LEMMA ReplacesSame ==
  ASSUME NEW g, NEW x, g.arg.no = x.arg.no, g.arg.done = x.arg.done,
         g.arg.done # 0 => g.arg.lines = x.arg.lines, NEW rx, NEW last
  PROVE  Replaces(g, x, rx, last)
<1>1. ASSUME NEW f, Follows(f, g.arg) PROVE Follows(f, x.arg)
  BY <1>1 DEF Follows
<1>2. ASSUME Awaits(rx, last, g.arg) PROVE Awaits(rx, last, x.arg)
  BY <1>2 DEF Awaits
<1>3. Fitting(rx, last, g.arg) => Fitting(rx, last, x.arg)
  BY <1>2 DEF Fitting
<1>4. QED
  BY <1>1, <1>3 DEF Replaces

\* and the start of a later one after a restart.
LEMMA ReplacesTorn ==
  ASSUME FramesCareful, Torn, NEW g, NEW h, g.arg \in Frame, h.arg \in Frame,
         g.arg.no < h.arg.no, h.arg.done = 0, NEW rx, NEW last \in Nat
  PROVE  Replaces(g, h, rx, last)
<1>1. PICK x \in Frame, y \in Frame : x = g.arg /\ y = h.arg
  OBVIOUS
<1>2. x.no \in Nat /\ y.no \in Nat /\ x.no < y.no /\ y.done = 0
  BY <1>1 DEF Frame
<1>3. ASSUME NEW f \in Frame, Follows(f, x) PROVE Follows(f, y)
  <2>1. f.no \in Nat
    BY DEF Frame
  <2>2. x.no > f.no \/ x.no = f.no
    BY <1>3 DEF Follows
  <2>3. y.no > f.no
    BY <1>2, <2>1, <2>2
  <2> QED BY <1>2, <2>3 DEF Follows
<1>4. ASSUME Awaits(rx, last, x) PROVE Awaits(rx, last, y)
  <2>1. PICK no \in Nat, j \in Nat :
          /\ j > 0 /\ rx.left > 0 /\ rx.got = Gathered(no, j) /\ last < no
          /\ IF x.done = 0 THEN x.no > no /\ ~NoMemory
             ELSE x.no = no /\ x.done = j /\ x.lines = j + rx.left
    BY <1>4 DEF Awaits
  <2>2. x.no > no \/ x.no = no
    BY <2>1
  <2>3. y.no > no
    BY <1>2, <2>2
  <2>4. ~NoMemory
    BY DEF FramesCareful
  <2> QED BY <1>2, <2>1, <2>3, <2>4 DEF Awaits
<1>5. Fitting(rx, last, x) => Fitting(rx, last, y)
  <2> SUFFICES ASSUME Fitting(rx, last, x) PROVE Fitting(rx, last, y)
    OBVIOUS
  <2>1. last <= x.no /\ (rx = NoRx \/ Awaits(rx, last, x))
    BY DEF Fitting
  <2>2. last <= y.no /\ last < y.no
    BY <1>2, <2>1
  <2> QED BY <1>4, <2>1, <2>2 DEF Fitting
<1>6. QED
  BY <1>1, <1>3, <1>5 DEF Replaces

-----------------------------------------------------------------------------
(***************************************************************************)
(* The steps.                                                              *)
(***************************************************************************)
LEMMA UpStays ==
  ASSUME NEW c \in Core, UpInv(c), mail'[c] = mail[c], sending'[c] = sending[c],
         count'.from[c] = count.from[c], rxInFlight'[c] = rxInFlight[c], received'[c] = received[c]
  PROVE  UpInv(c)'
<1>1. ToCome(c)' = ToCome(c)
  BY DEF ToCome, Coming
<1>2. QED
  BY <1>1 DEF UpInv

\* A core sends a line, or something else.
LEMMA UpPosted ==
  ASSUME Types, Types', UpTypes, NEW c \in Core, UpInv(c), Halfway(c)', NEW x \in Mail,
         mail'[c] = Append(mail[c], x), rxInFlight'[c] = rxInFlight[c], received'[c] = received[c],
         \/ /\ IsPacket(x) /\ WellFormed(x) /\ Follows(x.arg, Coming(c)'.arg)
            /\ Replaces(Coming(c), x, rxInFlight[c], LastUp(received[c]))
         \/ /\ ~IsPacket(x)
            /\ Replaces(Coming(c), Coming(c)', rxInFlight[c], LastUp(received[c]))
  PROVE  UpInv(c)'
<1>1. mail[c] \in Seq(Mail) /\ sending[c] \in Frame /\ count.from[c] \in Nat
  BY DEF Types, CoreTypes
<1>2. sending'[c] \in Frame /\ count'.from[c] \in Nat
  BY DEF Types, CoreTypes
<1>3. PICK g \in Mail : g = Coming(c) /\ IsPacket(g)
  BY <1>1, HalfwayIs, ComingIs DEF Coming, Halfway
<1>4. PICK h \in Mail : h = ComingOf(sending'[c], count'.from[c]) /\ IsPacket(h) /\ WellFormed(h)
  BY <1>2, ComingIs DEF Halfway
<1>5. Coming(c)' = h
  BY <1>4 DEF Coming
<1>6. PICK v \in Seq(Mail) : v = mail[c]
  BY <1>1
<1>7. PICK rx, last : rx = rxInFlight[c] /\ last = LastUp(received[c])
  OBVIOUS
<1>8. Upright(Append(v, g), rx, last)
  BY <1>3, <1>6, <1>7 DEF UpInv, ToCome
<1>9. Upright(Append(Append(v, x), h), rx, last)
  <2>1. CASE IsPacket(x)
    BY <1>3, <1>4, <1>5, <1>8, <1>7, <2>1, Replaced
  <2>2. CASE ~IsPacket(x)
    BY <1>3, <1>4, <1>5, <1>8, <1>7, <2>2, Inserted
  <2> QED BY <2>1, <2>2
<1>10. ToCome(c)' = Append(Append(v, x), h)
  BY <1>5, <1>6 DEF ToCome
<1>11. RisingUp(received[c])
  BY DEF UpInv
<1>12. QED
  BY <1>9, <1>10, <1>11, <1>7 DEF UpInv, Halfway

LEMMA UpTakes ==
  ASSUME FramesInv, Types', NEW c \in Core, CoreTakes(c), NEW d \in Core
  PROVE  UpInv(d)'
<1>1. Types /\ CoreTypes /\ UpTypes /\ UpInv(d) /\ coreSlot[c] \in Slot
  BY DEF FramesInv, Types, CoreTypes
<1>2. UNCHANGED <<sending, rxInFlight, count, received>> /\ Post(c, "RXDONE", coreSlot[c])
  BY DEF CoreTakes
<1>3. PICK x \in Mail : x = Done(coreSlot[c]) /\ ~IsPacket(x)
  BY <1>1, DoneIs, PacketIs
<1>4. mail'[c] = Append(mail[c], x) /\ \A e \in Core \ {c} : mail'[e] = mail[e]
  BY <1>1, <1>2, <1>3, Posted DEF Done
<1>5. CASE d # c
  BY <1>1, <1>2, <1>4, <1>5, UpStays
<1>6. CASE d = c
  <2>1. Coming(c)' = Coming(c) /\ Halfway(c)'
    BY <1>1, <1>2, <1>6, HalfwayIs DEF Coming, Halfway
  <2>2. Replaces(Coming(c), Coming(c), rxInFlight[c], LastUp(received[c]))
    BY DEF Replaces
  <2> QED BY <1>1, <1>2, <1>3, <1>4, <1>6, <2>1, <2>2, UpPosted
<1>7. QED
  BY <1>5, <1>6

\* The first line is the one that was to come, and the second comes next.
LEMMA UpStarts ==
  ASSUME FramesInv, Types', NEW c \in Core, NEW n \in UpLines, CoreStarts(c, n), NEW d \in Core
  PROVE  UpInv(d)'
<1> DEFINE f == [no |-> count.from[c] + 1, lines |-> n, done |-> 0]
           t == [no |-> count.from[c] + 1, lines |-> n, done |-> 1]
<1>1. Types /\ CoreTypes /\ UpTypes /\ UpInv(d) /\ count.from[c] \in Nat /\ sending \in [Core -> Frame]
      /\ count.from \in [Core -> Nat]
  BY DEF FramesInv, Types, CoreTypes
<1>2. /\ UNCHANGED <<rxInFlight, received>> /\ Post(c, "PACKETSTART", f) /\ sending[c] = Nothing
      /\ sending' = [sending EXCEPT ![c] = IF n = 1 THEN Nothing ELSE t]
      /\ count' = [count EXCEPT !.from[c] = @ + 1]
  BY DEF CoreStarts
<1>3. count'.from = [count.from EXCEPT ![c] = count.from[c] + 1]
  BY <1>1, <1>2, CountFrom
<1>4. n \in Nat /\ n > 0
  BY NetAssumption
<1>5. PICK k \in Nat : k = count.from[c] + 1
  BY <1>1
<1>6. /\ f \in Frame /\ f.no = k /\ f.lines = n /\ f.done = 0
      /\ t \in Frame /\ t.no = k /\ t.lines = n /\ t.done = 1 /\ t # Nothing
  BY <1>4, <1>5 DEF Frame, Nothing
<1> HIDE DEF f, t
<1>7. PICK x \in Mail : x = [box |-> "PACKETSTART", arg |-> f]
  BY <1>6 DEF Mail
<1>8. IsPacket(x) /\ x.arg = f /\ x.box = "PACKETSTART"
  BY <1>7 DEF IsPacket
<1>9. WellFormed(x)
  BY <1>4, <1>6, <1>8 DEF WellFormed
<1>10. mail'[c] = Append(mail[c], x) /\ \A e \in Core \ {c} : mail'[e] = mail[e]
  BY <1>1, <1>2, <1>7, Posted
<1>11. CASE d # c
  BY <1>1, <1>2, <1>3, <1>10, <1>11, UpStays
<1>12. CASE d = c
  <2>1. sending'[c] = (IF n = 1 THEN Nothing ELSE t) /\ count'.from[c] = k
    BY <1>1, <1>2, <1>3, <1>5
  <2>2. Halfway(c)'
    <3>1. CASE n = 1
      BY <2>1, <3>1 DEF Halfway
    <3>2. CASE n # 1
      BY <1>4, <1>6, <2>1, <3>2 DEF Halfway
    <3> QED BY <3>1, <3>2
  <2>3. Coming(c).arg.no = k /\ Coming(c).arg.done = 0
    <3>1. Coming(c).arg = [no |-> count.from[c] + 1, lines |-> 1, done |-> 0]
      BY <1>1, <1>2, ComingIs DEF Coming
    <3> QED BY <1>5, <3>1
  <2>4. Replaces(Coming(c), x, rxInFlight[c], LastUp(received[c]))
    <3>1. PICK g : g = Coming(c)
      OBVIOUS
    <3>2. g.arg.no = x.arg.no /\ g.arg.done = x.arg.done /\ g.arg.done = 0
      BY <1>6, <1>8, <2>3, <3>1
    <3>3. Replaces(g, x, rxInFlight[c], LastUp(received[c]))
      BY <3>2, ReplacesSame
    <3> QED BY <3>1, <3>3
  <2>5. Follows(x.arg, Coming(c)'.arg)
    <3>1. CASE n = 1
      <4>1. sending'[c] = Nothing /\ Nothing \in Frame
        BY <2>1, <3>1 DEF Nothing, Frame
      <4>2. ComingOf(Nothing, k).arg = [no |-> k + 1, lines |-> 1, done |-> 0]
        BY <4>1, ComingIs
      <4>3. Coming(c)' = ComingOf(Nothing, k)
        BY <2>1, <4>1 DEF Coming
      <4>4. Coming(c)'.arg.no = k + 1 /\ Coming(c)'.arg.done = 0
        BY <4>2, <4>3
      <4>5. f.done + 1 = f.lines /\ k + 1 > f.no
        BY <1>6, <3>1
      <4> QED BY <1>8, <4>4, <4>5 DEF Follows
    <3>2. CASE n # 1
      <4>1. t.done # 0 /\ t.done < t.lines
        BY <1>4, <1>6, <3>2
      <4>2. ComingOf(t, k).arg = t
        BY <1>6, <4>1, ComingIs
      <4>3. Coming(c)' = ComingOf(t, k)
        BY <2>1, <3>2 DEF Coming
      <4>4. t.no = f.no /\ t.lines = f.lines /\ t.done = f.done + 1 /\ t.done # 0
        BY <1>6
      <4>5. Follows(f, t)
        BY <4>4 DEF Follows
      <4> QED BY <1>8, <4>2, <4>3, <4>5
    <3> QED BY <3>1, <3>2
  <2> QED BY <1>1, <1>2, <1>8, <1>9, <1>10, <1>12, <2>2, <2>4, <2>5, UpPosted
<1>13. QED
  BY <1>11, <1>12

LEMMA UpContinues ==
  ASSUME FramesInv, Types', NEW c \in Core, CoreContinues(c), NEW d \in Core
  PROVE  UpInv(d)'
<1> DEFINE t == [sending[c] EXCEPT !.done = @ + 1]
<1>1. Types /\ CoreTypes /\ UpTypes /\ UpInv(d) /\ UpInv(c) /\ sending \in [Core -> Frame]
      /\ count.from[c] \in Nat
  BY DEF FramesInv, Types, CoreTypes
<1>2. PICK f \in Frame : f = sending[c]
  BY <1>1
<1>3. /\ UNCHANGED <<rxInFlight, received, count>> /\ Post(c, "PACKETDATA", f) /\ f # Nothing
      /\ sending' = [sending EXCEPT ![c] = IF f.done + 1 = f.lines THEN Nothing ELSE t]
  BY <1>2 DEF CoreContinues, history
<1>4. f.done # 0 /\ f.done < f.lines /\ f.no <= count.from[c]
  BY <1>1, <1>2, <1>3, HalfwayIs DEF Halfway
<1>5. f.no \in Nat /\ f.lines \in Nat /\ f.done \in Nat
  BY DEF Frame
<1>6. t \in Frame /\ t.no = f.no /\ t.lines = f.lines /\ t.done = f.done + 1
  BY <1>2, <1>5 DEF Frame
<1> HIDE DEF t
<1>7. t # Nothing
  BY <1>5, <1>6 DEF Nothing
<1>8. PICK x \in Mail : x = [box |-> "PACKETDATA", arg |-> f]
  BY DEF Mail
<1>9. IsPacket(x) /\ x.arg = f /\ x.box = "PACKETDATA"
  BY <1>8 DEF IsPacket
<1>10. WellFormed(x)
  BY <1>4, <1>9 DEF WellFormed
<1>11. mail'[c] = Append(mail[c], x) /\ \A e \in Core \ {c} : mail'[e] = mail[e]
  BY <1>1, <1>3, <1>8, Posted
<1>12. CASE d # c
  BY <1>1, <1>3, <1>11, <1>12, UpStays
<1>13. CASE d = c
  <2>1. sending'[c] = (IF f.done + 1 = f.lines THEN Nothing ELSE t) /\ count' = count
    BY <1>1, <1>3
  <2>2. Halfway(c)'
    <3>1. CASE f.done + 1 = f.lines
      BY <2>1, <3>1 DEF Halfway
    <3>2. CASE f.done + 1 # f.lines
      <4>1. t.done # 0 /\ t.done < t.lines /\ t.no <= count.from[c]
        BY <1>4, <1>5, <1>6, <3>2
      <4> QED BY <2>1, <3>2, <4>1 DEF Halfway
    <3> QED BY <3>1, <3>2
  <2>3. Coming(c).arg = f
    BY <1>1, <1>2, <1>3, <1>4, ComingIs DEF Coming
  <2>4. Replaces(Coming(c), x, rxInFlight[c], LastUp(received[c]))
    <3>1. PICK g : g = Coming(c)
      OBVIOUS
    <3>2. g.arg = x.arg
      BY <1>9, <2>3, <3>1
    <3>3. Replaces(g, x, rxInFlight[c], LastUp(received[c]))
      BY <3>2, ReplacesSame
    <3> QED BY <3>1, <3>3
  <2>5. Follows(x.arg, Coming(c)'.arg)
    <3>1. CASE f.done + 1 = f.lines
      <4>1. PICK k \in Nat : k = count.from[c]
        BY <1>1
      <4>2. Nothing \in Frame
        BY DEF Nothing, Frame
      <4>3. ComingOf(Nothing, k).arg = [no |-> k + 1, lines |-> 1, done |-> 0]
        BY <4>2, ComingIs
      <4>4. Coming(c)' = ComingOf(Nothing, k)
        BY <2>1, <3>1, <4>1 DEF Coming
      <4>5. Coming(c)'.arg.no = k + 1 /\ Coming(c)'.arg.done = 0
        BY <4>3, <4>4
      <4>6. k + 1 > f.no
        BY <1>4, <1>5, <4>1
      <4> QED BY <1>9, <3>1, <4>5, <4>6 DEF Follows
    <3>2. CASE f.done + 1 # f.lines
      <4>1. t.done # 0 /\ t.done < t.lines
        BY <1>4, <1>5, <1>6, <3>2
      <4>2. ComingOf(t, count.from[c]).arg = t
        BY <1>1, <1>6, <1>7, <4>1, ComingIs
      <4>3. Coming(c)' = ComingOf(t, count.from[c])
        BY <2>1, <3>2 DEF Coming
      <4>4. Follows(f, t)
        BY <1>6, <4>1 DEF Follows
      <4> QED BY <1>9, <4>2, <4>3, <4>4
    <3> QED BY <3>1, <3>2
  <2> QED BY <1>1, <1>3, <1>9, <1>10, <1>11, <1>13, <2>2, <2>4, <2>5, UpPosted
<1>14. QED
  BY <1>12, <1>13

LEMMA UpRestart ==
  ASSUME FramesCareful, FramesInv, Types', NEW c \in Core, NEW s \in Slot, Restart(c, s), NEW d \in Core
  PROVE  UpInv(d)'
<1>1. Types /\ CoreTypes /\ UpTypes /\ UpInv(d) /\ UpInv(c) /\ sending \in [Core -> Frame]
      /\ count.from[c] \in Nat /\ LastUp(received[c]) \in Nat
  BY LastUpIs DEF FramesInv, Types, CoreTypes, UpTypes
<1>2. /\ UNCHANGED <<rxInFlight, received>> /\ Post(c, "CONFIG", s)
      /\ sending' = [sending EXCEPT ![c] = Nothing] /\ (Torn \/ sending[c] = Nothing)
  BY DEF Restart, Torn
<1>3. count'.from = count.from
  BY <1>1, CountRestart DEF Restart
<1>4. PICK x \in Mail : x = Config(s) /\ ~IsPacket(x)
  BY DoneIs, PacketIs
<1>5. mail'[c] = Append(mail[c], x) /\ \A e \in Core \ {c} : mail'[e] = mail[e]
  BY <1>1, <1>2, <1>4, Posted DEF Config
<1>6. CASE d # c
  BY <1>1, <1>2, <1>3, <1>5, <1>6, UpStays
<1>7. CASE d = c
  <2>1. sending'[c] = Nothing /\ count'.from[c] = count.from[c]
    BY <1>1, <1>2, <1>3
  <2>2. Halfway(c)'
    BY <2>1 DEF Halfway
  <2>3. PICK k \in Nat : k = count.from[c]
    BY <1>1
  <2>4. PICK h : h = ComingOf(Nothing, k)
    OBVIOUS
  <2>5. Coming(c)' = h
    BY <2>1, <2>3, <2>4 DEF Coming
  <2>6. h.arg \in Frame /\ h.arg.no = k + 1 /\ h.arg.done = 0
    <3>1. Nothing \in Frame
      BY DEF Nothing, Frame
    <3>2. h.arg = [no |-> k + 1, lines |-> 1, done |-> 0] /\ h.arg \in Frame
      BY <2>4, <3>1, ComingIs
    <3> QED BY <3>2
  <2>7. PICK last \in Nat : last = LastUp(received[c])
    BY <1>1
  <2>8. Replaces(Coming(c), h, rxInFlight[c], LastUp(received[c]))
    <3>1. CASE sending[c] = Nothing
      <4>1. Coming(c) = h
        BY <2>3, <2>4, <3>1 DEF Coming
      <4> QED BY <4>1 DEF Replaces
    <3>2. CASE sending[c] # Nothing
      <4>1. PICK g : g = Coming(c)
        OBVIOUS
      <4>2. g.arg = sending[c] /\ sending[c].no <= k
        BY <1>1, <2>3, <3>2, <4>1, HalfwayIs, ComingIs DEF Coming, Halfway
      <4>3. sending[c] \in Frame
        BY <1>1
      <4>4. g.arg \in Frame /\ g.arg.no \in Nat /\ g.arg.no <= k
        BY <4>2, <4>3 DEF Frame
      <4>5. g.arg.no < h.arg.no
        BY <2>6, <4>4
      <4>6. Replaces(g, h, rxInFlight[c], last)
        BY <1>2, <2>6, <3>2, <4>4, <4>5, ReplacesTorn
      <4> QED BY <2>7, <4>1, <4>6
    <3> QED BY <3>1, <3>2
  <2> QED BY <1>1, <1>2, <1>4, <1>5, <1>7, <2>2, <2>5, <2>8, UpPosted
<1>8. QED
  BY <1>6, <1>7

\* The head of a mailbox, and what it does.
LEMMA HeadHandled ==
  ASSUME FramesInv, NEW c \in Core, Handle(c)
  PROVE  /\ mail[c] # <<>> /\ Head(mail[c]) \in Mail /\ mail'[c] = Tail(mail[c])
         /\ \A e \in Core \ {c} : mail'[e] = mail[e]
         /\ UNCHANGED <<sending, count>>
         /\ ~IsPacket(Head(mail[c])) => UNCHANGED <<rxInFlight, received>>
         /\ Head(mail[c]).box = "PACKETSTART" => RxStart(c, Head(mail[c]).arg)
         /\ Head(mail[c]).box = "PACKETDATA"  => RxData(c, Head(mail[c]).arg)
<1> DEFINE x == Head(mail[c])
<1>1. /\ mail[c] # <<>> /\ mail' = [mail EXCEPT ![c] = Tail(@)]
      /\ CASE x.box = "CONFIG"      -> Reset(c, x.arg) /\ UNCHANGED <<rxInFlight, received>>
           [] x.box = "RXDONE"      -> Complete(c, x.arg) /\ UNCHANGED <<rxInFlight, received>>
           [] x.box = "PACKETSTART" -> RxStart(c, x.arg) /\ UNCHANGED tx
           [] x.box = "PACKETDATA"  -> RxData(c, x.arg) /\ UNCHANGED tx
      /\ UNCHANGED <<sending, count>>
  BY DEF Handle, cores
<1>2. mail \in [Core -> Seq(Mail)]
  BY DEF FramesInv, Types, CoreTypes
<1>3. x \in Mail
  BY <1>1, <1>2
<1>4. mail'[c] = Tail(mail[c]) /\ \A e \in Core \ {c} : mail'[e] = mail[e]
  BY <1>1, <1>2
<1> HIDE DEF x
<1>5. /\ ~IsPacket(x) => UNCHANGED <<rxInFlight, received>>
      /\ x.box = "PACKETSTART" => RxStart(c, x.arg)
      /\ x.box = "PACKETDATA"  => RxData(c, x.arg)
  BY <1>1, <1>3, MailIs DEF IsPacket
<1>6. QED
  BY <1>1, <1>3, <1>4, <1>5 DEF x

LEMMA WithoutHead ==
  ASSUME NEW v \in Seq(Mail), v # <<>>, NEW g \in Mail
  PROVE  /\ Append(v, g) \in Seq(Mail) /\ Append(v, g) # <<>> /\ Head(Append(v, g)) = Head(v)
         /\ Tail(Append(v, g)) = Append(Tail(v), g)
<1>1. Append(v, g) \in Seq(Mail) /\ Len(v) \in Nat /\ Len(v) > 0 /\ Len(Append(v, g)) = Len(v) + 1
  OBVIOUS
<1>2. Head(Append(v, g)) = Head(v)
  BY <1>1
<1>3. Tail(Append(v, g)) = Append(Tail(v), g)
  BY <1>1
<1>4. QED
  BY <1>1, <1>2, <1>3

\* What the assembly comes to.
Added(c, f) == /\ LastUp(received[c]) < f.no
               /\ Assembled(c, [got |-> Gathered(f.no, f.done + 1), left |-> f.lines - f.done - 1])

LEMMA PacketHandled ==
  ASSUME FramesInv, NEW c \in Core, Handle(c), IsPacket(Head(mail[c]))
  PROVE  LET f == Head(mail[c]).arg IN
         /\ f \in Frame /\ f.done < f.lines /\ LastUp(received[c]) <= f.no
         /\ \/ rxInFlight[c] = NoRx /\ UNCHANGED <<rxInFlight, received>>
            \/ Added(c, f)
<1>1. Types /\ UpTypes /\ UpInv(c) /\ mail[c] \in Seq(Mail)
  BY DEF FramesInv, Types, CoreTypes
<1>2. PICK x \in Mail : x = Head(mail[c]) /\ IsPacket(x)
  BY HeadHandled
<1>3. PICK f \in Frame : f = x.arg
  BY <1>2, PacketIs
<1>4. PICK rx \in Rx : rx = rxInFlight[c]
  BY <1>1 DEF UpTypes, Rx
<1>5. PICK last \in Nat : last = LastUp(received[c])
  BY <1>1, LastUpIs DEF UpTypes
<1>6. sending[c] \in Frame /\ count.from[c] \in Nat
  BY <1>1 DEF Types, CoreTypes
<1>7. PICK g \in Mail : g = Coming(c)
  BY <1>1, <1>6, HalfwayIs, ComingIs DEF Coming, Halfway
<1>8. PICK w \in Seq(Mail) : w = Append(mail[c], g) /\ w # <<>> /\ Head(w) = x
  <2>1. Append(mail[c], g) \in Seq(Mail) /\ Append(mail[c], g) # <<>> /\ Head(Append(mail[c], g)) = x
    BY <1>1, <1>2, HeadHandled, WithoutHead
  <2> QED BY <2>1
<1>9. Upright(w, rx, last)
  BY <1>1, <1>4, <1>5, <1>7, <1>8 DEF UpInv, ToCome
<1>10. Fitting(rx, last, f) /\ WellFormed(x)
  BY <1>2, <1>3, <1>8, <1>9, AfterHead
<1>11. f.done < f.lines /\ (x.box = "PACKETSTART" <=> f.done = 0)
  BY <1>2, <1>3, <1>10 DEF WellFormed
<1>12. \/ f.done = 0 /\ RxStart(c, f)
       \/ f.done # 0 /\ RxData(c, f)
  <2>1. CASE x.box = "PACKETSTART"
    BY <1>2, <1>3, <1>11, <2>1, HeadHandled
  <2>2. CASE x.box = "PACKETDATA"
    BY <1>2, <1>3, <1>11, <2>2, HeadHandled
  <2> QED BY <1>2, <2>1, <2>2, PacketIs
<1>13. \/ rx = NoRx /\ UNCHANGED <<rxInFlight, received>>
       \/ /\ last < f.no
          /\ Assembled(c, [got |-> Gathered(f.no, f.done + 1), left |-> f.lines - f.done - 1])
  BY <1>4, <1>10, <1>11, <1>12, LineHandled
<1>14. last <= f.no
  BY <1>10 DEF Fitting
<1>15. QED
  BY <1>2, <1>3, <1>4, <1>5, <1>11, <1>13, <1>14 DEF Added

\* A frame that is complete goes up, the others remain under assembly.
LEMMA AddedIs ==
  ASSUME UpTypes, NEW c \in Core, NEW f \in Frame, f.done < f.lines, Added(c, f)
  PROVE  /\ UpTypes'
         /\ \A e \in Core \ {c} : rxInFlight'[e] = rxInFlight[e] /\ received'[e] = received[e]
         /\ \/ /\ f.lines = f.done + 1 /\ rxInFlight'[c] = NoRx
               /\ received'[c] = Append(received[c], Gathered(f.no, f.done + 1))
            \/ /\ f.done + 1 < f.lines /\ received'[c] = received[c]
               /\ rxInFlight'[c].got = Gathered(f.no, f.done + 1)
               /\ rxInFlight'[c].left = f.lines - f.done - 1
<1> DEFINE r == [got |-> Gathered(f.no, f.done + 1), left |-> f.lines - f.done - 1]
<1>1. f.no \in Nat /\ f.lines \in Nat /\ f.done \in Nat
  BY DEF Frame
<1>2. PICK no \in Nat, j \in Nat, l \in Nat :
        /\ no = f.no /\ j = f.done + 1 /\ j > 0
        /\ l = f.lines - f.done - 1 /\ (l = 0 => f.lines = f.done + 1) /\ (l # 0 => f.done + 1 < f.lines)
  <2>1. /\ f.done + 1 \in Nat /\ f.done + 1 > 0 /\ f.lines - f.done - 1 \in Nat
        /\ (f.lines - f.done - 1 = 0 => f.lines = f.done + 1)
        /\ (f.lines - f.done - 1 # 0 => f.done + 1 < f.lines)
    BY <1>1
  <2> QED BY <1>1, <2>1
<1>3. r = [got |-> Gathered(no, j), left |-> l]
  BY <1>2
<1>4. Gathered(no, j) \in Seq(Lines0) /\ Gathered(no, j) \in Wholes
  BY <1>2, GatheredIs
<1> HIDE DEF r
<1>5. r \in Rx /\ NoRx \in Rx /\ r.left = l /\ r.got = Gathered(no, j)
  BY <1>3, <1>4 DEF Rx, NoRx
<1>6. rxInFlight \in [Core -> Rx] /\ received \in [Core -> Seq(Wholes)]
  BY DEF UpTypes, Rx
<1>7. Assembled(c, r)
  BY DEF Added, r
<1>8. CASE l = 0
  <2>1. /\ rxInFlight' = [rxInFlight EXCEPT ![c] = NoRx]
        /\ received' = [received EXCEPT ![c] = Append(received[c], Gathered(no, j))]
    BY <1>5, <1>7, <1>8 DEF Assembled
  <2>2. Append(received[c], Gathered(no, j)) \in Seq(Wholes)
    BY <1>4, <1>6
  <2>3. rxInFlight' \in [Core -> Rx] /\ received' \in [Core -> Seq(Wholes)]
    BY <1>5, <1>6, <2>1, <2>2
  <2>4. /\ rxInFlight'[c] = NoRx /\ received'[c] = Append(received[c], Gathered(f.no, f.done + 1))
        /\ \A e \in Core \ {c} : rxInFlight'[e] = rxInFlight[e] /\ received'[e] = received[e]
    BY <1>2, <1>6, <2>1
  <2>5. UpTypes'
    BY <2>3 DEF UpTypes, Rx
  <2> QED BY <1>2, <1>8, <2>4, <2>5
<1>9. CASE l # 0
  <2>1. rxInFlight' = [rxInFlight EXCEPT ![c] = r] /\ received' = received
    BY <1>5, <1>7, <1>9 DEF Assembled
  <2>2. rxInFlight' \in [Core -> Rx]
    BY <1>5, <1>6, <2>1
  <2>3. UpTypes'
    BY <1>6, <2>1, <2>2 DEF UpTypes, Rx
  <2>4. rxInFlight'[c] = r /\ \A e \in Core \ {c} : rxInFlight'[e] = rxInFlight[e]
    BY <1>6, <2>1
  <2> QED BY <1>2, <1>5, <1>9, <2>1, <2>3, <2>4
<1>10. QED
  BY <1>8, <1>9

LEMMA UpHandle ==
  ASSUME FramesCareful, FramesInv, NEW c \in Core, Handle(c)
  PROVE  UpTypes' /\ \A d \in Core : UpInv(d)'
<1>1. Types /\ UpTypes /\ UpInv(c) /\ mail[c] \in Seq(Mail) /\ received[c] \in Seq(Wholes)
  BY DEF FramesInv, Types, CoreTypes, UpTypes
<1>2. /\ mail[c] # <<>> /\ mail'[c] = Tail(mail[c]) /\ UNCHANGED <<sending, count>>
      /\ \A e \in Core \ {c} : mail'[e] = mail[e]
  BY HeadHandled
<1>3. sending[c] \in Frame /\ count.from[c] \in Nat
  BY <1>1 DEF Types, CoreTypes
<1>4. PICK g \in Mail : g = Coming(c) /\ g = Coming(c)'
  BY <1>1, <1>2, <1>3, HalfwayIs, ComingIs DEF Coming, Halfway
<1>5. PICK v \in Seq(Mail) : v = ToCome(c) /\ v # <<>> /\ Head(v) = Head(mail[c]) /\ ToCome(c)' = Tail(v)
  <2>1. /\ Append(mail[c], g) \in Seq(Mail) /\ Append(mail[c], g) # <<>>
        /\ Head(Append(mail[c], g)) = Head(mail[c]) /\ Tail(Append(mail[c], g)) = Append(Tail(mail[c]), g)
    BY <1>1, <1>2, WithoutHead
  <2>2. ToCome(c) = Append(mail[c], g) /\ ToCome(c)' = Append(Tail(mail[c]), g)
    BY <1>2, <1>4 DEF ToCome
  <2> QED BY <2>1, <2>2
<1>6. PICK w \in Seq(Mail) : w = Tail(v) /\ ToCome(c)' = w
  BY <1>5
<1>7. PICK last \in Nat : last = LastUp(received[c])
  BY <1>1, LastUpIs
<1>8. /\ Upright(v, rxInFlight[c], last) /\ RisingUp(received[c])
      /\ (sending'[c] # Nothing => sending'[c].no <= count'.from[c])
  BY <1>1, <1>2, <1>5, <1>7 DEF UpInv
<1>9. Chain(w) /\ \A i \in 1 .. Len(w) : WellFormed(w[i])
  BY <1>5, <1>6, <1>8, AfterHead
<1>10. CASE ~IsPacket(Head(mail[c]))
  <2>1. UNCHANGED <<rxInFlight, received>>
    BY <1>10, HeadHandled
  <2>2. Begins(w, rxInFlight[c], last)
    BY <1>5, <1>6, <1>8, <1>10, AfterHead
  <2>3. UpInv(c)'
    BY <1>6, <1>7, <1>8, <1>9, <2>1, <2>2 DEF UpInv, Upright
  <2>4. \A d \in Core \ {c} : UpInv(d)'
    BY <1>2, <2>1, UpStays DEF FramesInv
  <2> QED BY <1>1, <2>1, <2>3, <2>4 DEF UpTypes
<1>11. CASE IsPacket(Head(mail[c]))
  <2>1. PICK f \in Frame : /\ f = Head(mail[c]).arg /\ f.done < f.lines /\ last <= f.no
                           /\ \/ rxInFlight[c] = NoRx /\ UNCHANGED <<rxInFlight, received>>
                              \/ Added(c, f)
    BY <1>7, <1>11, PacketHandled
  <2>2. ASSUME NEW i \in 1 .. Len(w), First(w, i) PROVE w[i].arg \in Frame /\ Follows(f, w[i].arg)
    <3>1. w[i] \in Mail /\ IsPacket(w[i])
      BY <2>2 DEF First
    <3>2. Follows(f, w[i].arg)
      BY <1>5, <1>6, <1>8, <1>11, <2>1, <2>2, AfterHead
    <3> QED BY <3>1, <3>2, PacketIs
  <2>3. CASE rxInFlight[c] = NoRx /\ UNCHANGED <<rxInFlight, received>>
    <3>1. \A i \in 1 .. Len(w) : First(w, i) => Fitting(NoRx, last, w[i].arg)
      BY <2>1, <2>2, FittingNone
    <3>2. Begins(w, rxInFlight[c], last)
      BY <2>3, <3>1 DEF Begins
    <3>3. UpInv(c)'
      BY <1>6, <1>7, <1>8, <1>9, <2>3, <3>2 DEF UpInv, Upright
    <3>4. \A d \in Core \ {c} : UpInv(d)'
      BY <1>2, <2>3, UpStays DEF FramesInv
    <3> QED BY <1>1, <2>3, <3>3, <3>4 DEF UpTypes
  <2>4. CASE Added(c, f)
    <3>1. /\ UpTypes'
          /\ \A e \in Core \ {c} : rxInFlight'[e] = rxInFlight[e] /\ received'[e] = received[e]
          /\ \/ /\ f.lines = f.done + 1 /\ rxInFlight'[c] = NoRx
                /\ received'[c] = Append(received[c], Gathered(f.no, f.done + 1))
             \/ /\ f.done + 1 < f.lines /\ received'[c] = received[c]
                /\ rxInFlight'[c].got = Gathered(f.no, f.done + 1)
                /\ rxInFlight'[c].left = f.lines - f.done - 1
      BY <1>1, <2>1, <2>4, AddedIs
    <3>2. last < f.no /\ f.no \in Nat /\ f.done \in Nat
      BY <1>7, <2>4 DEF Added, Frame
    <3>3. \A d \in Core \ {c} : UpInv(d)'
      BY <1>2, <3>1, UpStays DEF FramesInv
    <3>4. CASE rxInFlight'[c] = NoRx /\ received'[c] = Append(received[c], Gathered(f.no, f.done + 1))
      <4>1. PICK j \in Nat : j = f.done + 1 /\ j > 0
        BY <3>2
      <4>2. Gathered(f.no, j) \in Wholes /\ Number(Gathered(f.no, j)) = f.no
        BY <3>2, <4>1, GatheredIs
      <4>3. RisingUp(received'[c]) /\ LastUp(received'[c]) = f.no
        BY <1>1, <1>7, <1>8, <3>2, <3>4, <4>1, <4>2, UpLonger
      <4>4. \A i \in 1 .. Len(w) : First(w, i) => Fitting(NoRx, f.no, w[i].arg)
        BY <2>2, <3>2, FittingNone
      <4>5. Begins(w, rxInFlight'[c], LastUp(received'[c]))
        BY <3>4, <4>3, <4>4 DEF Begins
      <4>6. UpInv(c)'
        BY <1>6, <1>8, <1>9, <4>3, <4>5 DEF UpInv, Upright
      <4> QED BY <3>1, <3>3, <4>6
    <3>5. CASE /\ f.done + 1 < f.lines /\ received'[c] = received[c]
               /\ rxInFlight'[c].got = Gathered(f.no, f.done + 1)
               /\ rxInFlight'[c].left = f.lines - f.done - 1
      <4>1. \A i \in 1 .. Len(w) : First(w, i) => Fitting(rxInFlight'[c], last, w[i].arg)
        BY <2>2, <3>2, <3>5, FittingPart
      <4>2. Begins(w, rxInFlight'[c], LastUp(received'[c]))
        BY <1>7, <3>5, <4>1 DEF Begins
      <4>3. UpInv(c)'
        BY <1>6, <1>8, <1>9, <3>5, <4>2 DEF UpInv, Upright
      <4> QED BY <3>1, <3>3, <4>3
    <3> QED BY <3>1, <3>4, <3>5
  <2> QED BY <2>1, <2>3, <2>4
<1>12. QED
  BY <1>10, <1>11

LEMMA FramesStep == ASSUME FramesCareful, FramesInv, [Next]_vars PROVE FramesInv'
<1>1. Types /\ Types' /\ UpTypes
  BY TypesStep DEF FramesInv
<1>2. CASE UNCHANGED <<mail, sending, rxInFlight, received>> /\ count'.from = count.from
  <2>1. \A d \in Core : UpInv(d)'
    BY <1>2, UpStays DEF FramesInv
  <2> QED BY <1>1, <1>2, <2>1 DEF FramesInv, UpTypes
<1>3. ASSUME UNCHANGED <<rxInFlight, received>>, \A d \in Core : UpInv(d)' PROVE FramesInv'
  BY <1>1, <1>3 DEF FramesInv, UpTypes
<1>4. ASSUME NEW ip \in Ips, NewFrame(ip) PROVE FramesInv'
  <2>1. count'.from = count.from
    <3>1. CASE DestIp(ip) - 1 \in Core
      <4>1. count' = [count EXCEPT !.to[DestIp(ip) - 1] = @ + 1] /\ CoreTypes
        BY <1>1, <1>4, <3>1 DEF NewFrame, Types
      <4> QED BY <3>1, <4>1, CountTo
    <3>2. CASE DestIp(ip) - 1 \notin Core
      BY <1>4, <3>2 DEF NewFrame
    <3> QED BY <3>1, <3>2
  <2> QED BY <1>2, <1>4, <2>1 DEF NewFrame, cores
<1>5. CASE TxIllegal \/ TxBusy \/ Transmit \/ Mark \/ TxTimeout \/ Arrive \/ UNCHANGED vars
  BY <1>2, <1>5 DEF TxIllegal, TxBusy, Transmit, Mark, TxTimeout, Arrive, vars, cores, history
<1>6. ASSUME NEW c \in Core, TimePasses(c) PROVE FramesInv'
  BY <1>2, <1>6 DEF TimePasses, cores, history
<1>7. ASSUME NEW c \in Core, CoreTakes(c) PROVE FramesInv'
  BY <1>1, <1>3, <1>7, UpTakes DEF CoreTakes
<1>8. ASSUME NEW c \in Core, CoreContinues(c) PROVE FramesInv'
  BY <1>1, <1>3, <1>8, UpContinues DEF CoreContinues, history
<1>9. ASSUME NEW c \in Core, NEW n \in UpLines, CoreStarts(c, n) PROVE FramesInv'
  BY <1>1, <1>3, <1>9, UpStarts DEF CoreStarts
<1>10. ASSUME NEW c \in Core, NEW s \in Slot, Restart(c, s) PROVE FramesInv'
  BY <1>1, <1>3, <1>10, UpRestart DEF Restart
<1>11. ASSUME NEW c \in Core, Handle(c) PROVE FramesInv'
  BY <1>1, <1>11, UpHandle DEF FramesInv
<1>12. QED
  BY <1>4, <1>5, <1>6, <1>7, <1>8, <1>9, <1>10, <1>11 DEF Next

LEMMA FramesInitially == Init => FramesInv
<1> SUFFICES ASSUME Init PROVE FramesInv
  OBVIOUS
<1>1. Types
  BY TypesInitially
<1>2. UpTypes
  BY DEF Init, UpTypes, NoRx
<1>3. ASSUME NEW c \in Core PROVE UpInv(c)
  <2>1. /\ mail[c] = <<>> /\ sending[c] = Nothing /\ count.from[c] = 0 /\ received[c] = <<>>
        /\ rxInFlight[c] = NoRx
    BY DEF Init
  <2>2. Nothing \in Frame
    BY DEF Nothing, Frame
  <2>3. PICK g \in Mail : g = ComingOf(Nothing, 0) /\ WellFormed(g)
                          /\ g.arg = [no |-> 0 + 1, lines |-> 1, done |-> 0]
    BY <2>2, ComingIs
  <2>4. g.arg.no = 1 /\ g.arg.done = 0
    BY <2>3
  <2>5. ToCome(c) = <<g>>
    BY <2>1, <2>3 DEF ToCome, Coming
  <2>6. LastUp(received[c]) = 0 /\ RisingUp(received[c])
    BY <2>1 DEF LastUp, RisingUp
  <2>7. Fitting(NoRx, 0, g.arg)
    BY <2>4 DEF Fitting
  <2>8. PICK w : w = ToCome(c)
    OBVIOUS
  <2>9. Len(w) = 1 /\ w[1] = g
    BY <2>5, <2>8
  <2>10. Chain(w)
    BY <2>9 DEF Chain, Adjacent
  <2>11. Begins(w, NoRx, 0)
    BY <2>7, <2>9 DEF Begins
  <2>12. \A i \in 1 .. Len(w) : WellFormed(w[i])
    BY <2>3, <2>9
  <2> QED BY <2>1, <2>6, <2>8, <2>10, <2>11, <2>12 DEF UpInv, Upright
<1>4. QED
  BY <1>1, <1>2, <1>3 DEF FramesInv

\* The kernel gets whole frames of the cores, in order, whatever is torn by a
\* restart or has no memory, but not both: crbnet_rx_start and crbnet_rx_data never
\* join lines of two frames.
THEOREM FramesAreWhole == ASSUME FramesCareful PROVE Spec => []FramesWhole
<1>1. Init => FramesInv
  BY FramesInitially
<1>2. FramesInv /\ [Next]_vars => FramesInv'
  BY FramesStep
<1>3. FramesInv => FramesWhole
  <2> SUFFICES ASSUME FramesInv, NEW c \in Core, NEW i \in 1 .. Len(received[c])
               PROVE  LET f == received[c][i] IN
                      /\ \A k \in 1 .. Len(f) : f[k] = <<f[1][1], k>>
                      /\ i > 1 => f[1][1] > received[c][i - 1][1][1]
    BY DEF FramesWhole
  <2>1. PICK r \in Seq(Wholes) : r = received[c] /\ RisingUp(r)
    BY DEF FramesInv, UpTypes, UpInv
  <2>2. PICK n \in Nat : n = Len(r) /\ i \in 1 .. n
    BY <2>1
  <2>3. ASSUME NEW k \in 1 .. n
        PROVE  \E no \in Nat, j \in Nat \ {0} : r[k] = Gathered(no, j) /\ Number(r[k]) = no
    <3>1. r[k] \in Wholes
      BY <2>2
    <3>2. PICK no \in Nat, j \in Nat \ {0} : r[k] = Gathered(no, j)
      BY <3>1 DEF Wholes
    <3> QED BY <3>2, NumberIs
  <2>4. PICK no \in Nat, j \in Nat \ {0} : r[i] = Gathered(no, j) /\ Number(r[i]) = no
    BY <2>2, <2>3
  <2>5. Len(r[i]) = j /\ \A k \in 1 .. j : r[i][k] = <<no, k>>
    BY <2>4 DEF Gathered
  <2>6. ASSUME i > 1 PROVE Number(r[i]) > Number(r[i - 1])
    <3>1. i \in 2 .. n /\ i - 1 \in 1 .. n
      BY <2>2, <2>6
    <3>2. Number(r[i - 1]) < Number(r[i])
      BY <2>1, <2>2, <3>1 DEF RisingUp
    <3>3. Number(r[i - 1]) \in Nat /\ Number(r[i]) \in Nat
      BY <2>2, <2>3, <3>1
    <3> QED BY <3>2, <3>3
  <2> QED BY <2>1, <2>4, <2>5, <2>6 DEF Number
<1>4. QED
  BY <1>1, <1>2, <1>3, PTL DEF Spec
=============================================================================
