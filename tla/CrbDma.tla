------------------------------- MODULE CrbDma -------------------------------
(***************************************************************************)
(* The data path of the driver (src/mcpc_driver/crbif_main.c, with the     *)
(* file interface of crbif_file.c): the program's write and read on the    *)
(* MIP and the MOP FIFO, the daemon that moves data with the one DMA       *)
(* engine, its interrupt, and the packet filter on a work queue.           *)
(*                                                                         *)
(* Data are units, PACKET of which make a packet.  A unit is a triple: who *)
(* sent the packet, its number, the position in it.  net_fifo is a queue   *)
(* that gains whole packets; CrbNet has the code that fills it.            *)
(***************************************************************************)
EXTENDS Integers, Sequences, FiniteSets, SequencesExt, Functions, CrbFifo

CONSTANTS PACKET,      \* MIP_BYTE_PACKET_SIZE, MOP_BYTE_PACKET_SIZE
          Counts,      \* the sizes a program reads and writes
          Bound,       \* bounds: packets of each sender, and opens,
          TOTAL,       \* and all of them together
          Tlps,        \* the sizes of a packet on PCI Express, in units
          MAX_UNREAD,  \* answers that the board sends ahead of the program
          Irqs,        \* {"own"}, or also "foreign": the line is shared
          OPEN_RACES   \* whether open may fall between the steps of a transfer

Senders == {"program", "net", "answer", "frame"}  \* the last two: the board

ASSUME DmaAssumption ==
  /\ PACKET \in Nat \ {0} /\ BUFFER \in Nat \ {0} /\ BUFFER % 2 = 0
  /\ Counts \subseteq Nat /\ MAX_UNREAD \in Nat /\ TOTAL \in Nat
  /\ Tlps \subseteq Nat \ {0}
  /\ Bound \in [Senders \cup {"open"} -> Nat]
  /\ Irqs \subseteq {"own", "foreign"} /\ OPEN_RACES \in BOOLEAN

HALF == BUFFER \div 2   \* of the DMA buffer; the size of the FPGA's FIFOs

VARIABLES
  mip, mop,      \* mip_fifo and mop_fifo
  move,          \* the transfers under way: of the program (write to mip, read
                 \* from mop), the daemon (fetch from mip), the filter (store)
  net_fifo,      \* units of the network that wait
  use_count,     \* of the device
  pc,            \* where the daemon is
  task,          \* its state as a task, "RUNNING" or "INTERRUPTIBLE"
  last,          \* when it last found a transfer under way: "recent", or "long"
                 \* ago, known to be more than 1000 ticks
  dma_state, dma_doTx, dma_doFilter,
  tx,            \* the prepared units in the two halves of the transmit buffer
  dma_txOffset,  \* which of them is being filled; dma_txSize is its length
  frag, fresh,   \* what lies before and behind the 4k mark of the receive
                 \* buffer; dma_rxOffset is the length of frag
  dma_rxSize,
  filter,        \* where the filter is, packets to do, units done
  engine,        \* the DMA transfer under way
  mipLevel,      \* fill level of the FPGA's MIP FIFO
  mopQueue,      \* contents of its MOP FIFO
  sent,          \* history: the number of packets of each sender, and of opens
  log            \* history: the units that the board, the program and the
                 \* network have got, and the packets that open threw away

rings  == <<mip, mop>>
daemon == <<pc, task, last, dma_doTx, tx, dma_txOffset>>
rx     == <<frag, fresh, dma_rxSize, dma_doFilter, filter>>
board  == <<engine, mipLevel, mopQueue>>
vars == <<rings, move, net_fifo, use_count, daemon, dma_state, rx, board, sent, log>>

NoDma  == [op |-> "none", half |-> 0, n |-> 0]
Asleep == [at |-> "idle", todo |-> 0, done |-> 0]

\* crbif_init.
Init ==
  /\ mip = Empty /\ mop = Empty
  /\ move = [t \in {"write", "read", "fetch", "store"} |-> Idle]
  /\ net_fifo = <<>> /\ use_count = 0
  /\ pc = "look" /\ task = "RUNNING" /\ last = "recent"
  /\ dma_state = "IDLE" /\ dma_doTx = FALSE /\ dma_doFilter = FALSE
  /\ tx = [h \in {0, 1} |-> <<>>] /\ dma_txOffset = 0
  /\ frag = <<>> /\ fresh = <<>> /\ dma_rxSize = 0 /\ filter = Asleep
  /\ engine = NoDma /\ mipLevel = 0 /\ mopQueue = <<>>
  /\ sent = [s \in DOMAIN Bound |-> 0]
  /\ log = [arrived |-> <<>>, got |-> <<>>, handled |-> <<>>, lost |-> {}]

Units(s, m) == [i \in 1 .. m * PACKET |->
                 <<s, sent[s] + 1 + (i - 1) \div PACKET, 1 + ((i - 1) % PACKET)>>]
Whole(n) == (n \div PACKET) * PACKET
Least(a, b) == IF a <= b THEN a ELSE b

\* Sender s has sent m more packets.
Sends(s, m) == /\ sent[s] + m <= Bound[s] /\ SumFunction(sent) + m <= TOTAL
               /\ sent' = [sent EXCEPT ![s] = @ + m]

-----------------------------------------------------------------------------
(***************************************************************************)
(* The program: crbif_open, crbif_release, crbif_write, crbif_read.        *)
(***************************************************************************)
Held(fifo) == {<<u[1], u[2]>> : u \in Range(Contents(fifo, fifo.level))}

\* Unless OPEN_RACES, no transfer of the daemon or the filter is under way.
Open ==
  /\ use_count = 0 /\ use_count' = 1
  /\ OPEN_RACES \/ (move["fetch"].n = 0 /\ move["store"].n = 0)
  /\ Sends("open", 1)
  /\ log' = [log EXCEPT !.lost = @ \cup Held(mip) \cup Held(mop)]
  /\ mip' = Cleared(mip) /\ mop' = Cleared(mop)
  /\ UNCHANGED <<move, net_fifo, daemon, dma_state, rx, board>>

\* The file is released when no call on it is under way.
Release ==
  /\ use_count = 1 /\ use_count' = 0
  /\ move["write"].n = 0 /\ move["read"].n = 0
  /\ UNCHANGED <<rings, move, net_fifo, daemon, dma_state, rx, board, sent, log>>

\* crbif_write up to the copy; it stores whole packets.
Write(count) ==
  LET n == Whole(Least(count, BUFFER - mip.level)) IN
  /\ use_count = 1 /\ move["write"].n = 0 /\ n > 0
  /\ Sends("program", n \div PACKET)
  /\ mip' = WriteCopied(mip, Units("program", n \div PACKET), n)
  /\ move' = [move EXCEPT !["write"] = Transfer(mip.write, n)]
  /\ UNCHANGED <<mop, net_fifo, use_count, daemon, dma_state, rx, board, log>>

WriteEnd ==
  /\ move["write"].n > 0
  /\ mip' = WriteDone(mip, move["write"])
  /\ move' = [move EXCEPT !["write"] = Idle]
  /\ UNCHANGED <<mop, net_fifo, use_count, daemon, dma_state, rx, board, sent, log>>

\* crbif_read up to the copy; with a level of 0 or less it returns.
Read(count) ==
  LET n == Whole(Least(count, mop.level)) IN
  /\ use_count = 1 /\ move["read"].n = 0 /\ n > 0
  /\ log' = [log EXCEPT !.got = @ \o Contents(mop, n)]
  /\ mop' = ReadCopied(mop, n)
  /\ move' = [move EXCEPT !["read"] = Transfer(mop.read, n)]
  /\ UNCHANGED <<mip, net_fifo, use_count, daemon, dma_state, rx, board, sent>>

ReadEnd ==
  /\ move["read"].n > 0
  /\ mop' = ReadDone(mop, move["read"])
  /\ move' = [move EXCEPT !["read"] = Idle]
  /\ UNCHANGED <<mip, net_fifo, use_count, daemon, dma_state, rx, board, sent, log>>

Program == \/ Open \/ Release \/ WriteEnd \/ ReadEnd
           \/ \E count \in Counts : Write(count) \/ Read(count)

\* The network has put a packet into net_fifo.
NetSend ==
  /\ Sends("net", 1)
  /\ net_fifo' = net_fifo \o Units("net", 1)
  /\ UNCHANGED <<rings, move, use_count, daemon, dma_state, rx, board, log>>

-----------------------------------------------------------------------------
(***************************************************************************)
(* The daemon, crbif_daemon.                                               *)
(***************************************************************************)
Goto(l) == pc' = l

\* Data that has arrived is passed to the filter.
Look ==
  /\ pc = "look" /\ Goto("prepare")
  /\ IF dma_state = "RX_DONE"
     THEN dma_state' = "IDLE" /\ filter' = [filter EXCEPT !.at = "queued"]
     ELSE UNCHANGED <<dma_state, filter>>
  /\ UNCHANGED <<rings, move, net_fifo, use_count, task, last, dma_doTx, tx, dma_txOffset,
                 frag, fresh, dma_rxSize, dma_doFilter, board, sent, log>>

\* crbif_fifo2dma: how much of a fifo with this level is taken.
ToDma(level, max) == Whole(Least(level, max))

\* crbif_prepareDma: packets of the network first, then those of the program
\* up to the copy.
Prepare ==
  LET h == dma_txOffset
      n == ToDma(Len(net_fifo), HALF - Len(tx[h]))
      m == ToDma(mip.level, HALF - Len(tx[h]) - n)
  IN  /\ pc = "prepare" /\ Goto(IF m = 0 THEN "write" ELSE "taken")
      /\ tx' = [tx EXCEPT ![h] = @ \o SubSeq(net_fifo, 1, n)
                                   \o (IF m = 0 THEN <<>> ELSE Contents(mip, m))]
      /\ net_fifo' = SubSeq(net_fifo, n + 1, Len(net_fifo))
      /\ IF m = 0 THEN UNCHANGED <<mip, move>>
         ELSE /\ mip' = ReadCopied(mip, m)
              /\ move' = [move EXCEPT !["fetch"] = Transfer(mip.read, m)]
      /\ UNCHANGED <<mop, use_count, task, last, dma_doTx, dma_txOffset, dma_state, rx, board,
                     sent, log>>

PrepareEnd ==
  /\ pc = "taken" /\ Goto("write")
  /\ mip' = ReadDone(mip, move["fetch"])
  /\ move' = [move EXCEPT !["fetch"] = Idle]
  /\ UNCHANGED <<mop, net_fifo, use_count, task, last, dma_doTx, tx, dma_txOffset, dma_state,
                 rx, board, sent, log>>

\* A stretch of n units of memory that begins with s; what follows is remains.
Memory(s, n) == [i \in 1 .. n |-> IF i <= Len(s) THEN s[i] ELSE None]

\* Mutation: only what the engine left is kept, not what the FPGA had no room for.
Rest_EngineOnly(s, n, left) == SubSeq(s, n - left + 1, n)
\* What has to be sent with the next transfer when of s n units were to be sent
\* and left of them were not.
Rest(s, n, left) == SubSeq(s, n - left + 1, Len(s))

\* What rckcrb_write_dma_w and rckcrb_read_dma_w may leave of n units: all but
\* whole PCI packets; the engine is not started when that is everything.
Leftover(n) == {n % tlps : tlps \in Tlps}

\* crbif_doDma, writing; what the engine is not started for the processor writes.
DoTx ==
  LET h == dma_txOffset
      n == Least(Len(tx[h]), HALF - mipLevel)
  IN
  /\ pc = "write" /\ dma_state = "IDLE" /\ Goto("read")
  /\ dma_doTx' = FALSE
  /\ IF dma_doTx /\ n > 0
     THEN /\ \E left \in Leftover(n) :
               IF left = n
               THEN /\ log' = [log EXCEPT !.arrived = @ \o SubSeq(tx[h], 1, n)]
                    /\ mipLevel' = mipLevel + n
                    /\ tx' = [tx EXCEPT ![1 - h] = Rest(tx[h], n, 0), ![h] = <<>>]
                    /\ UNCHANGED <<dma_state, engine>>
               ELSE /\ dma_state' = "TX_PENDING"
                    /\ engine' = [op |-> "tx", half |-> h, n |-> n - left]
                    /\ tx' = [tx EXCEPT ![1 - h] = Rest(tx[h], n, left)]
                    /\ UNCHANGED <<log, mipLevel>>
          /\ dma_txOffset' = 1 - h
     ELSE UNCHANGED <<log, mipLevel, tx, dma_state, engine, dma_txOffset>>
  /\ UNCHANGED <<rings, move, net_fifo, use_count, task, last, rx, mopQueue, sent>>

\* It returns at once while a transfer is under way.
DmaBusy ==
  /\ pc = "write" /\ dma_state # "IDLE" /\ Goto("pause")
  /\ UNCHANGED <<rings, move, net_fifo, use_count, task, last, dma_doTx, tx, dma_txOffset,
                 dma_state, rx, board, sent, log>>

\* Mutation: it reads also while the filter works on the data read before.
MayRead_Filtering == dma_state = "IDLE"
MayRead == dma_state = "IDLE" /\ ~dma_doFilter

\* crbif_doDma, reading: behind the 4k mark, which the fragments precede.
DoRx ==
  /\ pc = "read" /\ Goto("pause")
  /\ dma_doTx' = (MayRead \/ dma_doTx)
  /\ IF MayRead /\ mopQueue # <<>>
     THEN /\ \E left \in Leftover(Len(mopQueue)) :
               LET n == Len(mopQueue) IN
               IF left = n
               THEN /\ dma_state' = "RX_DONE" /\ dma_rxSize' = dma_rxSize + n
                    /\ fresh' = mopQueue /\ mopQueue' = <<>>
                    /\ UNCHANGED engine
               ELSE /\ dma_state' = "RX_PENDING" /\ dma_rxSize' = dma_rxSize + n - left
                    /\ engine' = [op |-> "rx", half |-> 0, n |-> n - left]
                    /\ UNCHANGED <<fresh, mopQueue>>
          /\ dma_doFilter' = TRUE
     ELSE UNCHANGED <<dma_state, dma_rxSize, dma_doFilter, fresh, mopQueue, engine>>
  /\ UNCHANGED <<rings, move, net_fifo, use_count, task, last, tx, dma_txOffset, frag, filter,
                 mipLevel, sent, log>>

\* The end of a pass.  With a transfer under way the daemon goes on at once.  When
\* there has been none for 1000 ticks it sleeps for up to a second (one step here: no
\* other thread starts a transfer), and goes on with the state of a sleeper.  Otherwise
\* it calls schedule(),
Pause ==
  /\ pc = "pause"
  /\ \/ /\ dma_state # "IDLE" /\ Goto("look")
        /\ last' = "recent" /\ UNCHANGED task
     \/ /\ dma_state = "IDLE" /\ Goto("look")
        /\ last' = "long" /\ task' = "INTERRUPTIBLE"
     \/ /\ dma_state = "IDLE" /\ last = "recent" /\ Goto("schedule")
        /\ UNCHANGED <<task, last>>
  /\ UNCHANGED <<rings, move, net_fifo, use_count, dma_doTx, tx, dma_txOffset, dma_state, rx,
                 board, sent, log>>

\* from which a running task comes back, a sleeper when an interrupt has woken it.
Schedule ==
  /\ pc = "schedule" /\ task = "RUNNING" /\ Goto("look")
  /\ UNCHANGED <<rings, move, net_fifo, use_count, task, last, dma_doTx, tx, dma_txOffset,
                 dma_state, rx, board, sent, log>>

Daemon == Look \/ Prepare \/ PrepareEnd \/ DoTx \/ DmaBusy \/ DoRx \/ Pause \/ Schedule

-----------------------------------------------------------------------------
(***************************************************************************)
(* The interrupt, crbif_isr, and the board.                                *)
(***************************************************************************)
\* The engine completes and interrupts; a foreign interrupt of the shared line comes
\* at any time.  Each wakes the daemon.
Isr(irq) ==
  /\ irq = "own" => engine.op # "none"
  /\ task' = "RUNNING"
  /\ dma_state' = CASE dma_state = "TX_PENDING" -> "IDLE"
                    [] dma_state = "RX_PENDING" -> "RX_DONE"
                    [] OTHER -> dma_state
  /\ IF irq = "own"
     THEN /\ engine' = NoDma
          /\ IF engine.op = "tx"
             THEN /\ log' = [log EXCEPT !.arrived = @ \o Memory(tx[engine.half], engine.n)]
                  /\ mipLevel' = mipLevel + engine.n
                  /\ tx' = [tx EXCEPT ![engine.half] = <<>>]
                  /\ UNCHANGED <<fresh, mopQueue>>
             ELSE /\ fresh' = SubSeq(mopQueue, 1, engine.n)
                  /\ mopQueue' = SubSeq(mopQueue, engine.n + 1, Len(mopQueue))
                  /\ UNCHANGED <<log, mipLevel, tx>>
     ELSE UNCHANGED <<engine, log, mipLevel, tx, fresh, mopQueue>>
  /\ UNCHANGED <<rings, move, net_fifo, use_count, pc, last, dma_doTx, dma_txOffset, frag,
                 dma_rxSize, dma_doFilter, filter, sent>>

\* The board takes what is in the FPGA's MIP FIFO.
BoardTakes ==
  /\ mipLevel > 0 /\ mipLevel' = 0
  /\ UNCHANGED <<rings, move, net_fifo, use_count, daemon, dma_state, rx, engine, mopQueue,
                 sent, log>>

\* It sends a packet, an answer for the program or a frame for the network.
BoardSends(s) ==
  /\ Len(mopQueue) + PACKET <= HALF
  /\ s = "answer" => sent[s] < Len(log.got) \div PACKET + MAX_UNREAD
  /\ Sends(s, 1)
  /\ mopQueue' = mopQueue \o Units(s, 1)
  /\ UNCHANGED <<rings, move, net_fifo, use_count, daemon, dma_state, rx, engine, mipLevel, log>>

-----------------------------------------------------------------------------
(***************************************************************************)
(* The packet filter, crbif_filter.                                        *)
(***************************************************************************)
Received == frag \o fresh

\* How many packets it will process; the others have to wait.
FilterStart ==
  /\ filter.at = "queued"
  /\ filter' = [at |-> "run", done |-> 0,
                todo |-> (IF dma_rxSize > BUFFER - mop.level THEN BUFFER - mop.level
                                                             ELSE dma_rxSize) \div PACKET]
  /\ UNCHANGED <<rings, move, net_fifo, use_count, daemon, dma_state, frag, fresh, dma_rxSize,
                 dma_doFilter, board, sent, log>>

Next1 == Memory(SubSeq(Received, filter.done + 1, Len(Received)), PACKET)
Passed == [filter EXCEPT !.todo = @ - 1, !.done = @ + PACKET]

\* The next packet goes to the network
FilterNet ==
  /\ filter.at = "run" /\ filter.todo > 0 /\ Next1[1][1] = "frame"
  /\ log' = [log EXCEPT !.handled = @ \o Next1]
  /\ filter' = Passed
  /\ UNCHANGED <<rings, move, net_fifo, use_count, daemon, dma_state, frag, fresh, dma_rxSize,
                 dma_doFilter, board, sent>>

\* or into the MOP FIFO.
FilterStore ==
  /\ filter.at = "run" /\ filter.todo > 0 /\ Next1[1][1] # "frame"
  /\ mop' = WriteCopied(mop, Next1, PACKET)
  /\ move' = [move EXCEPT !["store"] = Transfer(mop.write, PACKET)]
  /\ filter' = [Passed EXCEPT !.at = "stored"]
  /\ UNCHANGED <<mip, net_fifo, use_count, daemon, dma_state, frag, fresh, dma_rxSize,
                 dma_doFilter, board, sent, log>>

FilterStored ==
  /\ filter.at = "stored"
  /\ mop' = WriteDone(mop, move["store"])
  /\ move' = [move EXCEPT !["store"] = Idle]
  /\ filter' = [filter EXCEPT !.at = "run"]
  /\ UNCHANGED <<mip, net_fifo, use_count, daemon, dma_state, frag, fresh, dma_rxSize,
                 dma_doFilter, board, sent, log>>

\* What is left is copied in front of the 4k mark.
FilterEnd ==
  /\ filter.at = "run" /\ filter.todo = 0
  /\ frag' = Memory(SubSeq(Received, filter.done + 1, Len(Received)),
                    dma_rxSize - filter.done)
  /\ dma_rxSize' = dma_rxSize - filter.done
  /\ fresh' = <<>>
  /\ dma_doFilter' = FALSE /\ filter' = Asleep
  /\ UNCHANGED <<rings, move, net_fifo, use_count, daemon, dma_state, board, sent, log>>

Filter == FilterStart \/ FilterNet \/ FilterStore \/ FilterStored \/ FilterEnd

Next == \/ Program \/ NetSend \/ Daemon \/ Filter \/ BoardTakes
        \/ \E irq \in Irqs : Isr(irq)
        \/ \E s \in {"answer", "frame"} : BoardSends(s)

\* The daemon goes on whenever it can run (not while it sleeps without a timer), the
\* kernel runs queued work, the engine completes and the board takes what it gets.  A
\* transfer of the program that has begun ends; for the rest nothing is assumed of it.
Fairness == /\ WF_vars(Daemon) /\ WF_vars(Filter) /\ WF_vars(WriteEnd)
            /\ WF_vars(Isr("own")) /\ WF_vars(BoardTakes)

Spec == Init /\ [][Next]_vars /\ Fairness

-----------------------------------------------------------------------------
(***************************************************************************)
(* Properties                                                              *)
(***************************************************************************)

\* In both rings the level is what lies between the pointers, no end passes the
\* other, and a transfer under way has the room or the units it began with, although
\* the level is looked at without the lock and a pointer moves twice; and what is
\* prepared for the board fits into half of the DMA buffer (the error message of
\* crbif_prepareDma never comes).
RingsSound == /\ Sound(mip, move["write"], move["fetch"])
              /\ Sound(mop, move["store"], move["read"])
              /\ Len(tx[dma_txOffset]) <= HALF

\* The packets that s begins: sender and number.
Packets(s) == [i \in 1 .. (Len(s) + PACKET - 1) \div PACKET |->
                 LET u == s[(i - 1) * PACKET + 1] IN <<u[1], u[2]>>]

\* Packets of these senders, those of each in order and each once; what is missing
\* in between has been lost.
InOrder(packets, senders, lost) ==
  \A j \in 1 .. Len(packets) :
    LET p == packets[j] IN
    /\ p[1] \in senders
    /\ \A i \in 1 .. j - 1 : packets[i][1] = p[1] => packets[i][2] < p[2]
    /\ \A k \in 1 .. p[2] - 1 : <<p[1], k>> \in lost \cup {packets[i] : i \in 1 .. j - 1}

\* s brings packets of these senders, one after the other and not torn, to the last
\* of which units may be missing; packets are left out only if open threw them away.
Carries(s, senders) ==
  /\ InOrder(Packets(s), senders, log.lost)
  /\ \A i \in 1 .. Len(s) :
       LET p == Packets(s)[1 + (i - 1) \div PACKET] IN
       s[i] = <<p[1], p[2], 1 + ((i - 1) % PACKET)>>

\* Through rings that wrap in the middle of a packet, partial transfers, halves
\* that are switched and fragments that are kept, the board gets the packets of
\* the program and of the network, the program its answers and the network its
\* frames: whole, in order, exactly once.
StreamsIntact == /\ Carries(log.arrived, {"program", "net"})
                 /\ Carries(log.got, {"answer"})
                 /\ Carries(log.handled, {"frame"})

\* The daemon in the sleep without a timer, which takes an idle second and after it a
\* packet of the board that came without an interrupt, read by the processor.
Stranded == /\ pc = "schedule" /\ task = "INTERRUPTIBLE" /\ dma_state = "IDLE"
            /\ sent["answer"] + sent["frame"] > 0

\* What the program wrote and the network transmitted gets to the board, whether or not
\* the program ever reads and the board ever sends, unless open threw it away or the
\* daemon is stranded for ever.  (The senders come to an end, Bound, so that this is
\* reached.)
Owed == {p \in {"program", "net"} \X (1 .. TOTAL) :
           p[2] <= sent[p[1]] /\ Append(p, PACKET) \notin Range(log.arrived)
                             /\ p \notin log.lost}
TxDrains == []<>(Owed = {}) \/ <>[]Stranded
=============================================================================
