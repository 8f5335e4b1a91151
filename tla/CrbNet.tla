------------------------------- MODULE CrbNet -------------------------------
(***************************************************************************)
(* The network interface of the driver (src/mcpc_driver/crbif_net.c): the  *)
(* transmit slots in the memory of each core, with the mailboxes by which  *)
(* a core gives them back or resets them, the time-outs of the transmit    *)
(* queue, and the assembly of what the cores send.                         *)
(*                                                                         *)
(* The cores are external, modelled from how the driver treats them.       *)
(* CrbDma has the way between net_fifo, the board and crbnet_pktHandler:   *)
(* whole packets in order, here the first of net_fifo and the mail of a    *)
(* core.  Frames are numbered for each core and direction.                 *)
(***************************************************************************)
EXTENDS Integers, Sequences, FiniteSets, SequencesExt

CONSTANTS CORES,       \* RCK_CORECOUNT
          SLOTS,       \* txPacketSlots
          SUBNET,      \* subnetSize
          Ips,         \* the destinations (last octet)
          LENGTH,      \* skb->len of all frames
          BUFFER,      \* dmaBufferSize
          IRQ,         \* enableIrq
          UpLines,     \* how many cache lines a frame of a core may have
          MAX_FRAMES,  \* bounds: frames transmitted,
          MAX_UP,      \* frames of the cores,
          MAX_RESTARTS,
          TOTAL,       \* and all of these together
          Faults,      \* of "torn": a core restarts amid a frame, "nomem"
          RACES        \* whether a core may be quicker than crbnet_hw_tx, and a
                       \* frame be under way to a core that restarts

ASSUME NetAssumption ==
  /\ CORES \in Nat \ {0} /\ SLOTS \in Nat \ {0} /\ SUBNET \in Nat /\ LENGTH \in Nat \ {0}
  /\ Ips \subseteq 0 .. 255 /\ {BUFFER, MAX_FRAMES, MAX_UP, MAX_RESTARTS, TOTAL} \subseteq Nat
  /\ UpLines \subseteq Nat \ {0} /\ Faults \subseteq {"torn", "nomem"}
  /\ {IRQ, RACES} \subseteq BOOLEAN

Core == 0 .. CORES - 1
Slot == 0 .. SLOTS - 1

VARIABLES
  frame,         \* what the kernel passes to crbnet_tx, again until it is taken
  queueOn,       \* the transmit queue is not stopped
  marking,       \* the core whose slot crbnet_hw_tx still has to mark, or -1
  nextTxSlot, txSlotBusy,
  waited,        \* time since lastTx: "no" (at most a jiffy), "some", "long"
  net_fifo,      \* what is on its way to the cores,
  level,         \* and how many bytes that is
  memory,        \* the slots in the memory of a core: first line, other lines
  coreSlot,      \* the slot in which a core expects its next frame
  sending,       \* what a core sends: frame, its lines, lines sent
  mail,          \* mailbox writes of a core that have not been handled
  rxInFlight,    \* the frame of a core that is being assembled
  count,         \* history: frames to and from each core, restarts
  taken,         \* history: the frames a core has taken from its slots
  gone,          \* history: <<core, frame>> given up, or lost when a core restarted
  received       \* history: the frames passed on to netif_rx

tx      == <<nextTxSlot, txSlotBusy, waited>>
fifo    == <<net_fifo, level>>
cores   == <<memory, coreSlot, sending>>
history == <<count, taken, gone, received>>
vars == <<frame, queueOn, marking, tx, fifo, cores, mail, rxInFlight, history>>

NoFrame == [ip |-> -1, core |-> -1, no |-> 0]
Nothing == [no |-> 0, lines |-> 0, done |-> 0]
NoRx    == [got |-> <<>>, left |-> 0]
Vacant  == [first |-> 0, others |-> 0]

\* crbnet_init; a core starts with slot 0.
Init ==
  /\ frame = NoFrame /\ queueOn = TRUE /\ marking = -1
  /\ nextTxSlot = [c \in Core |-> 0] /\ txSlotBusy = [c \in Core |-> {}]
  /\ waited = [c \in Core |-> "long"]
  /\ net_fifo = <<>> /\ level = 0
  /\ memory = [c \in Core |-> [s \in Slot |-> Vacant]] /\ coreSlot = [c \in Core |-> 0]
  /\ sending = [c \in Core |-> Nothing] /\ mail = [c \in Core |-> <<>>]
  /\ rxInFlight = [c \in Core |-> NoRx]
  /\ count = [to |-> [c \in Core |-> 0], from |-> [c \in Core |-> 0], restarts |-> 0]
  /\ taken = [c \in Core |-> <<>>] /\ gone = {} /\ received = [c \in Core |-> <<>>]

Total(f) == FoldFunction(+, 0, f)
Bounded == Total(count.to) + Total(count.from) + count.restarts < TOTAL

-----------------------------------------------------------------------------
(***************************************************************************)
(* Transmission.                                                           *)
(***************************************************************************)
\* destIp with routing by subnets: the gateway of the subnet.  A subnet of one address
\* is its own gateway; the division takes -1 to 0 in all larger ones.
DestIp(ip) == IF SUBNET <= 1 THEN ip
              ELSE (IF ip = 0 THEN 0 ELSE (ip - 1) \div SUBNET) * SUBNET + 1
Illegal(destIp) == destIp = 0 \/ destIp - 1 > CORES

Booting(c) == \E i \in 1 .. Len(mail[c]) : mail[c][i].box = "CONFIG"

\* The kernel has a frame for an address; unless RACES, not for a core that is
\* just being reset.
NewFrame(ip) ==
  LET c == DestIp(ip) - 1 IN
  /\ frame = NoFrame /\ marking = -1 /\ Total(count.to) < MAX_FRAMES /\ Bounded
  /\ IF c \in Core
     THEN /\ RACES \/ ~Booting(c)
          /\ frame' = [ip |-> ip, core |-> c, no |-> count.to[c] + 1]
          /\ count' = [count EXCEPT !.to[c] = @ + 1]
     ELSE frame' = [ip |-> ip, core |-> -1, no |-> 0] /\ UNCHANGED count
  /\ UNCHANGED <<queueOn, marking, tx, fifo, cores, mail, rxInFlight, taken, gone, received>>

\* crbnet_tx is called.
Called == frame # NoFrame /\ queueOn /\ marking = -1

isBusy(c) == nextTxSlot[c] \in txSlotBusy[c]

TxIllegal ==
  /\ Called /\ Illegal(DestIp(frame.ip)) /\ frame' = NoFrame
  /\ UNCHANGED <<queueOn, marking, tx, fifo, cores, mail, rxInFlight, history>>

\* Mutation: a frame is never given up.
Unreachable_Never(c) == FALSE
Unreachable(c) == waited[c] = "long"

\* The slot is in use: the frame is dropped when the last transmission is long
\* ago, else the kernel has to come again, some time later through the watchdog.
TxBusy ==
  LET c == frame.core IN
  /\ Called /\ c \in Core /\ isBusy(c)
  /\ IF Unreachable(c)
     THEN frame' = NoFrame /\ gone' = gone \cup {<<c, frame.no>>} /\ UNCHANGED queueOn
     ELSE queueOn' = (waited[c] = "no") /\ UNCHANGED <<frame, gone>>
  /\ UNCHANGED <<marking, tx, fifo, cores, mail, rxInFlight, count, taken, received>>

\* What takes how many bytes: 48 for each cache line, two lines for the interrupt.
Lines == (LENGTH + 31) \div 32
Bytes(part) == CASE part = "first"  -> 48
                 [] part = "others" -> 48 * (Lines - 1)
                 [] part = "irq"    -> 96
FrameBytes == 48 * Lines + (IF IRQ THEN 96 ELSE 0)

\* Mutation: the space is not checked.
HasRoom_Unchecked == TRUE
\* The difference is compared as unsigned: a level above the buffer passes.
HasRoom == level > BUFFER \/ BUFFER - level >= 2 * LENGTH

\* Mutation: the lines are written from the first to the last.
Parts_Forward == IF IRQ THEN <<"first", "others", "irq">> ELSE <<"first", "others">>

\* From the last line to the first, by which the core knows that there is a
\* frame, then the edge on the interrupt pin.
Parts == IF IRQ THEN <<"others", "first", "irq">> ELSE <<"others", "first">>

\* crbnet_hw_tx up to the update of the slots.
Transmit ==
  LET c == frame.core IN
  /\ Called /\ c \in Core /\ ~isBusy(c) /\ HasRoom
  /\ net_fifo' = net_fifo \o [i \in 1 .. Len(Parts) |->
       [core |-> c, slot |-> nextTxSlot[c], part |-> Parts[i], no |-> frame.no]]
  /\ level' = level + FrameBytes
  /\ waited' = [waited EXCEPT ![c] = "no"]
  /\ marking' = c
  /\ UNCHANGED <<frame, queueOn, nextTxSlot, txSlotBusy, cores, mail, rxInFlight, history>>

\* setBusy, and the next slot.
Mark ==
  LET c == marking IN
  /\ c # -1 /\ marking' = -1 /\ frame' = NoFrame
  /\ txSlotBusy' = [txSlotBusy EXCEPT ![c] = @ \cup {nextTxSlot[c]}]
  /\ nextTxSlot' = [nextTxSlot EXCEPT ![c] = (@ + 1) % SLOTS]
  /\ UNCHANGED <<queueOn, waited, fifo, cores, mail, rxInFlight, history>>

\* crbnet_tx_timeout: the kernel's watchdog finds the queue stopped.
TxTimeout ==
  /\ ~queueOn /\ queueOn' = TRUE
  /\ UNCHANGED <<frame, marking, tx, fifo, cores, mail, rxInFlight, history>>

\* It matters only to a frame that waits.
TimePasses(c) ==
  /\ frame.core = c /\ isBusy(c) /\ waited[c] # "long"
  /\ waited' = [waited EXCEPT ![c] = IF @ = "no" THEN "some" ELSE "long"]
  /\ UNCHANGED <<frame, queueOn, marking, nextTxSlot, txSlotBusy, fifo, cores, mail,
                 rxInFlight, history>>

-----------------------------------------------------------------------------
(***************************************************************************)
(* The board and its cores.                                                *)
(***************************************************************************)
\* The first of what is in net_fifo reaches its core.
Arrive ==
  LET chunk == Head(net_fifo) IN
  /\ net_fifo # <<>> /\ net_fifo' = Tail(net_fifo)
  /\ level' = level - Bytes(chunk.part)
  /\ memory' = CASE chunk.part = "first"  -> [memory EXCEPT ![chunk.core][chunk.slot].first = chunk.no]
                 [] chunk.part = "others" -> [memory EXCEPT ![chunk.core][chunk.slot].others = chunk.no]
                 [] chunk.part = "irq"    -> memory
  /\ UNCHANGED <<frame, queueOn, marking, tx, coreSlot, sending, mail, rxInFlight, history>>

Post(c, box, x) == mail' = [mail EXCEPT ![c] = Append(@, [box |-> box, arg |-> x])]

\* A core takes the frame in its slot and gives the slot back.
CoreTakes(c) ==
  LET s == coreSlot[c] IN
  /\ memory[c][s].first # 0
  /\ taken' = [taken EXCEPT ![c] = Append(@, memory[c][s])]
  /\ memory' = [memory EXCEPT ![c][s] = Vacant]
  /\ coreSlot' = [coreSlot EXCEPT ![c] = (s + 1) % SLOTS]
  /\ Post(c, "RXDONE", s)
  /\ UNCHANGED <<frame, queueOn, marking, tx, fifo, sending, rxInFlight, count, gone, received>>

\* A core sends a frame: its first line with the length,
CoreStarts(c, n) ==
  /\ sending[c] = Nothing /\ Total(count.from) < MAX_UP /\ Bounded
  /\ count' = [count EXCEPT !.from[c] = @ + 1]
  /\ sending' = [sending EXCEPT ![c] = IF n = 1 THEN Nothing
                   ELSE [no |-> count.from[c] + 1, lines |-> n, done |-> 1]]
  /\ Post(c, "PACKETSTART", [no |-> count.from[c] + 1, lines |-> n, done |-> 0])
  /\ UNCHANGED <<frame, queueOn, marking, tx, fifo, memory, coreSlot, rxInFlight,
                 taken, gone, received>>

\* then the others.
CoreContinues(c) ==
  LET f == sending[c] IN
  /\ f # Nothing
  /\ sending' = [sending EXCEPT ![c] = IF f.done + 1 = f.lines THEN Nothing
                                       ELSE [f EXCEPT !.done = @ + 1]]
  /\ Post(c, "PACKETDATA", f)
  /\ UNCHANGED <<frame, queueOn, marking, tx, fifo, memory, coreSlot, rxInFlight, history>>

\* A core restarts: it forgets what it did, empties its slots and announces the
\* one it begins with.  Unless RACES, no frame is on its way to it.
Restart(c, s) ==
  /\ count.restarts < MAX_RESTARTS /\ Bounded
  /\ "torn" \in Faults \/ sending[c] = Nothing
  /\ RACES \/ (frame.core # c /\ \A i \in 1 .. Len(net_fifo) : net_fifo[i].core # c)
  /\ count' = [count EXCEPT !.restarts = @ + 1]
  /\ gone' = gone \cup {<<c, no>> : no \in {memory[c][k].first : k \in Slot} \ {0}}
  /\ memory' = [memory EXCEPT ![c] = [k \in Slot |-> Vacant]]
  /\ coreSlot' = [coreSlot EXCEPT ![c] = s]
  /\ sending' = [sending EXCEPT ![c] = Nothing]
  /\ Post(c, "CONFIG", s)
  /\ UNCHANGED <<frame, queueOn, marking, tx, fifo, rxInFlight, taken, received>>

-----------------------------------------------------------------------------
(***************************************************************************)
(* Reception: crbnet_pktHandler, called by the packet filter.              *)
(***************************************************************************)
\* Mutation: a reset leaves the busy flags as they are.
Reset_BusyKept(c, s) ==
  /\ nextTxSlot' = [nextTxSlot EXCEPT ![c] = s]
  /\ waited' = [waited EXCEPT ![c] = "long"]
  /\ UNCHANGED txSlotBusy

\* crbnet_tx_reset, which takes no lock.
Reset(c, s) ==
  /\ nextTxSlot' = [nextTxSlot EXCEPT ![c] = s]
  /\ txSlotBusy' = [txSlotBusy EXCEPT ![c] = {}]
  /\ waited' = [waited EXCEPT ![c] = "long"]

\* crbnet_tx_complete.
Complete(c, s) ==
  /\ txSlotBusy' = [txSlotBusy EXCEPT ![c] = @ \ {s}]
  /\ UNCHANGED <<nextTxSlot, waited>>

\* The frame under assembly is now rx; when it is complete (crbnet_rx_complete)
\* it goes up.
Assembled(c, rx) ==
  IF rx.left = 0
  THEN /\ rxInFlight' = [rxInFlight EXCEPT ![c] = NoRx]
       /\ received' = [received EXCEPT ![c] = Append(@, rx.got)]
  ELSE rxInFlight' = [rxInFlight EXCEPT ![c] = rx] /\ UNCHANGED received

\* Mutation: a frame that is incomplete when the next one starts is continued.
RxStart_Continues(c, f) ==
  \E ok \in {TRUE} \cup (IF "nomem" \in Faults THEN {FALSE} ELSE {}) :
    IF ok /\ rxInFlight[c] = NoRx
    THEN Assembled(c, [got |-> <<<<f.no, 1>>>>, left |-> f.lines - 1])
    ELSE UNCHANGED <<rxInFlight, received>>

\* crbnet_rx_start; an incomplete frame is dropped.  There may be no memory.
RxStart(c, f) ==
  \E ok \in {TRUE} \cup (IF "nomem" \in Faults THEN {FALSE} ELSE {}) :
    IF ok
    THEN Assembled(c, [got |-> <<<<f.no, 1>>>>, left |-> f.lines - 1])
    ELSE UNCHANGED <<rxInFlight, received>>

\* crbnet_rx_data; without a frame that has begun it is an error.
RxData(c, f) ==
  IF rxInFlight[c] = NoRx THEN UNCHANGED <<rxInFlight, received>>
  ELSE Assembled(c, [got |-> Append(rxInFlight[c].got, <<f.no, f.done + 1>>),
                     left |-> rxInFlight[c].left - 1])

Handle(c) ==
  LET m == Head(mail[c]) IN
  /\ mail[c] # <<>> /\ mail' = [mail EXCEPT ![c] = Tail(@)]
  /\ RACES \/ marking # c
  /\ CASE m.box = "CONFIG"      -> Reset(c, m.arg) /\ UNCHANGED <<rxInFlight, received>>
       [] m.box = "RXDONE"      -> Complete(c, m.arg) /\ UNCHANGED <<rxInFlight, received>>
       [] m.box = "PACKETSTART" -> RxStart(c, m.arg) /\ UNCHANGED tx
       [] m.box = "PACKETDATA"  -> RxData(c, m.arg) /\ UNCHANGED tx
  /\ UNCHANGED <<frame, queueOn, marking, fifo, cores, count, taken, gone>>

-----------------------------------------------------------------------------
Next ==
  \/ \E ip \in Ips : NewFrame(ip)
  \/ TxIllegal \/ TxBusy \/ Transmit \/ Mark \/ TxTimeout \/ Arrive
  \/ \E c \in Core : \/ TimePasses(c) \/ CoreTakes(c) \/ CoreContinues(c) \/ Handle(c)
                     \/ \E n \in UpLines : CoreStarts(c, n)
                     \/ \E s \in Slot : Restart(c, s)

\* The kernel tries again, time passes, the watchdog fires and the board takes
\* what is in net_fifo.  Of the cores nothing is assumed: they may be dead.
Fairness == /\ WF_vars(TxIllegal \/ TxBusy \/ Transmit) /\ WF_vars(Mark) /\ WF_vars(TxTimeout)
            /\ WF_vars(Arrive)
            /\ \A c \in Core : WF_vars(TimePasses(c))

Spec == Init /\ [][Next]_vars /\ Fairness

-----------------------------------------------------------------------------
(***************************************************************************)
(* Properties                                                              *)
(***************************************************************************)

\* A core finds each frame whole in the slot it expects it in, in order and once;
\* frames may be missing only if they were given up or lost with a restart.  No
\* frame is written over one that the core has not taken, and a frame that was
\* taken belongs to what was sent.
FramesReachCore ==
  \A c \in Core : \A i \in 1 .. Len(taken[c]) :
    LET before == IF i = 1 THEN 0 ELSE taken[c][i - 1].first
        no == taken[c][i].first
    IN  /\ taken[c][i].others = no
        /\ no > before
        /\ \A k \in before + 1 .. no - 1 : <<c, k>> \in gone

\* The slots the driver holds to be in use are exactly those between the slot the
\* core is at (less what it has given back and the driver has not yet been told)
\* and the next one of the driver, unless a reset is on its way: no slot gets
\* lost to the time-outs, and driver and core agree which is next.
Owing(c) == {s \in Slot : \/ \E i \in 1 .. Len(net_fifo) : net_fifo[i].core = c /\ net_fifo[i].slot = s
                                 /\ net_fifo[i].part = "first"
                          \/ memory[c][s].first # 0
                          \/ \E i \in 1 .. Len(mail[c]) : mail[c][i] = [box |-> "RXDONE", arg |-> s]}
SlotsInStep ==
  \A c \in Core : marking # c /\ ~Booting(c) =>
    /\ txSlotBusy[c] = Owing(c)
    /\ txSlotBusy[c] = {} => nextTxSlot[c] = coreSlot[c]

\* What the driver puts into net_fifo fits, although the space it asks for is
\* twice the length of the frame and not what the frame takes (which is more than
\* that for short frames: README, Known divergences).
NetFifoFits == level <= BUFFER

\* The kernel gets only frames that a core has sent, complete and in order, also
\* when the core restarted amid a frame: the parts of two are never joined.
FramesWhole ==
  \A c \in Core : \A i \in 1 .. Len(received[c]) :
    LET f == received[c][i] IN
    /\ \A k \in 1 .. Len(f) : f[k] = <<f[1][1], k>>
    /\ i > 1 => f[1][1] > received[c][i - 1][1][1]

\* A frame does not stay at the head of the queue for ever, whatever its
\* destination does: it is transmitted or dropped, and the next one has its turn.
FrameLeaves == []<>(frame = NoFrame)
=============================================================================
