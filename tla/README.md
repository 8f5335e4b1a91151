# TLA+ models of the SCC software

This directory is a verification project for the software of Intel's
Single-chip Cloud Computer (SCC) in this repository. It consists of TLA+
modules, the TLC configurations that model-check them on small instances, and
theorems that TLAPS proves for every value of the constants.

1. [The system](#1-the-system): the inventory
2. [Modules and code](#2-modules-and-code)
3. [Runs](#3-runs): what each shows, its bounds, and why they are enough
4. [Fairness](#4-fairness)
5. [Theorems](#5-theorems)
6. [Known divergences](#6-known-divergences) between code and documentation
7. [What is not modelled](#7-what-is-not-modelled)
8. [Plan](#8-plan)

To repeat a run: `tlc -config MCBarrier.cfg RcceBarrier.tla`; to repeat a proof:
`tlapm RcceBarrierProofs.tla`. `PROJECT.json` lists the runs, for every
property a mutation of the model that violates it, the source lines of every
definition, and the hazards with the properties that address them. A definition
named `X_Something` next to a definition `X` is such a mutation; it is used by
no specification.

## 1. The system

The SCC has 48 cores without coherent caches. Every tile has a message passing
buffer (MPB) that all cores can read and write, and a test-and-set register per
core. A host PC (the MCPC) is attached through an FPGA. The repository has two
programs with a protocol of their own, and tools around them:

- **RCCE** (`src/rcce/src`), a library for message passing programs. One unit
  of execution (UE) runs on each core; the UEs share the MPBs and nothing else.
  There are two interfaces, *gory* (the program handles MPB space and flags)
  and non-gory, and builds with a byte or a bit per flag (`SINGLEBITFLAGS`). On
  the emulator UEs are OpenMP threads.
- **mcpc_driver** (`src/mcpc_driver`), the Linux driver on the MCPC: a DMA
  daemon, an interrupt handler, a packet filter, a network interface and device
  files, sharing ring buffers and state flags.
- **sccKit, sccTherm** (host tools) and the **RCCE applications**.

UEs interact only by remote reads and writes of MPB bytes, by the lock registers,
and by collective calls that all of them make in the same order. Nothing is
atomic but the access to one byte and the read of a test-and-set register.

### 1.1 Components of RCCE

| Component | State | Operations | What makes it correct |
|---|---|---|---|
| Barrier (`RCCE_synch.c`) | per communicator and UE a gather and a release flag in the MPB; `cycle`, `counter` on the stack | `RCCE_barrier`, `RCCE_wait_until` | nobody leaves a barrier before all have entered; no release is lost; consecutive barriers cannot be confused although only a parity tells them apart |
| Communicators (`RCCE_comm.c`) | members, rank, flags, `initialized` | `RCCE_comm_split` | the parts are disjoint and consistent; barriers of parts and of the world do not disturb each other; a split again is safe |
| Send and receive (`RCCE_send.c`, `RCCE_recv.c`) | a sent and a ready flag per pair of UEs, one payload buffer per UE | `RCCE_send`, `RCCE_recv`, `RCCE_recv_test` | pieces arrive whole and in order; the shared buffer is not overwritten early; a test moves all of a message or nothing; no handshake hangs |
| Collectives (`RCCE_bcast.c`, `RCCE_reduce.c`) | the program's buffers | `RCCE_bcast`, `RCCE_reduce`, `RCCE_allreduce` | every result belongs to its own call; no sequence of calls deadlocks |
| Flags of one bit (`RCCE_flags.c`) | a byte of the MPB with up to 8 flags, the lock of its owner | `RCCE_flag_write`, the flip in `RCCE_barrier` | flags of one byte are independent |
| Flag allocation (`RCCE_flags.c`) | list of flag lines with statuses | `RCCE_flag_alloc`, `RCCE_flag_free` | no flag twice, no line lost or used twice |
| MPB allocation (`RCCE_malloc.c`) | circular list of blocks | `RCCE_malloc`, `RCCE_free`, `RCCE_malloc_request` | no overlap; refusal only when nothing fits |
| Power (`RCCE_power_management.c`) | level, divider, request; the hardware's | `RCCE_iset_power`, `RCCE_wait_power`, `RCCE_set_frequency_divider` | the tiles never run faster than their voltage allows |
| RPC queue of the emulator (same file) | circular queue in an MPB, lock, start time | `RC_set_voltage` | requests are served in order, all of them |
| Start, end, lock (`RCCE_admin.c`) | MPB contents, lock registers | `RCCE_init`, `RCCE_finalize`, `RCCE_acquire_lock`, `RCCE_release_lock` | a program starts from cleared flags and free locks |
| Put and get, shared memory, hardware access | - | copies, `RCCE_shmalloc`, register mapping | see section 7 |

Calls between them: collectives call send and receive; `RCCE_comm_split` calls
the barrier of the world; barrier, send and receive call flag reads and writes;
`RCCE_flag_alloc` calls `RCCE_malloc`; `RCCE_iset_power` calls `RC_set_voltage`;
flag writes of one bit and the RPC queue call the lock.

What is hard here is **ordering and reuse**: single bits and one buffer are
reused for every call, the UEs run at different speeds, and no message carries
a number. A UE spins on a value that is visible for one phase only. In the
single-bit build **atomicity** is added (read, change and write back of a
byte), in the RPC queue the **stale look** without the lock, in the allocators
**long sequences** of legal calls, in the power code the **order** of voltage
and frequency.

### 1.2 Components of the driver

| Component | State | Operations | What makes it correct |
|---|---|---|---|
| FIFOs (`crbif_main.c`) | ring, read and write pointers, level, lock | `crbif_fifo_read`, `crbif_fifo_write`, `crbif_fifo2dma` | bytes leave as they came; a ring never overflows; the level agrees with the pointers |
| DMA daemon, interrupt, filter (`crbif_main.c`) | `dma_state`, `dma_doTx`, `dma_doFilter`, sizes and offsets of two half buffers | `crbif_daemon`, `crbif_doDma`, `crbif_prepareDma`, `crbif_isr`, `crbif_filter` | one transfer at a time; nothing is filtered before it arrived or overwritten before it is filtered; leftovers keep the order |
| Network (`crbif_net.c`) | slots in use per core, next slot, last transmit, queue stopped, packets being received | `crbnet_tx`, `crbnet_hw_tx`, `crbnet_tx_timeout`, `crbnet_pktHandler` and its mailboxes | a slot is not reused before the core has freed it; packets are not mixed; the queue starts again |
| Device files (`crbif_file.c`) | open count, FIFOs | read, write, ioctl | as for the FIFOs |
| Hardware access, registration (`crbdev*.c`, `mcedev*.c`) | registers | PCI, DMA programming, load and unload | see section 7 |

Three threads of control work on this state, daemon, work queue and interrupt,
and besides them the network stack and the processes that use the device files:
ring levels and slots are read without their locks, flags are set before a
transfer starts and taken back, time-outs race with late completions. These
components are modelled in `CrbFifo`, `CrbDma` and `CrbNet`.

### 1.3 Access to the board from the host

`sccApi.cpp` of sccKit is what all host tools use to read and write memory and
registers of the board through the driver.

| Component | State | Operations | What makes it correct |
|---|---|---|---|
| Accesses | the access under way, `txTransid`, `rxMsg` and `rxMsgAvail`, the `DMA...` variables | `transferPacket`, `read32`, `write32`, `dmaPrepare`, `dmaTransfer`, `dmaComplete` | a successful read has the last value written; every access returns |
| tx thread | ring of 1024 messages with two indices, no lock | `sendMessage`, `txThread::run` | messages are handed over in order, none is left out |
| rx thread | - | `rxThread::run`, `receiveMessage`, `dmaReceive` | an answer goes to the access it belongs to |

Three threads share plain variables here. What is hard is that an answer may come
after its access has given up, that blocks are matched by counting alone, and that
one ring index is read by the other thread while it changes.

## 2. Modules and code

| Module | Code | State and actions |
|---|---|---|
| `RcceBarrier` | `RCCE_barrier` on one communicator | the four flags and locals per UE; one action per remote read (`PollRead`), remote write (`ReleaseWrite`), end of a polling pass, entry and return |
| `BarrierSync` | - | abstract barrier: `Arrive`, `Depart` over counters of arrivals and departures |
| `RcceCommSplit` | `RCCE_comm_split` over `RCCE_barrier` | flags per communicator and UE; all UEs run one script of splits and barriers; each UE has its own copy of the communicator |
| `RcceSendRecv` | `RCCE_send`, `RCCE_recv`, `RCCE_recv_test` | flags per pair, buffer per UE; a copy into or out of the buffer has a begin and an end, so that an overlap of two copies shows |
| `RcceCollectives` | broadcast and reductions | scripts of sends, receives and combinations over an abstract send that is what `RcceSendRecv` proves it to be; buffers hold the sequence of what was combined into them |
| `RccePower` | power management of one domain by its master | hardware (`volt`, `target`, `divider`) and the library's idea of it (`level`, `fdiv`, `active`); the regulator reaches its target by itself |
| `RccePowerTable` | the table of levels, `RC_voltage_level` | constants; the assumption of `RccePower` is evaluated for all legal dividers |
| `RcceRpcQueue` | the queue functions and `RC_set_voltage` of the emulator | the array, the lock, and per core where it is between lock, look and update |
| `RpcService` | - | abstract service: first-in first-out, one request per latency |
| `RcceMalloc` | `RCCE_malloc`, `RCCE_free`, `RCCE_malloc_request` (gory) | the block list as a sequence, tail last; `Try` is one pass of the request loop |
| `MpbHeap` | - | abstract heap: disjoint pieces, refusal only when no gap fits |
| `RcceFlagBits` | `RCCE_flag_write` with one bit per flag, the lock, the flip in the barrier | byte, lock, private copies |
| `FlagRegisters` | - | abstract flags: independent registers |
| `RcceFlagAlloc` | `RCCE_flag_alloc`, `RCCE_flag_free` (gory), composed with `RcceMalloc` | list of lines with statuses; the lines come from the allocator, which the program uses for itself too |
| `CrbFifo` | `struct dma_fifo`, `crbif_fifo_read`, `crbif_fifo_write` | operators: the copy with the wrap of a pointer outside the lock, and the update under it |
| `CrbDma` | daemon, `crbif_doDma`, interrupt, packet filter, `open`, `read` and `write` of the device | the rings of `CrbFifo`, the two halves of the transmit buffer, the fragment in front of the 4k mark, the engine, the daemon's state as a task (`task`) and the age of its time stamp (`last`); one action for each piece between which another thread can come, `Pause` and `Schedule` at the end of a pass |
| `CrbNet` | `crbif_net.c` | slots per core, the frame the kernel offers, the mailboxes; the cores are external |
| `SccApi` | `transferPacket`, `read32`, `write32`, tx and rx thread of `sccApi.cpp` | ring, the access under way, the answers on their way; driver and board hold `ROOM` messages, and a write takes none when they are full; the board is external |
| `MC...` | - | instances for TLC |
| `...Proofs` | - | theorems and proofs about the module they are named after; `RcceHeapProofs` is about `RcceMalloc`, `RcceFlagAlloc` and `RcceFlagBits`, `RccePowerProofs` about `RccePower` and `RcceRpcQueue` |

Variables and definitions keep the names of the code where TLA+ allows it; the
mapping line by line is in `PROJECT.json`. Abstractions worth knowing:

- **Message contents.** A piece is its destination and its number on the channel;
  number 0 is a piece half written or changed while it is read.
- **History variables** (`entered`, `left`, `put`, `got`, `last`, `entry`,
  `exit`, `pieces`, `owners`, ...) record what happened; no guard reads them,
  except for the bounds and for what a program may legally pass (a flag it
  owns).
- **Atomicity.** One access to one MPB byte is one action. Where the code reads
  and writes a byte that only one UE writes (the gather flag with one byte per
  flag), the two are one action; where it is not so, they are two.
- **Units of the driver.** A packet of the driver is `PACKET` units, of which each
  carries the sender, the number and its place in the packet; a PCI packet is
  another number of units, so that partial transfers cut packets. `CrbDma` has
  `net_fifo` as a sequence, whose producer is `CrbNet`; `CrbNet` has the way from
  `net_fifo` to the cores and back as a sequence in order, which is what
  `StreamsIntact` of `CrbDma` says of it.
- **Time-outs.** `CrbNet` keeps of `jiffies` only what the code distinguishes: at
  most a jiffy, some time, more than the time-out, `CrbDma` only whether the daemon has
  been idle for long. In `SccApi` an access may give up at any time while it waits.
- **Caches.** Write-combining buffers and L1 lines are taken to be invalidated
  where the code does it.
- **The program.** Calls come in any order the interface allows. Where the
  interface relies on the program (equal message sizes at both ends, collectives
  in the same order everywhere), the model does too and says so. Constants `Uses` and `BitUses`
  switch on uses that break an invariant (section 6).

## 3. Runs

| Run | Module | Instance | Shows |
|---|---|---|---|
| `barrier` | `RcceBarrier` | 5 UEs, 4 barriers each | `NobodyLeavesEarly`; the invariant `PhaseInv` that is proved; the code implements `BarrierSync` with its liveness: a round that all have begun all finish |
| `comm_split` | `MCCommSplit` | 3 UEs, four programs | `CallsSynchronise` for barriers of parts, of the world and inside splits; `ProgramTerminates` |
| `comm_overwrite` | `MCCommSplit` | 3 UEs, one program | a violation: section 6 |
| `send_recv` | `MCSendRecv` | 3 UEs, 2 calls each of any kind to any peer | `PiecesIntact`, `SendIsSynchronous`, `CallsAreWhole`, `BufferNotReusedEarly`, the invariant `HandshakeInv`, and `CommittedSendsFinish` |
| `power` | `MCPower` | 5 dividers, 2 requests | `FrequencySupported`, `OneChangeAtATime`, `RequestHonoured`, the invariant `PowerInv`; the table satisfies what the proofs assume |
| `rpc_queue` | `RcceRpcQueue` | 3 masters, 3 slots, 2 requests each | implements `RpcService`; `NoInternalError`: the error exits of the queue functions cannot be taken; `EveryCallReturns` |
| `flag_bits` | `RcceFlagBits` | 3 UEs, 2 flags in the byte | implements `FlagRegisters`; the invariant `LockInv` |
| `heap_flags` | `RcceFlagAlloc` | 4 lines of 2 flags, unbounded history | `BlocksTile`; the allocator implements `MpbHeap` also with flag lines among its pieces; `FlagsExclusive`, `StatusIsUse`, `LinesAccounted` |
| `collectives` | `MCCollectives` | 3 UEs, 101 programs of three calls | `ResultsCorrect`, `ProgramsEnd` |
| `crb_dma` | `MCCrbDma` | rings of 8 units, packets of 3, PCI packets of 2, 4 packets of all senders | `RingsSound`, `StreamsIntact`, `TxDrains` |
| `crb_net` | `CrbNet` | 2 cores of 2 slots, 4 frames or restarts | `FramesReachCore`, `SlotsInStep`, `NetFifoFits`, `FramesWhole`, `FrameLeaves` |
| `scc_api` | `SccApi` | ring of 3, 2 cache lines, 3 accesses, one fault | `ReadsLastWrite`, `WritesHandedOver`, `EveryCallReturns` |

A type invariant is a property of a run where no theorem proves it; where one
does (barrier, send and receive, power, RPC queue, flags of one bit, driver rings; for
the network interface and the access to the board the types are parts of the inductive
invariants) it is left to the theorem; that of `RcceFlagAlloc` is kept in its run as well, because the theorem
has the hypotheses of the other flag theorems. `RcceCommSplit` has its types in the inductive
invariant `CommInv`; `RcceCollectives` has none: its other properties compare all of its state.

Bounds and why they are enough:

- `barrier`: four barriers give each flag each phase twice, and a UE can be
  ahead of another by at most one; five UEs give the root a pass of four reads
  and writes, so that UEs enter and leave in the middle of it. The proofs remove
  both bounds.
- `comm_split`: three UEs allow all shapes (one part, 1+2, 2+1, and a part
  that is not contiguous), so that the root of a part is not the root of the
  world, and a UE changes from root to member. The programs re-split in an even
  phase with another membership, in an odd phase with the same one, and split
  twice in a row.
- `send_recv`: 3 UEs are one channel, its reverse, and a third party for each;
  the sizes 0, 8, 32, 64, 70, 100 with lines of 32 and chunks of 64 bytes make
  messages of no, one, two and three pieces of all the kinds the code
  distinguishes. Two calls reuse every flag. The proofs remove all bounds.
- `power`: the dividers need levels 4, 1 and 0 of the table, the default is among
  them, and two requests let one be over while the other is in flight. The proofs
  hold for every table that satisfies `PowerAssumption`.
- `rpc_queue`: as many masters as slots, so the queue is full; two requests each
  make it wrap around.
- `heap_flags`: four lines allow every merge case of `RCCE_free`, an exactly
  fitting tail, and a flag line that is emptied between two others; two flags let
  a line be full or have a hole. The state space is finite without bounding the
  calls. Sizes include zero, too much, and no multiple of a line.
- `collectives`: two calls with any kind, root and communicator, then one of all
  UEs; three UEs are the least for which the order of operands matters and for
  which two members other than the root race. In addition a program with root 2
  and one with a root outside the communicator, which must do nothing.
- `crb_dma`: in a ring of 8 units the third packet of 3 wraps in its middle; a half
  of the DMA buffer holds one packet and a part of the next, and a PCI packet of 2
  leaves a unit over in every transfer; the program reads less than whole packets
  allow, or not at all, so that the MOP FIFO fills up. Four packets let every ring
  wrap, both halves be used, and one be left over. A packet of the board may come with
  or without the DMA engine, before and after an idle second of the daemon.
- `crb_net`: two slots make a slot come round with the third frame; the buffer has
  room for one frame and a part of the next. A core may restart once at any
  time, also between the lines of a frame it sends. The addresses 0 and 4 are illegal.
- `scc_api`: three accesses let an answer that is late for the first come in the
  second, and the third find what it left; four transaction ids for blocks of two
  let the ids wrap around; a ring of three is full with two messages, and so is the
  driver (`ROOM = 2`), with or without the board ever taking one.

Deadlock is checked in all passing runs except those in which a UE may stop
legally: `send_recv` (a receive from a peer that never sends), `crb_dma` (the daemon may
sleep for ever: section 6, 18), `rpc_queue` and
`collectives` (the end of the program; that it is reached is a property),
`crb_net` and `scc_api` (the bound on frames or accesses is reached).

## 4. Fairness

Where a module has a liveness property, it assumes weak fairness of the steps of a
UE inside a call and of nothing else a program does: a UE has a core of its own (or a thread of its own) and spins there, so that a step
that stays possible is taken. In addition:

- that a program *makes* a call is assumed only where its script says so
  (`RcceCommSplit`, `RcceCollectives`); in `RcceBarrier` and `RcceSendRecv` a UE
  may stay outside for ever, and the liveness properties are conditional;
- `TimePasses` of `RcceRpcQueue` is fair because it is the clock;
- the test-and-set lock gets no strong fairness: the registers do not give it.
  `EveryCallReturns` holds without, because a core asks for the lock again only
  when a look has told it that its turn may have come, and each core makes
  finitely many calls;
- in `CrbDma` the daemon when it can run, the filter (the kernel runs queued work), the
  engine's own interrupt, the end of a write that has begun, and the board taking
  what is in the FPGA are fair; not the program's reads and not what the board
  sends, so that `TxDrains` holds with a full MOP FIFO too. A daemon that sleeps without
  a timer is not enabled before an interrupt wakes it, and fairness does not help it:
  `TxDrains` says that everything gets to the board unless that happens (`Stranded`);
- in `CrbNet` the kernel offers the frame again, its watchdog fires, time passes
  and the board takes what is in `net_fifo`; nothing is assumed of the cores, which
  may be dead: `FrameLeaves` is about that;
- in `SccApi` the thread of the program, with its time-outs, and the tx thread are
  fair, the latter as long as the driver has room; of board and rx thread nothing is
  assumed. A board that stops to take messages leaves the driver full, the tx thread in
  its loop of writes that take nothing, and the program in the waits that have no
  time-out; `EveryCallReturns` says that every access returns unless the driver stays
  full for ever, and that even then none stays at its wait for an answer. An access may
  time out as soon as it waits, so this fairness stands for the clock;
- `RccePower`, `RcceMalloc`, `RcceFlagAlloc` and `RcceFlagBits` have no liveness
  property and assume no fairness.

## 5. Theorems

All of these hold for every value of the constants that satisfies the named
assumption of the module, without bounds on calls (`MaxRounds` and `MaxCalls` are
arbitrary). In each module the type invariant and the inductive invariant are
proved first, with one step per action; the theorems of the table follow.

**Barrier** (`RcceBarrierProofs`; assumes `SizeAssumption`).
`PhasesStayInStep`, `TypeCorrect`, `BarrierSafe`, `BarrierRefines`.
That nobody leaves early is not inductive: a member leaves because its release
flag has a value, and the value is only a parity. `PhaseInv` therefore relates
the flags to the numbers of barriers begun and finished (`FlagsArePhases`,
`InsideIsOneAhead`), says that every UE is within one phase of the last release
granted to it (`OnePhaseApart`), so that the parity identifies the round, and
says what the root's counter means in the middle of a pass, while flags it has
already read go on changing (`RootKnows`). `BarrierRefines` maps begun and
finished to arrived and departed of `BarrierSync`.

**Send and receive** (`RcceSendRecvProofs`; assumes `SendRecvAssumption`, and for
`WholeMessages` that the API is not the gory one).
`HandshakeHolds`, `DeliveryIsIntact`, `SendSynchronises`, `BufferIsSafe`,
`WholeMessages`, `TypeCorrect`.
The invariant says that on every channel a piece is in one of six stages,
`Resting`, `InBuffer`, `Announced`, `BeingTaken`, `Taken`, `Acknowledged`, each
of which fixes both flags, where the two ends may be, and whether the buffer
holds the piece. The point of the proof is that the buffer of a UE is shared by
all its channels: a step on one channel leaves the stages of the others as they
are because a UE is inside one call at a time. This holds for any number of UEs,
message sizes, line and chunk sizes.

**Communicators** (`RcceCommSplitProofs`; assumes `ScriptAssumption`, and that the
programs are `Careful`: a barrier is called by whole parts and after a split, and a
split gives a UE another part than it has only if the UE has called an even number of
barriers on the communicator).
`CommInvariant`, `BarriersSynchronise`.
`Careful` is what section 6 (1) shows the code to need; `MCCommSplit` evaluates that the
programs of the run satisfy it, and that the one of `comm_overwrite` does not. Every flag
is the parity of the calls made (`Phase`, `GatherIs`, `ReleaseIs`), so the parity has to
be the same for the members of a call although they may have called barriers of
different parts before: `PartAgrees`, by the least step at which two members of a part
could differ. That a flag the root reads has the expected value says that its owner has
come, and not that it is two calls behind, because an owner that has not come has called
nothing on this communicator since: the root has passed all steps before, and the splits
among them held everybody (`BehindIs`). A member that is released is so from this call
(`Granted`, `Passed`), also when its former communicator had another root: it then
counts as never released, which only an even number of barriers makes true (`Left`,
`LeftNext`).

**Power** (`RccePowerProofs`; assumes `PowerAssumption`, and that a program waits
only for requests in flight and that a restart finds the default state: `Careful`).
`PowerInvariant`, `PowerSafe`, `OneAtATime`, `RequestsAreHonoured`, `PowerTypeCorrect`.
`PowerInv` has a half for rest and a half for flight. At rest the library's level
is the hardware's, and every divider smaller than the *remembered* one needs at
least this level; that makes it harmless that `RCCE_set_frequency_divider` does
not update the remembered divider, from which `RCCE_iset_power` decides whether
to change frequency or voltage first. In flight the tiles get along with both
voltages. The proof uses only that a smaller divider never needs less voltage,
which holds of the table.

**Flags of one bit** (at the end of `RcceHeapProofs`; assumes `FlagBitsAssumption` and that
nobody writes during the owner's flip: `WorldOnly`).
`LockHolds`, `FlagsAreIndependent`, `BitsTypeCorrect`.
Who has read the byte and will write it back is alone and its copy is current
(`LockInv`); thus every write changes one flag, which is a step of
`FlagRegisters`. The assumption is met by programs that synchronise through
`RCCE_COMM_WORLD` only: whoever still has a flag of the owner to write has not
entered the barrier, or waits for the owner.

**Allocator** (`RcceHeapProofs`; assumes `HeapAssumption`: the memory is a whole
number of lines and no request is larger than it).
`MemoryTiled` and `HeapRefined` of the composition with the flags, `HeapAlone` of the
allocator by itself; for any amount of memory and line size, and any order of calls,
with pointers that were never handed out among those freed.
`HeapInv` says of the list what `BlocksTile` says, and besides that the blocks are in
the order of their addresses and that every address is a multiple of a line (`Tiles`).
The two ways in which a block gives space are `SplitTiles` and `WholeTiles`; the four
cases of the merge in `RCCE_free`, and that of a block that is free already, are one
lemma, `MergeTiles`, about the range of blocks that become one. `Grants` shows that
what is handed out overlaps nothing in use; `Refusal`, that NULL means that there is no
gap: the block in which an address lies (`BlockOf`) is in use, or free and too small,
and as two free blocks are never neighbours, what is behind it is in use.

**Flag lines** (`RcceHeapProofs`; assumes `HeapAssumption`, and `ByteFlags`: one byte
for each flag, and no flag is asked for when neither list nor memory have room).
`NoFlagTwice`, `StatusesExact`, `LinesOwned`, `FlagTypes`; of the composition with the allocator,
for any amount of memory, line size and order of calls. Both parts of `ByteFlags` are
needed: without them the statements do not hold (section 6, 7 and 8).
None of the three is inductive alone: that a flag has one owner follows from the
statuses, these are right only while a line is in the list once, and that depends on
the allocator not giving out again a line that the list still has. `Core` says so of
every line (`Good`) and that the line of a flag in use is in the list; `Counted` that
lines without flags are not kept. A status that is set or cleared (`SetKeeps`), a line
that is appended or dropped (`AppendKeeps`, `DropKeeps`) and pieces that only others
get or give back (`PiecesKeep`) preserve it, and `Granted` takes from `HeapInv` that a
new piece is in no line of the list. `FlagTypes` is then a consequence of both
invariants: a member count is the number of statuses that are set, and what a block
has, or a piece is, lies between two addresses of the memory.

**Driver rings** (`CrbDmaProofs`; assumes `DmaAssumption` and that `open` does not
fall between the steps of a transfer: `~OPEN_RACES`).
`RingsAreSound`, for every size of ring, packet and PCI packet, any number of
packets, and with foreign interrupts too.
In a ring the write pointer less the read pointer is the level, but for whole
rounds; while a transfer is under way its pointer may have been set to zero and the
level not yet been changed, so the statement counts a pointer from where its
transfer began (`Before`). `RingsInv` adds to `RingsSound` what a transfer still has
to do, `MoversInv` which of the four users may have one under way (the program
only while the device is open, the daemon only at one place, the filter only
after a store), `FilterInv` that the packets the filter decided to store fit,
although the level falls while it works, and `TxInv` that what is prepared stays
within half of the buffer when a leftover is put in front of it. The arithmetic of
the rounds is in the lemmas `OneRound`, `WriteBegins`, `WriteEnds`, `ReadBegins`
and `ReadEnds`.

`StreamsAreIntact`, for every size of ring, packet and PCI packet, any number of
packets and every interleaving, with own interrupts only (`Irqs = {"own"}`; section 6, 11
has what a foreign one does).
Units are packets laid end to end (`Flat`), and the packets of a sender a run of
numbers (`Run`). `SInv`, on top of the invariant of the rings, says where every
packet is. On the way to the board (`TxFlow`), what has arrived, what the engine
still has of one half and what is prepared in the other are together whole packets
(`Outgoing`, `Departed`), although each of the three may end in the middle of one;
the next numbers of the network wait in `net_fifo`, the next of the program in its ring
(`FromNet`, `FromProgram`). On the way back (`RxFlow`), what is left to filter and what
the board has not yet sent are whole packets in order (`Incoming`, `Unfiltered`);
those that the filter has had are the answers that the program has read or that wait
in the ring, and the frames that the network has got (`Answers`, `Frames`). `Holds`
of `CrbDmaProofs` has what is in a ring counted from where its next read begins, the units of a write
under way included, so that the second half of a transfer changes nothing
(`HoldsWriteDone`, `HoldsReadDone`). What open throws away is whole packets (`HeldIs`)
and is the only reason for a number to be missing (`InOrder`, `Reaches`).
`TxShape` and `RxShape` say which half the engine works on, and that nothing is read
behind the back of the filter.
Each of the three streams is then the beginning of whole packets in order, which is
what `StreamsIntact` says of it (`CarriesPrefix`, `Intact`).

**Network interface** (`CrbNetProofs`; assumes `NetAssumption`).
Three inductive invariants, for any number of cores, slots, frames and restarts, each
with the hypothesis under which it holds, or with the exception in the statement; without
it TLC finds the property violated (section 6, 13 to 15).

`SlotsConsecutive`, and from it `FramesDelivered` and `SlotsAgree`, assume that no
completion and no reset falls into a transmission (`SlotsCareful`, that is `~RACES`).
`SlotInv` gives the frames on their way to a core positions from `a` to `z - 1`, at
most as many as there are slots, and the slot of a position is its remainder. Those
before `m` are whole in the memory of the core (`InMemory`); of the others the first
line is in `net_fifo`, and the other lines are before it or in the memory already
(`FirstLines`, `OtherLines`), which is where the order in which `crbnet_hw_tx` writes
them is needed. The numbers rise, and a number that is missing was given up or lost
(`Rising`, `NoneMissing`). The driver's busy slots are those of the positions with
those that the core has given back and the driver has not yet heard of (`InStep`,
`Owed`, `Given`). A core that restarts has two phases: it may still be
announcing itself, with nothing on its way to it (`Restarted`), or be counting again.
`SlotInv` is a statement of each core by itself, so that a step needs to be looked at
only for the core it concerns; that the others keep theirs is the lemma `Locality`.

`OnlyShortOverflow` assumes nothing of the length of frames: `level` is the sum of what
is in `net_fifo` (`Holds`: there is a function of partial sums), so that it is never
negative and never a number besides the bytes that are really there, and it passes the
size of the buffer only if frames have less than 264 bytes (72 without the interrupt). The
check asks for twice the length and a frame takes 48 bytes for each line of 32 that it
begins, and 96 more; `LongEnough` has that from 264 (72) bytes on this is not more than
what was asked for. Below, some lengths happen to be enough and others are not (section
6, 13). In `FitInv` a part that leaves is worth what it was when it came.

`FramesAreWhole` assumes that frames are torn by restarts or find no memory, but not
both (`FramesCareful`). `FramesInv` looks at the mailbox of a core together with what
the core will send next (`ToCome`): its packets form a chain in which each is the next
line of its frame, or the first of a later one (`Chain`), and the first of them fits
the frame under assembly (`Fitting`), which is made of the first lines of one frame
(`Gathered`). With torn frames only, every first line finds memory and replaces what
is left of the frame before it; with a lack of memory only, the frame before it is
complete, so that nothing is under assembly and the rest of the lines is refused.

**RPC queue** (in `RccePowerProofs`; assumes `RpcQueueAssumption`: a finite set of
cores that has no more members than the queue has slots).
`TypeCorrect` (with it that the lock excludes), `ErrorsNeverOccur`, `QueueRefines`.
`QueueInv` says that the array holds, from some slot on and round its end, a
sequence of distinct cores, the first of them marked, and that these are the cores
whose state says they wait (`Layout`, `Members`); and that what a core has found
with the lock is still so when it acts (`HeadFound`). That there is a free slot for
everybody follows by counting (`Room`); that the search behind the head finds the
slot behind the last one, and that dropping the head marks the second, is shown on
the distance from the head, modulo the number of slots (`Around`, `Everywhere`).
What a core sees without the lock needs no assumption at all.

**Access to the board** (`SccApiProofs`; assumes `ApiAssumption`).
`MessagesHandedOver` and `LastWriteRead`, for any size of the ring, number of lines,
range of ids and accesses, any room of the driver, and anything the board does.
The tx thread works with a snapshot of the write pointer while the program goes on
putting messages into the ring. `RingInv` says that the filled part holds the last
messages in order (`LastSent`), that one more fits unless the program is waiting for
room (`HasRoom`), that the thread stays within what was there when it looked
(`Within`), and that no message leaves the ring before it has been handed over,
although some are handed over twice (`HandedTo`). `MovingOn` has the arithmetic of
the distances round the ring.
`LastWriteRead` follows a read from the ring to the answer, in four parts. `CallInv`
has what the fields of the access under way are at each of its places. `MemInv`: for
each line, the last value written is still ahead of the tx thread in the ring, or it
is the last that was handed over and not yet stored, or the memory has it (`LineInv`,
`Stored`); the thread that goes back and hands messages over again, old values among
them, passes the newest once more. `Requests`: an access that waits has
one message on its way, which is the last in ring or wire and is never repeated
while it waits (`FirstOnly`, `Underway`), or none because the answers are there
already (`Settled`). `Expected`: the answers to come, and what the rx thread has in
its hands, are exactly the rest of what the access needs, with the values of `expect`
(`ReadPart` for a single read, `BlockPart` and `Fits` for a block); otherwise nothing
is to come (`Quiet`). That last part is what an answer after a time-out destroys, and
`stray` records it. A line aborted by the board is accepted in a block (section 6, 20).

Only model-checked, not proved: liveness (`SyncFairSpec` beyond its safety part,
`ProgramTerminates`, `CommittedSendsFinish`, `EveryCallReturns`, `ProgramsEnd`,
`TxDrains`, `FrameLeaves`), which is out of the prover's reach; and `ResultsCorrect` of
`RcceCollectives`, because its scripts are data of varying length: what a script leaves
in the buffers is defined by recursion over it, and would need induction over data.

## 6. Known divergences

Places where the code does something else than its comments or manual say. The
first is kept as a run that TLC must find violated; of the others the setting that
shows each is given.

In RCCE:

1. **Overwriting a communicator** (`comm_overwrite`, `RCCE_comm.c:65`). The comment
   says that an initialised communicator may be overwritten with another
   membership and keep its flags. The release flag of a root is never written, so
   after an odd number of barriers it is one phase behind the flags of the others;
   when the next split makes that UE a member, it passes its first barrier alone.
   It is safe after an even number of barriers or with the same membership: that
   is the run `comm_split`, and the theorem `BarriersSynchronise` for all programs.
2. **The gory `RCCE_recv`** (`RCCE_recv.c:179`; `GORY = TRUE` of `RcceSendRecv`
   violates `CallsAreWhole`) leaves its test
   variable uninitialised, although the comment above says that it is set to 0: the
   receive may return with nothing.
3. **The flip of the gather flag** (`RCCE_synch.c:96`; `BitUses = {"race"}` of
   `RcceFlagBits` violates `FlagsIndependent`) reads and
   writes back a byte of several flags without the lock that `RCCE_flags.c:217`
   requires. With communicators smaller than the world another UE may write its
   neighbour meanwhile, and that write is lost.

4. **A wait for a request that is over** (`RCCE_power_management.c:545`). The mark
   of a change in flight is removed before the request is found stale; a
   following divider change is then judged by the old level. `Uses = {"divider",
   "stale"}` of `RccePower` violates `FrequencySupported`. The manual
   (`RCCE_set_frequency_divider.3`) promises that the call is refused while a
   change is in flight.
5. **A restart with a change in flight or with settings other than the default**
   (`RCCE_power_management.c:68`): the variables start with the default, the
   hardware does not. `Uses = {"divider", "restart"}`.
6. **`RCCE_malloc_request` does not end** when not one line is free
   (`RCCE_malloc.c:229`): half of a line is padded to a line again. In `RcceMalloc`
   the action `Try` then repeats for ever.
7. **A flag line that could not be allocated** (`RCCE_flags.c:85`) stays in the list
   uninitialised. `Uses = {"exhaust"}` of `RcceFlagAlloc` violates `StatusIsUse`.
8. **Freeing a flag of one bit** (`RCCE_flags.c:128`) flips a bit of the wrong status
   byte, because the statuses are kept one per byte. `FLAGS_PER_BYTE = 2` violates
   `FlagsExclusive`.
9. **`RCCE_reduce` receives into the root's source buffer** (`RCCE_reduce.c:100`;
   the comment at line 43 calls it the source): a second reduction of the same
   buffer gives another result. `ResultsCorrect` accounts for it by comparing with
   the buffers as they are at the entry of each call.

In the driver:

10. **open and `CRBIF_RESET` set a ring to zero** (`crbif_file.c:106`) without regard
    to a transfer of the daemon or the filter that has copied and not yet changed the
    level; the level turns negative, and `crbif_fifo2dma` compares it as unsigned.
    `OPEN_RACES = TRUE` of `CrbDma` violates `RingsSound`. Neither clears
    `dma_txSize`, `dma_rxSize` and `dma_rxOffset`, so that a fragment of the old
    stream precedes the new one.
11. **Every interrupt counts as a completion** (`crbif_isr`, `crbif_main.c:841`),
    although the handler is registered for a shared line. `Irqs = {"own",
    "foreign"}` violates `StreamsIntact`; it does not violate `RingsSound`, as the
    theorem shows.
12. **What the filter leaves over** when the MOP FIFO is full is copied in front of the
    4k mark (`crbif_main.c:718-720`; the comments here and at 515 speak of packet
    fragments). It grows with every read, may exceed 4096 bytes, holds back frames
    for the network as well, and is looked at again only when new data comes. The
    model has all of this except for the limit of 4096.
13. **The space check of `crbnet_hw_tx`** (`crbif_net.c:332-336`, "for simplicity just
    multiply by 2"): a frame takes 48 bytes for each line of 32 and 96 for the
    interrupt. With the interrupt that is more than twice its length for all frames of
    less than 192 bytes and for those a little longer than a number of whole lines up
    to 263 bytes; without it for frames of some lengths below 72 bytes. `LENGTH = 40` of
    `CrbNet` violates `NetFifoFits`; `OnlyShortOverflow` shows that no frame of 264 (72)
    bytes or more does. The subtraction is unsigned: once the level is above the size of
    the buffer, the check passes for every frame.
14. **A completion before `setBusy`** (`crbif_net.c:411`): the slot is marked when the
    core may already have given it back, and stays in use until the core restarts. A
    reset that falls into a transmission, or frames under way to a core that
    restarts, put driver and core out of step. `RACES = TRUE` violates `SlotsInStep`.
15. **A core that restarts amid a frame when the next frame finds no memory**
    (`crbif_net.c:576-649`): the parts of the second are joined to the first.
    `Faults = {"torn", "nomem"}` violates `FramesWhole`; with either of the two alone it
    holds, as `FramesAreWhole` shows. The test `size == 0` in
    `crbif_extractData` (`crbif_main.c:648`) compares the address of `size`, and not what
    it has, with zero, so that an offset is never moved on.
16. **Addresses** (`crbif_net.c:478`): `destIp - 1 > RCK_CORECOUNT` lets the core after
    the last one pass; with subnets of more than one address the test for 0 is dead: the
    division takes address 0 to the first gateway (`DestIp`), and the frame is sent there.
17. **A stopped queue** is started again by the watchdog only (`crbif_net.c:500`), not by
    the completion that frees a slot. `FrameLeaves` holds because of the watchdog.
18. **The daemon may sleep for ever** (`crbif_main.c:796-808`). The comment above (790-794)
    says that "the daemon does not enter a sleep state". After 1000 idle ticks it sleeps
    for a second and then, at line 802, marks itself as a sleeper again and goes on. If
    its next pass reads a packet of the board without DMA (531-537), the time stamp is
    renewed (808), and the pass after that calls `schedule()` (805) without a timer: only
    an interrupt wakes it (845), which comes of transfers that only the daemon starts,
    or by chance from another device on a shared line. What the program and the network
    hand over from then on stays. With `TxDrains` replaced by `[]<>(Owed = {})` TLC finds
    `crb_dma` violated; `TxDrains` shows that this is the only way to get stuck.

In `sccApi.cpp`:

19. **Messages are written again** (line 3126): after the one-part branch has written
    all messages of its snapshot it moves ahead by one, so that all but the first
    are written once more. `WritesHandedOver` allows it, and it gives answers that
    no access waits for.
20. **Late answers** (lines 392 and 535): an answer that is matched before an access
    gives up is delivered after, and the next read finds `rxMsgAvail` set.
    `ReadsLastWrite` leaves out accesses after such an answer (`stray`); without that
    TLC finds it violated. The comment at 1042 promises that late packets of a
    block are shown as unexpected: they are counted for the next block when that has
    begun. `transferPacket` reports `ABORT_MESH` as an error (539-547), `dmaReceive`
    (961-992) stores it as data like any other line: `read32` of a block then returns
    the full size with a line that is not what was written, and `ReadsLastWrite` allows
    it (-1). Wrong ids are counted as data, too.
21. **A full driver** (lines 3108-3124). `write` returns 0 for as long as `mip_fifo` is full
    (`crbif_file.c:281-283`), which is neither the error -1 nor does it count down
    `sendTimeout` (3121): the tx thread tries again for ever. When the board no longer
    takes messages, or the daemon sleeps (18), the waits for the empty ring (1049) and for
    room in it (3206), which have no time-out, never end. `EveryCallReturns` has this as its
    exception. For the same reason `sendAbort`, which is never reset and would drop all
    later messages without a word, is not set by a full driver; it is not modelled.
22. **Nested accesses**: `processEvents` inside a wait may start another access of the
    same thread, which spins on the semaphore for ever. The model has one access at
    a time.

## 7. What is not modelled

- **Put and get** by themselves, cache flushing, hardware mapping, emulator start:
  below the level of the models, where they appear as reads and writes.
- **Argument and host file parsing**, error texts and debug output, the sort of the
  core ids: sequential, without protocol.
- **`RCCE_shmalloc`**: the algorithm of `RCCE_malloc` with another unit, that is
  `RcceMalloc` with `LINE_SIZE = 1` and no requests, for which `HeapAlone`
  holds too; no run of its own. Only a size of zero, which
  `RCCE_malloc` refuses, it grants (`RCCE_shmalloc.c:100`), as a block of no bytes.
- **The non-gory `RCCE_malloc`** (a running pointer that hands out flag lines) is
  planned with the composition of the allocators.
- **Several voltage domains in `RccePower`**: domains share nothing on the chip but
  the regulator, whose queueing is `RcceRpcQueue` (emulator) or the blocking write
  (chip).
- **What one program leaves behind for the next**: `RCCE_finalize` no longer clears
  the MPB (`RCCE_admin.c:378`), and a killed program may leave a lock held; the
  models start from cleared flags and free locks. Planned.
- **Of the driver**: the end of the daemon when the FPGA reports an error or loses
  power, `ioctl` other than `CRBIF_RESET`, PCI and register access, module load and
  unload, packet headers, statistics.
- **Of sccKit**: all but the accesses to the board: connection, JTAG, reset and clock
  sequences, which are sequences of such accesses. Of the accesses: the blocks that are
  not sent because their address is that of the host (`SIF_HOST_PORT`,
  `sccApi.cpp:507`), the division of long blocks by `read32` (703-710; each piece is a
  block as in the model), and the exit of `acquireSysIF` (470, 850) for
  `releaseSemaphores`, a member of `sccApi` that no code assigns.
- **Illegal arguments of RCCE**: the error returns for a destination or size out of range
  (`RCCE_send.c:113-114` and the like) come before anything is changed.
- **Applications, the other parts of sccKit, sccTherm**: user interfaces, hardware sequences and
  benchmarks without a protocol of their own.

## 8. Plan

Done, in this order, by importance: barrier with proofs, communicators, send and
receive with proofs, power with proofs, RPC queue, allocators, flags of one bit
with proofs, collectives; then the driver's rings with proofs, its daemon and
filter, its network interface, the access to the board, and the composition of the
two allocators; then proofs about the allocators, the flag lines, the access to the
board and the network interface, about the communicators, and about the streams of the driver.

Next, modules:

| Module | Models | Composes | Abstract specification | Run and bounds |
|---|---|---|---|---|
| `RcceRunningMalloc` | the non-gory `RCCE_malloc` with its running pointer, under flags and the program | `RcceFlagAlloc` | exclusive pieces | 4 lines |
| `RcceBitBarrier` | barrier, send and receive over flags of one bit | `RcceBarrier`, `RcceFlagBits` | `BarrierSync` | 3 UEs; derives `WorldOnly` instead of assuming it |
| `RcceRestart` | start and end of programs over memory that keeps its contents | `RcceBarrier`, lock | - | two programs in a row, killed at any step |

Every safety invariant that a run checks has its theorem but two: `ResultsCorrect` of
`RcceCollectives` stays with TLC (section 5), and `NetFifoFits` of `CrbNet` is proved for
frames of 264 bytes and more, where it holds of every interleaving, and checked for one
length below that.
