------------------------------- MODULE SccApi -------------------------------
(***************************************************************************)
(* sccKit's access to the board (src/sccKit/sccApi/src/sccApi.cpp): the    *)
(* thread of the program makes one access after the other; the tx thread   *)
(* hands the messages of a ring to the driver; the rx thread matches the   *)
(* answers with the access under way, by transaction id or, for a block,   *)
(* by order alone.  The accesses are transferPacket (a "read", a "write",  *)
(* or a "post" for which it does not wait), read32 (a "block") and write32 *)
(* (a "store").                                                            *)
(*                                                                         *)
(* The driver and the board keep the order of messages.  The value that a  *)
(* message writes is its number.                                           *)
(***************************************************************************)
EXTENDS Integers, Sequences, FiniteSets, SequencesExt

CONSTANTS QSIZE,         \* slots of the ring: 1024
          MAX_TRANS_ID,  \* maxTransId
          LINES,         \* cache lines of the memory, and of a block
          ROOM,          \* messages that driver and board hold: mip_fifo and behind it
          MAX_CALLS,     \* bounds: accesses,
          MAX_FAULTS     \* and requests that are not answered properly

ASSUME ApiAssumption == /\ QSIZE \in Nat /\ QSIZE > 1
                        /\ {MAX_TRANS_ID, LINES, ROOM} \subseteq Nat \ {0}
                        /\ {MAX_CALLS, MAX_FAULTS} \subseteq Nat

VARIABLES
  call,         \* the access: where it is, what it is, lines still to send, result
  txTransid,
  rxMsg, rxMsgAvail,
  DMATransferInProgress, DMACommand, DMATransferID, DMAData,
  memBlock,     \* what the rx thread has stored behind DMAData
  txQueue, txQueueRead, txQueueWrite,
  tx,           \* the tx thread: where it is, its snapshot, messages handed over
  rx,           \* the rx thread: where it is, its message
  wire,         \* requests on their way to the board
  answers,      \* its answers
  mem,          \* the memory: the last write to each line
  calls, faults,
  sent,         \* history: the number of messages put into the ring
  expect,       \* the last write to each line that was put there
  handed,       \* the messages that the driver has got
  stray         \* whether an answer may come that no access waits for

pio   == <<rxMsg, rxMsgAvail>>
dma   == <<DMATransferInProgress, DMACommand, DMATransferID, DMAData, memBlock>>
ring  == <<txQueue, txQueueWrite, sent, expect>>
board == <<wire, answers, mem, faults>>
vars  == <<call, txTransid, pio, dma, ring, txQueueRead, tx, rx, board, calls,
           handed, stray>>

Lines == 1 .. LINES
Nothing == [op |-> "none", tid |-> 0, lines |-> <<>>, id |-> 0]
All == [l \in Lines |-> l]
Reading == [at |-> "read", data |-> 0]

Init ==
  /\ call = [at |-> "idle", kind |-> "none", todo |-> <<>>, ok |-> FALSE, data |-> <<>>]
  /\ txTransid = 0 /\ rxMsg = 0 /\ rxMsgAvail = FALSE
  /\ DMATransferInProgress = FALSE /\ DMACommand = "none" /\ DMATransferID = 0
  /\ DMAData = "NULL" /\ memBlock = <<>>
  /\ txQueue = [s \in 0 .. QSIZE - 1 |-> Nothing]
  /\ txQueueRead = 0 /\ txQueueWrite = 0
  /\ tx = [at |-> "look", writeSnapshot |-> 0, done |-> 0]
  /\ rx = Reading
  /\ wire = <<>> /\ answers = <<>> /\ mem = [l \in Lines |-> 0]
  /\ calls = 0 /\ faults = 0
  /\ sent = 0 /\ expect = [l \in Lines |-> 0] /\ handed = {} /\ stray = FALSE

-----------------------------------------------------------------------------
(***************************************************************************)
(* The thread of the program.                                              *)
(***************************************************************************)
isEmpty == txQueueRead = txQueueWrite
Full    == \/ txQueueRead - txQueueWrite - 1 = 0
           \/ txQueueRead = 0 /\ txQueueWrite = QSIZE - 1

\* sendMessage up to its wait: op on the lines.
SendMessage(op, lines) ==
  /\ txQueue' = [txQueue EXCEPT ![txQueueWrite] =
       [op |-> op, tid |-> txTransid, lines |-> lines, id |-> sent + 1]]
  /\ txQueueWrite' = (txQueueWrite + 1) % QSIZE
  /\ sent' = sent + 1
  /\ expect' = [l \in Lines |->
       IF op = "write" /\ l \in Range(lines) THEN sent + 1 ELSE expect[l]]

NextIds(n) == (txTransid + n) % MAX_TRANS_ID

Begin(kind, at, todo) ==
  /\ call.at = "idle" /\ calls < MAX_CALLS /\ calls' = calls + 1
  /\ call' = [at |-> at, kind |-> kind, todo |-> todo, ok |-> TRUE, data |-> <<>>]

\* transferPacket up to the wait.
TransferPacket(kind, line) ==
  /\ Begin(kind, "full", <<line>>)
  /\ SendMessage(IF kind = "read" THEN "read" ELSE "write", <<line>>)
  /\ UNCHANGED <<txTransid, pio, dma, txQueueRead, tx, rx, board, handed, stray>>

\* dmaPrepare, for read32 or write32 of all the lines.
DmaPrepare(kind) ==
  /\ Begin(kind, "prepared", All)
  /\ DMACommand' = kind /\ DMAData' = "NULL" /\ DMATransferID' = 0
  /\ DMATransferInProgress' = TRUE
  /\ UNCHANGED <<memBlock, txTransid, pio, ring, txQueueRead, tx, rx, board, handed, stray>>

\* read32: one request for the block.
SendBlock ==
  /\ call.at = "prepared" /\ call.kind = "block"
  /\ DMAData' = "memBlock" /\ memBlock' = <<>>
  /\ txTransid' = NextIds(LINES)
  /\ DMATransferID' = DMATransferID + LINES
  /\ SendMessage("read", All)
  /\ call' = [call EXCEPT !.at = "full", !.todo = <<>>]
  /\ UNCHANGED <<DMATransferInProgress, DMACommand, pio, txQueueRead, tx, rx, board,
                 calls, handed, stray>>

\* dmaTransfer of write32: a message for each line.
DmaTransfer ==
  /\ call.at = "prepared" /\ call.kind = "store"
  /\ SendMessage("write", <<Head(call.todo)>>)
  /\ txTransid' = NextIds(1)
  /\ call' = [call EXCEPT !.at = "full", !.todo = Tail(@)]
  /\ UNCHANGED <<dma, pio, txQueueRead, tx, rx, board, calls, handed, stray>>

\* The end of sendMessage.
MessageSent ==
  /\ call.at = "full" /\ ~Full
  /\ call' = [call EXCEPT !.at =
       IF call.kind = "store" /\ call.todo # <<>> THEN "prepared" ELSE "wait"]
  /\ UNCHANGED <<txTransid, pio, dma, ring, txQueueRead, tx, rx, board, calls, handed, stray>>

\* Mutation: rxMsgAvail is left as it is.
PioReturns_Kept(ok, data) ==
  /\ call' = [call EXCEPT !.at = "idle", !.ok = ok, !.data = data]
  /\ txTransid' = NextIds(1)
  /\ UNCHANGED <<pio, dma, ring, txQueueRead, tx, rx, board, calls, handed>>

\* The end of transferPacket.
PioReturns(ok, data) ==
  /\ call' = [call EXCEPT !.at = "idle", !.ok = ok, !.data = data]
  /\ txTransid' = NextIds(1)
  /\ rxMsgAvail' = FALSE
  /\ UNCHANGED <<rxMsg, dma, ring, txQueueRead, tx, rx, board, calls, handed>>

\* An access that has what it waits for returns.
ReadReturns ==
  /\ call.at = "wait" /\ call.kind = "read" /\ rxMsgAvail
  /\ PioReturns(rxMsg # -1, <<rxMsg>>)
  /\ UNCHANGED stray
WriteReturns ==
  /\ call.at = "wait"
  /\ call.kind = "post" \/ (call.kind = "write" /\ isEmpty)
  /\ PioReturns(TRUE, <<>>)
  /\ UNCHANGED stray

\* dmaComplete.
DmaComplete ==
  /\ call.at = "wait"
  /\ \/ call.kind = "block" /\ DMATransferID = 0
     \/ call.kind = "store" /\ isEmpty
  /\ DMATransferID' = 0 /\ DMATransferInProgress' = FALSE
  /\ call' = [call EXCEPT !.at = "idle", !.data = memBlock]
  /\ memBlock' = <<>>  \* the program's own again
  /\ UNCHANGED <<DMACommand, DMAData, txTransid, pio, ring, txQueueRead, tx, rx, board,
                 calls, handed, stray>>

\* The requests that the tx thread has to hand over.
Waiting == {txQueue[s] : s \in {s \in 0 .. QSIZE - 1 :
  IF txQueueRead <= txQueueWrite THEN txQueueRead <= s /\ s < txQueueWrite
                                 ELSE txQueueRead <= s \/ s < txQueueWrite}}
AnswerToCome == \/ rx.at # "read" \/ answers # <<>>
                \/ \E m \in Waiting \cup Range(wire) : m.op = "read"

\* An access gives up after READ_PACKET_TIMEOUT seconds.
PioTimesOut ==
  /\ call.at = "wait"
  /\ \/ call.kind = "read" /\ ~rxMsgAvail
     \/ call.kind = "write" /\ ~isEmpty
  /\ PioReturns(FALSE, <<>>)
  /\ stray' = (stray \/ AnswerToCome)
\* Mutation: only a block without any answer gives up.
DmaTimesOut_Empty ==
  /\ call.at = "wait" /\ call.kind = "block" /\ DMATransferID = LINES
  /\ DMATransferID' = 0
  /\ call' = [call EXCEPT !.ok = FALSE]
  /\ stray' = (stray \/ AnswerToCome)
  /\ UNCHANGED <<DMATransferInProgress, DMACommand, DMAData, memBlock, txTransid, pio,
                 ring, txQueueRead, tx, rx, board, calls, handed>>

DmaTimesOut ==
  /\ call.at = "wait" /\ call.kind = "block" /\ DMATransferID # 0
  /\ DMATransferID' = 0
  /\ call' = [call EXCEPT !.ok = FALSE]
  /\ stray' = (stray \/ AnswerToCome)
  /\ UNCHANGED <<DMATransferInProgress, DMACommand, DMAData, memBlock, txTransid, pio,
                 ring, txQueueRead, tx, rx, board, calls, handed>>

-----------------------------------------------------------------------------
(***************************************************************************)
(* txThread::run.  The driver takes whole messages, as many as it has room *)
(* for; when there is none, write() returns 0 and the thread tries again.  *)
(***************************************************************************)
TxLook ==
  /\ tx.at = "look" /\ ~isEmpty
  /\ tx' = [at |-> IF txQueueWrite > txQueueRead THEN "one part" ELSE "two parts",
            writeSnapshot |-> txQueueWrite, done |-> 0]
  /\ UNCHANGED <<call, txTransid, pio, dma, ring, txQueueRead, rx, board, calls, handed, stray>>

\* How many messages the part has.
Part == CASE tx.at = "one part"  -> tx.writeSnapshot - txQueueRead
          [] tx.at = "two parts" -> QSIZE - txQueueRead
          [] OTHER               -> tx.writeSnapshot

\* The thread moves one message ahead after the only part, so that all but
\* the first are written again.
Again(ms) == tx.at = "one part" /\ \E i \in DOMAIN ms : i + tx.done > 1 /\ ms[i].op = "read"

TxWrite(n) ==
  LET ms == [i \in 1 .. n |-> txQueue[txQueueRead + tx.done + i - 1]] IN
  /\ tx.at # "look" /\ tx.done + n <= Part /\ Len(wire) + n <= ROOM
  /\ wire' = wire \o ms
  /\ handed' = handed \cup {ms[i].id : i \in 1 .. n}
  /\ stray' = (stray \/ Again(ms))
  /\ tx' = [tx EXCEPT !.done = @ + n]
  /\ UNCHANGED <<call, txTransid, pio, dma, ring, txQueueRead, rx, answers, mem,
                 faults, calls>>

\* Mutation: the second part takes what has come meanwhile for written.
Advanced_Late ==
  CASE tx.at = "one part"  -> (txQueueRead + 1) % QSIZE
    [] tx.at = "two parts" -> 0
    [] OTHER               -> txQueueWrite

Advanced ==
  CASE tx.at = "one part"  -> (txQueueRead + 1) % QSIZE
    [] tx.at = "two parts" -> 0
    [] OTHER               -> tx.writeSnapshot

TxAdvance ==
  /\ tx.at # "look" /\ tx.done = Part
  /\ txQueueRead' = Advanced
  /\ tx' = [tx EXCEPT !.at = IF @ = "two parts" THEN "second part" ELSE "look", !.done = 0]
  /\ UNCHANGED <<call, txTransid, pio, dma, ring, rx, board, calls, handed, stray>>

-----------------------------------------------------------------------------
(***************************************************************************)
(* The board.  A fault: it answers a request in part, or for one of its    *)
(* lines with ABORT_MESH, the value -1 here.                               *)
(***************************************************************************)
Answers(m) == [i \in 1 .. Len(m.lines) |->
                 [tid |-> (m.tid + i - 1) % MAX_TRANS_ID, data |-> mem[m.lines[i]]]]

BoardWrites ==
  /\ wire # <<>> /\ Head(wire).op = "write"
  /\ mem' = [mem EXCEPT ![Head(wire).lines[1]] = Head(wire).id]
  /\ wire' = Tail(wire)
  /\ UNCHANGED <<call, txTransid, pio, dma, ring, txQueueRead, tx, rx, answers, faults,
                 calls, handed, stray>>

BoardAnswers ==
  /\ wire # <<>> /\ Head(wire).op = "read"
  /\ LET whole == Answers(Head(wire)) IN
     \/ /\ answers' = answers \o whole /\ faults' = faults
     \/ /\ faults < MAX_FAULTS /\ faults' = faults + 1
        /\ \/ \E n \in 0 .. Len(whole) - 1 : \E which \in [1 .. n -> 1 .. Len(whole)] :
                /\ \A i, j \in 1 .. n : i < j => which[i] < which[j]
                /\ answers' = answers \o [i \in 1 .. n |-> whole[which[i]]]
           \/ \E i \in 1 .. Len(whole) :
                answers' = answers \o [whole EXCEPT ![i] = [@ EXCEPT !.data = -1]]
  /\ wire' = Tail(wire)
  /\ UNCHANGED <<call, txTransid, pio, dma, ring, txQueueRead, tx, rx, mem, calls, handed, stray>>

-----------------------------------------------------------------------------
(***************************************************************************)
(* receiveMessage, on the rx thread: it looks whose the answer is, and     *)
(* then delivers it.                                                       *)
(***************************************************************************)
RxMatch ==
  /\ rx.at = "read" /\ answers # <<>>
  /\ LET m == Head(answers) IN
     rx' = IF DMATransferInProgress THEN [at |-> "dma", data |-> m.data]
           ELSE IF m.tid = txTransid THEN [at |-> "pio", data |-> m.data]
           ELSE Reading  \* unexpected
  /\ answers' = Tail(answers)
  /\ UNCHANGED <<call, txTransid, pio, dma, ring, txQueueRead, tx, wire, mem, faults,
                 calls, handed, stray>>

RxPio ==
  /\ rx.at = "pio" /\ rx' = Reading
  /\ rxMsg' = rx.data /\ rxMsgAvail' = TRUE
  /\ UNCHANGED <<call, txTransid, dma, ring, txQueueRead, tx, board, calls, handed, stray>>

\* dmaReceive.  A wrong id makes it print an error, no more.
DmaReceive ==
  /\ rx.at = "dma" /\ rx' = Reading
  /\ memBlock' = IF DMAData = "NULL" THEN memBlock ELSE Append(memBlock, rx.data)
  /\ DMATransferID' = IF DMAData = "NULL" /\ DMACommand = "block" THEN DMATransferID
                      ELSE DMATransferID - 1
  /\ UNCHANGED <<DMATransferInProgress, DMACommand, DMAData, call, txTransid, pio, ring,
                 txQueueRead, tx, board, calls, handed, stray>>

-----------------------------------------------------------------------------
Returns == ReadReturns \/ WriteReturns \/ DmaComplete \/ PioTimesOut \/ DmaTimesOut
Program == SendBlock \/ DmaTransfer \/ MessageSent \/ Returns
TxRun   == TxLook \/ TxAdvance \/ \E n \in 1 .. QSIZE : TxWrite(n)
Receive == RxMatch \/ RxPio \/ DmaReceive
Board   == BoardWrites \/ BoardAnswers

Next ==
  \/ \E kind \in {"read", "write", "post"}, line \in Lines : TransferPacket(kind, line)
  \/ \E kind \in {"block", "store"} : DmaPrepare(kind)
  \/ Program \/ TxRun \/ Board \/ Receive

\* The two threads go on while they can.  Nothing is assumed of the board: it may
\* stop to take messages, and then the driver stays full.
Fairness == WF_vars(Program) /\ WF_vars(TxRun)
Spec == Init /\ [][Next]_vars /\ Fairness

-----------------------------------------------------------------------------
Done(kind) == call.at = "idle" /\ call.kind = kind /\ call.ok

(***************************************************************************)
(* A read that returns true, and a read32 that returns the full number of  *)
(* bytes, have the last values written, unless an answer could come that   *)
(* no access waits for: transferPacket's rxMsg and read32's block are      *)
(* filled by another thread.  Of a line that the board aborted read32 has  *)
(* what came in its place (README, Known divergences).                     *)
(***************************************************************************)
ReadsLastWrite ==
  ~stray => /\ Done("read") => call.data = <<expect[call.todo[1]]>>
            /\ Done("block") => /\ Len(call.data) = LINES
                               /\ \A l \in Lines : call.data[l] \in {expect[l], -1}

(***************************************************************************)
(* The tx thread hands over the messages in order and leaves none out; all *)
(* of them, when a write returns true.                                     *)
(***************************************************************************)
WritesHandedOver ==
  /\ handed = 1 .. Cardinality(handed)
  /\ Done("write") \/ Done("store") => Cardinality(handed) = sent

(***************************************************************************)
(* Every access returns (transferPacket, dmaComplete and the wait in       *)
(* sendMessage), whatever the board leaves unanswered, unless the driver   *)
(* stays full for ever.  Even then no access stays at its wait for answers *)
(* or for the empty ring, other than that of dmaComplete for a write.      *)
(***************************************************************************)
EveryCallReturns ==
  /\ []<>(call.at = "idle") \/ <>[](Len(wire) = ROOM)
  /\ []<>~(call.at = "wait" /\ call.kind # "store")

=============================================================================
