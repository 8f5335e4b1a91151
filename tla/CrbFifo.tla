------------------------------- MODULE CrbFifo -------------------------------
(***************************************************************************)
(* The ring buffers between the driver's threads, struct dma_fifo with     *)
(* crbif_fifo_read and crbif_fifo_write (src/mcpc_driver/crbif_main.c).    *)
(*                                                                         *)
(* Each of them works in two steps: it copies, and when the end of the     *)
(* buffer is passed sets the pointer to 0; then, under the lock, it        *)
(* changes the level and moves the pointer by what the last copy took.  A  *)
(* transfer is what it keeps in between: n units, last of them in the last *)
(* copy.                                                                   *)
(***************************************************************************)
EXTENDS Integers

CONSTANT BUFFER   \* dmaBufferSize

None == <<"none", 0, 0>>   \* what memory holds before it is written

Cleared(fifo) == [fifo EXCEPT !.read = 0, !.write = 0, !.level = 0]
Empty == [data |-> [i \in 0 .. BUFFER - 1 |-> None], read |-> 0, write |-> 0, level |-> 0]

Idle == [n |-> 0, last |-> 0]

\* How many units the last copy of n units from position p on takes,
LastCopy(p, n) == IF n <= BUFFER - p THEN n ELSE n - (BUFFER - p)
Transfer(p, n) == [n |-> n, last |-> LastCopy(p, n)]
\* the pointer after the copies,
Wrapped(p, n) == IF n <= BUFFER - p THEN p ELSE 0
\* and after the step under the lock.
Moved(p, t) == IF t.last # t.n THEN t.last ELSE p + t.last

\* crbif_fifo_read: the n units read, the fifo after the copies,
Contents(fifo, n) == [i \in 1 .. n |-> fifo.data[(fifo.read + i - 1) % BUFFER]]
ReadCopied(fifo, n) == [fifo EXCEPT !.read = Wrapped(@, n)]

\* Mutation: the pointer moves by the whole size although it has wrapped.
ReadDone_Whole(fifo, t) == [fifo EXCEPT !.level = @ - t.n, !.read = @ + t.n]

\* and when the level has been lowered.
ReadDone(fifo, t) == [fifo EXCEPT !.level = @ - t.n, !.read = Moved(@, t)]

\* crbif_fifo_write of a sequence of n units: the same two steps.
WriteCopied(fifo, units, n) ==
  LET at(q) == IF q >= fifo.write THEN q - fifo.write ELSE q + BUFFER - fifo.write
  IN  [fifo EXCEPT !.data = [q \in 0 .. BUFFER - 1 |->
                               IF at(q) < n THEN units[at(q) + 1] ELSE @[q]],
                   !.write = Wrapped(@, n)]
WriteDone(fifo, t) == [fifo EXCEPT !.level = @ + t.n, !.write = Moved(@, t)]

-----------------------------------------------------------------------------
\* A fifo with a write w and a read r under way (Idle if there is none): the
\* level is what lies between the pointers, neither end passes the other, and
\* the transfers have the room and the units they were started for.
Before(p, t) == IF t.last # t.n THEN t.last - t.n ELSE p   \* where t began, less a round

Sound(fifo, w, r) ==
  /\ fifo.read \in 0 .. BUFFER /\ fifo.write \in 0 .. BUFFER
  /\ fifo.level \in 0 .. BUFFER
  /\ r.n <= fifo.level /\ w.n <= BUFFER - fifo.level
  /\ Before(fifo.write, w) - Before(fifo.read, r) - fifo.level
       \in {k * BUFFER : k \in -3 .. 2}
=============================================================================
