----------------------------- MODULE RcceMalloc -----------------------------
(***************************************************************************)
(* The allocator of MPB space in the gory API: RCCE_malloc, RCCE_free and  *)
(* RCCE_malloc_request (src/rcce/src/RCCE_malloc.c), as one UE runs them.  *)
(*                                                                         *)
(* The circular list of blocks is a sequence that ends with the tail.  A   *)
(* block is a record of its space pointer, counted from the start of the   *)
(* managed memory, and its free size: 0, or all of the block.              *)
(***************************************************************************)
EXTENDS Integers, Sequences

CONSTANTS SIZE,       \* bytes managed, a multiple of the line size
          LINE_SIZE,  \* RCCE_LINE_SIZE
          Sizes,      \* the sizes a program asks for
          Requests    \* the sizes a program passes to RCCE_malloc_request

ASSUME HeapAssumption ==
  /\ LINE_SIZE \in Nat /\ LINE_SIZE > 0
  /\ SIZE \in Nat /\ LINE_SIZE <= SIZE /\ SIZE % LINE_SIZE = 0
  /\ Sizes \subseteq Nat /\ Requests \subseteq 0 .. SIZE

VARIABLES blocks,   \* the list, tail last
          chunk,    \* *chunk of a malloc_request under way, or -1
          pieces,   \* history: what has been handed out and not freed
          asked,    \* history: the size of the latest RCCE_malloc,
          answer    \* and what it returned, -1 for NULL

heapVars == <<blocks, chunk, pieces, asked, answer>>

Block(space, free) == [space |-> space, free |-> free]

tail == Len(blocks)   \* RCCE_spacep->tail, as an index

\* Type correctness.  No block and no piece reaches beyond the memory managed.
HeapTypeOK ==
  /\ blocks \in Seq([space : 0 .. SIZE, free : 0 .. SIZE]) /\ blocks # <<>>
  /\ chunk \in -1 .. 2 * SIZE
  /\ pieces \subseteq [addr : 0 .. SIZE, size : 1 .. SIZE]
  /\ asked \in Sizes \cup 0 .. 2 * SIZE /\ answer \in -1 .. SIZE

\* RCCE_malloc_init.
HeapInit == blocks = <<Block(0, SIZE)>> /\ chunk = -1 /\ pieces = {}
            /\ asked = 0 /\ answer = -1

-----------------------------------------------------------------------------
Refused(size) == size = 0 \/ size % LINE_SIZE # 0

\* The block that gives the space: the tail if it can, else the first that can.
Fits(size) == {i \in 1 .. tail : blocks[i].free >= size}
Chosen(size) == IF tail \in Fits(size) THEN tail
                ELSE CHOOSE i \in Fits(size) : \A j \in Fits(size) : i <= j

\* Take size bytes from the front of block i.  What remains is a block of its
\* own; behind the tail there is always one, if need be of size 0.
Taken(i, size) ==
  LET b    == blocks[i]
      used == Block(b.space, 0)
      rest == Block(b.space + size, b.free - size)
  IN  SubSeq(blocks, 1, i - 1)
        \o (IF i = tail \/ b.free > size THEN <<used, rest>> ELSE <<used>>)
        \o SubSeq(blocks, i + 1, tail)

\* RCCE_malloc.
Allocate(size) ==
  /\ asked' = size
  /\ IF Refused(size) \/ Fits(size) = {}
     THEN answer' = -1 /\ UNCHANGED <<blocks, pieces>>
     ELSE LET i == Chosen(size) IN
          /\ blocks' = Taken(i, size)
          /\ answer' = blocks[i].space
          /\ pieces' = pieces \cup {[addr |-> blocks[i].space, size |-> size]}

Malloc(size) == chunk = -1 /\ Allocate(size) /\ UNCHANGED chunk

\* Mutation: the freed block is not merged with the one behind it.
Freed_NotMerged(i) ==
  LET size == blocks[i + 1].space - blocks[i].space
      j1 == i > 1 /\ blocks[i - 1].free > 0
      from == IF j1 THEN i - 1 ELSE i
  IN  SubSeq(blocks, 1, from - 1)
        \o <<Block(blocks[from].space, size + (IF j1 THEN blocks[i - 1].free ELSE 0))>>
        \o SubSeq(blocks, i + 1, tail)

\* The list when block i, not the tail, has been freed: it is merged with a
\* free predecessor (j1) and with a free successor or the tail (j2).
Freed(i) ==
  LET next == blocks[i + 1]
      size == next.space - blocks[i].space
      j1 == i > 1 /\ blocks[i - 1].free > 0
      j2 == next.free > 0 \/ i + 1 = tail
      from == IF j1 THEN i - 1 ELSE i
  IN  SubSeq(blocks, 1, from - 1)
        \o <<Block(blocks[from].space,
                   size + (IF j1 THEN blocks[i - 1].free ELSE 0)
                        + (IF j2 THEN next.free ELSE 0))>>
        \o SubSeq(blocks, IF j2 THEN i + 2 ELSE i + 1, tail)

\* RCCE_free; a pointer that no block starts with is ignored.
Free(ptr) ==
  LET found == {i \in 1 .. tail - 1 : blocks[i].space = ptr} IN
  /\ chunk = -1
  /\ blocks' = IF found = {} THEN blocks
               ELSE Freed(CHOOSE i \in found : \A j \in found : i <= j)
  /\ pieces' = {p \in pieces : p.addr # ptr}
  /\ UNCHANGED <<chunk, asked, answer>>

\* PAD32byte; a line has 32 bytes.
Padded(n) == IF n % LINE_SIZE = 0 THEN n ELSE (n + LINE_SIZE) - (n % LINE_SIZE)

\* RCCE_malloc_request begins; asked for nothing it returns at once.
Request(size) ==
  /\ chunk = -1 /\ Padded(size) >= LINE_SIZE
  /\ chunk' = Padded(size)
  /\ UNCHANGED <<blocks, pieces, asked, answer>>

\* One pass of its loop: half the size is tried next.  When not even a line is
\* free, half a line is padded to a line again and the loop never ends.
Try ==
  /\ chunk >= LINE_SIZE
  /\ Allocate(chunk)
  /\ chunk' = IF answer' # -1 THEN -1 ELSE Padded(chunk \div 2)

-----------------------------------------------------------------------------
\* What a program does that frees only the pointers ptrs.
Calls(ptrs) == \/ \E size \in Sizes : Malloc(size)
               \/ \E ptr \in ptrs : Free(ptr)
               \/ \E size \in Requests : Request(size)
               \/ Try

HeapNext == Calls(0 .. SIZE)

HeapSpec == HeapInit /\ [][HeapNext]_heapVars

-----------------------------------------------------------------------------
\* The blocks partition the memory; each is used by exactly one piece or is
\* entirely free; and of two neighbours at most one is free, so that free space
\* is never kept apart (the merging of RCCE_free, of which the tail is a case).
Extent(i) == (IF i = tail THEN SIZE ELSE blocks[i + 1].space) - blocks[i].space

BlocksTile ==
  /\ blocks[1].space = 0
  /\ \A i \in 1 .. tail - 1 : Extent(i) > 0 /\ blocks[i].free \in {0, Extent(i)}
  /\ blocks[tail].free = Extent(tail)
  /\ \A i \in 1 .. tail - 1 : blocks[i].free > 0 => blocks[i + 1].free = 0 /\ i + 1 # tail
  /\ pieces = {[addr |-> blocks[i].space, size |-> Extent(i)]
                 : i \in {k \in 1 .. tail - 1 : blocks[k].free = 0}}

\* RCCE_malloc and RCCE_free implement the abstract heap: nothing overlaps what
\* is still in use, and NULL is returned only when no gap is large enough,
\* whatever the history of allocations and frees (also of wrong pointers).
Heap == INSTANCE MpbHeap WITH Space <- SIZE, Line <- LINE_SIZE,
                                  Sizes <- Sizes \cup 0 .. 2 * SIZE
ImplementsHeap == Heap!Spec
=============================================================================
