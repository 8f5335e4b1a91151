------------------------------- MODULE MpbHeap -------------------------------
(***************************************************************************)
(* What RCCE_malloc and RCCE_free promise: the pieces of the MPB space     *)
(* that are handed out never overlap, and a request is refused only when   *)
(* no gap between them is large enough for it.                             *)
(***************************************************************************)
EXTENDS Integers

CONSTANTS Space,   \* number of bytes managed
          Line,    \* bytes of a cache line
          Sizes    \* the sizes that can be asked for

VARIABLES pieces,  \* the pieces handed out: [addr, size]
          asked,   \* the size the latest allocation asked for
          answer   \* and its outcome: an address, or -1

Overlap(p, q) == p.addr < q.addr + q.size /\ q.addr < p.addr + p.size

Gap(a, size) == /\ size > 0 /\ size % Line = 0 /\ a + size <= Space
                /\ \A p \in pieces : ~Overlap(p, [addr |-> a, size |-> size])

Addresses == {a \in 0 .. Space : a % Line = 0}

Init == pieces = {} /\ asked = 0 /\ answer = -1

Malloc(size) ==
  /\ asked' = size
  /\ \/ /\ \A a \in Addresses : ~Gap(a, size)
        /\ answer' = -1 /\ UNCHANGED pieces
     \/ \E a \in Addresses :
          /\ Gap(a, size)
          /\ pieces' = pieces \cup {[addr |-> a, size |-> size]}
          /\ answer' = a

Free(ptr) == pieces' = {p \in pieces : p.addr # ptr} /\ UNCHANGED <<asked, answer>>

Next == \/ \E size \in Sizes : Malloc(size)
        \/ \E ptr \in 0 .. Space : Free(ptr)

Spec == Init /\ [][Next]_<<pieces, asked, answer>>
=============================================================================
