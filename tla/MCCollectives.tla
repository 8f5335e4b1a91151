---------------------------- MODULE MCCollectives ----------------------------
(***************************************************************************)
(* RcceCollectives with all programs of two calls, and a final reduction   *)
(* over all UEs, on all of three UEs and on two of them.                   *)
(***************************************************************************)
EXTENDS RcceCollectives

Comms == {<<0, 1, 2>>, <<1, 2>>}
Calls == [kind : Kinds, comm : Comms, root : {0, 1}, buf : {"in"}]
Final  == [kind |-> "allreduce", comm |-> <<0, 1, 2>>, root |-> 0, buf |-> "in"]
Wrong == [kind |-> "reduce", comm |-> <<1, 2>>, root |-> 2, buf |-> "in"]

\* RCCE_allreduce has its root at rank 0; only RCCE_bcast chooses a buffer.
Legal(c) == c.kind = "allreduce" => c.root = 0

TwoCalls == {<<c, d, Final>> : c \in {e \in Calls : Legal(e)}, d \in {e \in Calls : Legal(e)}}

ByHand == <<[Final EXCEPT !.kind = "reduce", !.root = 2], Wrong,
            [Final EXCEPT !.kind = "bcast", !.root = 2, !.buf = "out"]>>

AllPrograms == TwoCalls \cup {ByHand}
=============================================================================
