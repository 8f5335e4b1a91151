--------------------------- MODULE RcceCollectives ---------------------------
(***************************************************************************)
(* RCCE_bcast, RCCE_reduce and RCCE_allreduce (src/rcce/src/RCCE_bcast.c,  *)
(* RCCE_reduce.c): trees of depth one over RCCE_send and RCCE_recv.        *)
(*                                                                         *)
(* A send is what RcceSendRecv shows it to be: it hands one message to its *)
(* receiver and returns when that has it.  What a buffer contains is kept  *)
(* symbolically, as the sequence of the contributions that were combined   *)
(* in it, so that the order of operands shows (it matters for floats).     *)
(***************************************************************************)
EXTENDS Naturals, Sequences, SequencesExt

CONSTANTS UE,        \* the units of execution
          Programs   \* what the UEs may run together: sequences of calls

\* A call is [kind, comm, root, buf]: comm is the sequence of members, root a
\* rank in it, buf the buffer that is broadcast.
Kinds == {"bcast", "reduce", "allreduce"}
Buffers == {"in", "out"}

VARIABLES program,  \* the calls, the same for all UEs
          call,     \* call[u]: the call that u is in, or is to make next
          pos,      \* pos[u]: the next step of its script
          sent,     \* u waits for its message to be taken
          channel,  \* channel[u]: the message of u, and for whom
          mem,      \* mem[u]: the buffers of u
          entry, exit  \* history: the buffers before and after each call

vars == <<program, call, pos, sent, channel, mem, entry, exit>>

\* The UE whose rank in the communicator is root.
Root(c) == c.comm[c.root + 1]

\* Mutation: the member behind the root is left out.
Others_SkipsNext(c) == SelectSeq(c.comm, LAMBDA u : u # Root(c) /\ u # Root(c) + 1)

Others(c) == SelectSeq(c.comm, LAMBDA u : u # Root(c))

Send(b, peer)  == [op |-> "send", buf |-> b, peer |-> peer]
Recv(b, peer)  == [op |-> "recv", buf |-> b, peer |-> peer]
Combine(peer)  == [op |-> "combine", buf |-> "in", peer |-> peer]
Copy           == [op |-> "copy", buf |-> "out", peer |-> 0]

SendAll(b, c) == [i \in 1 .. Len(Others(c)) |-> Send(b, Others(c)[i])]

\* RCCE_bcast.
Bcast(c, u) == IF u = Root(c) THEN SendAll(c.buf, c) ELSE <<Recv(c.buf, Root(c))>>

\* Mutation: the root copies its source when it has combined the others.
ReduceGeneral_CopyLast(c, u) ==
  LET all == c.kind = "allreduce" IN
  IF u # Root(c)
  THEN <<Send("in", Root(c))>> \o (IF all THEN <<Recv("out", Root(c))>> ELSE <<>>)
  ELSE [i \in 1 .. Len(Others(c)) |-> Combine(Others(c)[i])] \o <<Copy>>
         \o (IF all THEN SendAll("out", c) ELSE <<>>)

\* RCCE_reduce_general.
ReduceGeneral(c, u) ==
  LET all == c.kind = "allreduce" IN
  IF u # Root(c)
  THEN <<Send("in", Root(c))>> \o (IF all THEN <<Recv("out", Root(c))>> ELSE <<>>)
  ELSE <<Copy>> \o [i \in 1 .. Len(Others(c)) |-> Combine(Others(c)[i])]
         \o (IF all THEN SendAll("out", c) ELSE <<>>)

\* What u does in call c: nothing if the root is no member (an error for all).
Script(c, u) ==
  IF c.root >= Len(c.comm) \/ u \notin ToSet(c.comm) THEN <<>>
  ELSE IF c.kind = "bcast" THEN Bcast(c, u) ELSE ReduceGeneral(c, u)

None == [to |-> {}, data |-> <<>>]

InCall(u) == call[u] <= Len(program)
Now(u)    == program[call[u]]
Busy(u)   == InCall(u) /\ pos[u] <= Len(Script(Now(u), u))
Step(u)   == Script(Now(u), u)[pos[u]]

Init ==
  /\ program \in Programs
  /\ call = [u \in UE |-> 1] /\ pos = [u \in UE |-> 1]
  /\ sent = [u \in UE |-> FALSE] /\ channel = [u \in UE |-> None]
  /\ mem = [u \in UE |-> [b \in Buffers |-> IF b = "in" THEN <<u>> ELSE <<>>]]
  /\ entry = [u \in UE |-> <<mem[u]>>] /\ exit = [u \in UE |-> <<>>]

-----------------------------------------------------------------------------
Advance(u) == pos' = [pos EXCEPT ![u] = @ + 1]
History    == UNCHANGED <<program, call, entry, exit>>

\* memcpy(outbuf, inbuf).
CopyStep(u) ==
  /\ Busy(u) /\ Step(u).op = "copy"
  /\ mem' = [mem EXCEPT ![u]["out"] = mem[u]["in"]]
  /\ Advance(u) /\ History /\ UNCHANGED <<sent, channel>>

\* RCCE_send makes its message available ...
SendBegin(u) ==
  /\ Busy(u) /\ Step(u).op = "send" /\ ~sent[u]
  /\ channel' = [channel EXCEPT ![u] = [to |-> {Step(u).peer}, data |-> mem[u][Step(u).buf]]]
  /\ sent' = [sent EXCEPT ![u] = TRUE]
  /\ History /\ UNCHANGED <<pos, mem>>

\* ... and returns when it has been taken.
SendEnd(u) ==
  /\ sent[u] /\ channel[u] = None
  /\ sent' = [sent EXCEPT ![u] = FALSE]
  /\ Advance(u) /\ History /\ UNCHANGED <<channel, mem>>

\* RCCE_recv, and in a reduction the loop that combines the received buffer.
RecvStep(u) ==
  /\ Busy(u) /\ Step(u).op \in {"recv", "combine"}
  /\ LET from == Step(u).peer  data == channel[from].data IN
     /\ channel[from].to = {u}
     /\ channel' = [channel EXCEPT ![from] = None]
     /\ mem' = [mem EXCEPT ![u] =
          IF Step(u).op = "recv" THEN [@ EXCEPT ![Step(u).buf] = data]
          ELSE [in |-> data, out |-> @["out"] \o data]]
  /\ Advance(u) /\ History /\ UNCHANGED sent

\* The call returns and the next one is made.
Return(u) ==
  /\ InCall(u) /\ ~Busy(u)
  /\ exit' = [exit EXCEPT ![u] = Append(@, mem[u])]
  /\ entry' = [entry EXCEPT ![u] = Append(@, mem[u])]
  /\ call' = [call EXCEPT ![u] = @ + 1]
  /\ pos' = [pos EXCEPT ![u] = 1]
  /\ UNCHANGED <<program, sent, channel, mem>>

-----------------------------------------------------------------------------
Act(u) == CopyStep(u) \/ SendBegin(u) \/ SendEnd(u) \/ RecvStep(u) \/ Return(u)

Next == \E u \in UE : Act(u)

Spec == Init /\ [][Next]_vars

\* Every UE goes on.
FairSpec == Spec /\ \A u \in UE : WF_vars(Act(u))

-----------------------------------------------------------------------------
(***************************************************************************)
(* Properties                                                              *)
(***************************************************************************)

\* The reduction of the source buffers as the members entered call k: that of
\* the root first, then the others by rank.
Reduced(c, k) ==
  FlattenSeq([i \in 1 .. Len(c.comm) |-> entry[(<<Root(c)>> \o Others(c))[i]][k]["in"]])

\* What a completed call has left in the buffers of u.
Delivered(c, k, u) ==
  LET before == entry[u][k]  after == exit[u][k] IN
  IF Script(c, u) = <<>> THEN after = before
  ELSE CASE c.kind = "bcast" ->
              after = [before EXCEPT ![c.buf] = entry[Root(c)][k][c.buf]]
         [] c.kind = "reduce" ->
              after["out"] = IF u = Root(c) THEN Reduced(c, k) ELSE before["out"]
         [] c.kind = "allreduce" -> after["out"] = Reduced(c, k)

\* Every collective delivers to each member what was contributed to this very
\* call, in one order for all, although members enter and leave calls at
\* different times, roots change and communicators overlap.
ResultsCorrect ==
  \A u \in UE : \A k \in 1 .. Len(exit[u]) : Delivered(program[k], k, u)

\* No sequence of collectives deadlocks, and every call returns.
ProgramsEnd == <>(\A u \in UE : ~InCall(u))
=============================================================================
