---------------------------- MODULE RcceSendRecv ----------------------------
(***************************************************************************)
(* Synchronous message passing: RCCE_send, RCCE_recv and RCCE_recv_test    *)
(* (src/rcce/src/RCCE_send.c, RCCE_recv.c) between any number of UEs.      *)
(*                                                                         *)
(* A message is cut into pieces: full chunks, then the remaining whole     *)
(* cache lines, then one padded line.  For each piece the sender copies    *)
(* the data into its own MPB buffer, sets its sent flag in the receiver's  *)
(* MPB and waits for the receiver's ready flag in its own MPB; the         *)
(* receiver waits for the sent flag, clears it, copies the data out of the *)
(* sender's MPB and sets the ready flag there.  There is one buffer per    *)
(* UE, shared by all its destinations, and one pair of flags per ordered   *)
(* pair of UEs.                                                            *)
(*                                                                         *)
(* The contents of a piece are abstracted to its destination and its       *)
(* number on the channel; a copy takes two steps, and number 0 stands for  *)
(* contents that are only partly written, or changed while being read.     *)
(*                                                                         *)
(* UEs call send, recv and recv_test in any order and on any peer but      *)
(* themselves; the two ends of a channel agree on the size of a message.   *)
(***************************************************************************)
EXTENDS Naturals

CONSTANTS UE,         \* the UEs
          LINE_SIZE,  \* RCCE_LINE_SIZE
          CHUNK,      \* RCCE_chunk, a multiple of the line size
          MsgSize,    \* MsgSize[s][d]: size of the messages from s to d
          GORY,       \* TRUE for the gory API
          MaxCalls    \* bound on the calls of one UE (model bound)

ASSUME SendRecvAssumption ==
  /\ LINE_SIZE \in Nat \ {0}
  /\ CHUNK \in Nat \ {0}
  /\ MsgSize \in [UE -> [UE -> Nat]]
  /\ GORY \in BOOLEAN
  /\ MaxCalls \in Nat

Channels == {c \in UE \X UE : c[1] # c[2]}

\* The number of pieces of a message: the three sections of send_general.
NumPieces(size) ==
  LET remainder == size % CHUNK
  IN  (size \div CHUNK)
      + (IF remainder >= LINE_SIZE THEN 1 ELSE 0)
      + (IF remainder % LINE_SIZE # 0 THEN 1 ELSE 0)

VARIABLES sent,     \* sent[d][s]: RCCE_sent_flag[s] in d's MPB
          ready,    \* ready[s][d]: RCCE_ready_flag[d] in s's MPB
          combuf,   \* combuf[s]: the payload buffer in s's MPB
          pc,       \* pc[u]: where u is
          call,     \* call[u]: the current or latest call of u
          peer,     \* peer[u]: its dest or source
          test,     \* test[u]: *test of a receive
          done,     \* done[u]: pieces this call has sent or received
          copy,     \* copy[u]: what a receiver has begun to copy
          calls,    \* calls[u]: number of calls made (for MaxCalls)
          put, got, \* history: pieces put by s for d, got by d from s
          last      \* history: last[d][s]: the latest piece d got from s

flags == <<sent, ready>>
local == <<call, peer, test, calls>>
vars  == <<flags, combuf, pc, local, done, copy, put, got, last>>

SendPcs == {"put", "flag", "waitready", "clearready"}
RecvPcs == {"probe", "waitsent", "clearsent", "get", "getend", "flagready"}
Piece   == UE \X Nat

TypeOK ==
  /\ sent  \in [UE -> [UE -> {0, 1}]]
  /\ ready \in [UE -> [UE -> {0, 1}]]
  /\ combuf \in [UE -> Piece]
  /\ pc \in [UE -> {"idle"} \cup SendPcs \cup RecvPcs]
  /\ call \in [UE -> {"none", "send", "recv", "test"}]
  /\ peer \in [UE -> UE]
  /\ test \in [UE -> BOOLEAN]
  /\ done \in [UE -> Nat]
  /\ copy \in [UE -> Piece]
  /\ calls \in [UE -> 0 .. MaxCalls]
  /\ put \in [UE -> [UE -> Nat]]
  /\ got \in [UE -> [UE -> Nat]]
  /\ last \in [UE -> [UE -> Piece]]
  /\ \A u \in UE : /\ pc[u] \in SendPcs => call[u] = "send" /\ peer[u] # u
                   /\ pc[u] \in RecvPcs => call[u] \in {"recv", "test"} /\ peer[u] # u

Init ==
  /\ sent   = [u \in UE |-> [v \in UE |-> 0]]
  /\ ready  = [u \in UE |-> [v \in UE |-> 0]]
  /\ combuf = [u \in UE |-> <<u, 0>>]
  /\ pc     = [u \in UE |-> "idle"]
  /\ call   = [u \in UE |-> "none"]
  /\ peer   = [u \in UE |-> u]
  /\ test   = [u \in UE |-> FALSE]
  /\ done   = [u \in UE |-> 0]
  /\ copy   = [u \in UE |-> <<u, 0>>]
  /\ calls  = [u \in UE |-> 0]
  /\ put    = [u \in UE |-> [v \in UE |-> 0]]
  /\ got    = [u \in UE |-> [v \in UE |-> 0]]
  /\ last   = [u \in UE |-> [v \in UE |-> <<u, 0>>]]

\* The pieces of the call u is in.
Pieces(u) ==
  NumPieces(IF call[u] = "send" THEN MsgSize[u][peer[u]] ELSE MsgSize[peer[u]][u])

-----------------------------------------------------------------------------
(***************************************************************************)
(* RCCE_send                                                               *)
(***************************************************************************)
SendCall(u, d) ==
  /\ pc[u] = "idle" /\ d # u /\ calls[u] < MaxCalls
  /\ call'  = [call EXCEPT ![u] = "send"]
  /\ peer'  = [peer EXCEPT ![u] = d]
  /\ calls' = [calls EXCEPT ![u] = @ + 1]
  /\ done'  = [done EXCEPT ![u] = 0]
  /\ pc'    = [pc EXCEPT ![u] = IF NumPieces(MsgSize[u][d]) = 0 THEN "idle" ELSE "put"]
  /\ combuf' = IF NumPieces(MsgSize[u][d]) = 0 THEN combuf
               ELSE [combuf EXCEPT ![u] = <<d, 0>>]
  /\ UNCHANGED <<flags, test, copy, put, got, last>>

\* RCCE_put(combuf, ...) has copied the whole piece.
PutEnd(u) ==
  /\ pc[u] = "put"
  /\ combuf' = [combuf EXCEPT ![u] = <<peer[u], put[u][peer[u]] + 1>>]
  /\ put' = [put EXCEPT ![u][peer[u]] = @ + 1]
  /\ pc'  = [pc EXCEPT ![u] = "flag"]
  /\ UNCHANGED <<flags, local, done, copy, got, last>>

\* RCCE_flag_write(sent, RCCE_FLAG_SET, dest).
SetSent(u) ==
  /\ pc[u] = "flag"
  /\ sent' = [sent EXCEPT ![peer[u]][u] = 1]
  /\ pc'   = [pc EXCEPT ![u] = "waitready"]
  /\ UNCHANGED <<ready, combuf, local, done, copy, put, got, last>>

\* Mutation: the sender does not wait for the receiver.
WaitReady_NoWait(u) ==
  /\ pc[u] = "waitready"
  /\ pc' = [pc EXCEPT ![u] = "clearready"]
  /\ UNCHANGED <<flags, combuf, local, done, copy, put, got, last>>

\* RCCE_wait_until(*ready, RCCE_FLAG_SET) returns.
WaitReady(u) ==
  /\ pc[u] = "waitready"
  /\ ready[u][peer[u]] = 1
  /\ pc' = [pc EXCEPT ![u] = "clearready"]
  /\ UNCHANGED <<flags, combuf, local, done, copy, put, got, last>>

\* Mutation: the ready flag is not reset.
ClearReady_NotCleared(u) ==
  /\ pc[u] = "clearready"
  /\ done' = [done EXCEPT ![u] = @ + 1]
  /\ IF done[u] + 1 < Pieces(u)
     THEN pc' = [pc EXCEPT ![u] = "put"] /\ combuf' = [combuf EXCEPT ![u] = <<peer[u], 0>>]
     ELSE pc' = [pc EXCEPT ![u] = "idle"] /\ combuf' = combuf
  /\ UNCHANGED <<flags, local, copy, put, got, last>>

\* RCCE_flag_write(ready, RCCE_FLAG_UNSET, RCCE_IAM), and the next piece.
ClearReady(u) ==
  /\ pc[u] = "clearready"
  /\ ready' = [ready EXCEPT ![u][peer[u]] = 0]
  /\ done'  = [done EXCEPT ![u] = @ + 1]
  /\ IF done[u] + 1 < Pieces(u)
     THEN pc' = [pc EXCEPT ![u] = "put"] /\ combuf' = [combuf EXCEPT ![u] = <<peer[u], 0>>]
     ELSE pc' = [pc EXCEPT ![u] = "idle"] /\ combuf' = combuf
  /\ UNCHANGED <<sent, local, copy, put, got, last>>

-----------------------------------------------------------------------------
(***************************************************************************)
(* RCCE_recv and RCCE_recv_test                                            *)
(***************************************************************************)

\* *test upon entry: set by recv_test, cleared by recv; the gory recv leaves
\* it uninitialised.
TestOnEntry(kind) ==
  IF kind = "test" THEN {TRUE} ELSE IF GORY THEN BOOLEAN ELSE {FALSE}

RecvCall(u, s, kind) ==
  /\ pc[u] = "idle" /\ s # u /\ calls[u] < MaxCalls
  /\ call'  = [call EXCEPT ![u] = kind]
  /\ peer'  = [peer EXCEPT ![u] = s]
  /\ calls' = [calls EXCEPT ![u] = @ + 1]
  /\ done'  = [done EXCEPT ![u] = 0]
  /\ \E t \in TestOnEntry(kind) :
       /\ test' = [test EXCEPT ![u] = t]
       /\ pc' = [pc EXCEPT ![u] = IF NumPieces(MsgSize[s][u]) = 0 THEN "idle"
                                  ELSE IF t THEN "probe" ELSE "waitsent"]
  /\ UNCHANGED <<flags, combuf, copy, put, got, last>>

\* Only the first piece is tested: *test = RCCE_probe(*sent).
Probe(u) ==
  /\ pc[u] = "probe"
  /\ test' = [test EXCEPT ![u] = (sent[u][peer[u]] = 1)]
  /\ pc'   = [pc EXCEPT ![u] = IF sent[u][peer[u]] = 1 THEN "waitsent" ELSE "idle"]
  /\ UNCHANGED <<flags, combuf, call, peer, calls, done, copy, put, got, last>>

WaitSent(u) ==
  /\ pc[u] = "waitsent"
  /\ sent[u][peer[u]] = 1
  /\ pc' = [pc EXCEPT ![u] = "clearsent"]
  /\ UNCHANGED <<flags, combuf, local, done, copy, put, got, last>>

\* RCCE_flag_write(sent, RCCE_FLAG_UNSET, RCCE_IAM).
ClearSent(u) ==
  /\ pc[u] = "clearsent"
  /\ sent' = [sent EXCEPT ![u][peer[u]] = 0]
  /\ pc'   = [pc EXCEPT ![u] = "get"]
  /\ UNCHANGED <<ready, combuf, local, done, copy, put, got, last>>

\* RCCE_get(privbuf, combuf, nbytes, source) begins, and ends.
GetBegin(u) ==
  /\ pc[u] = "get"
  /\ copy' = [copy EXCEPT ![u] = combuf[peer[u]]]
  /\ pc'   = [pc EXCEPT ![u] = "getend"]
  /\ UNCHANGED <<flags, combuf, local, done, put, got, last>>

GetEnd(u) ==
  /\ pc[u] = "getend"
  /\ last' = [last EXCEPT ![u][peer[u]] =
                IF copy[u] = combuf[peer[u]] THEN copy[u] ELSE <<u, 0>>]
  /\ got'  = [got EXCEPT ![u][peer[u]] = @ + 1]
  /\ pc'   = [pc EXCEPT ![u] = "flagready"]
  /\ UNCHANGED <<flags, combuf, local, done, copy, put>>

\* Mutation: every piece is tested, not only the first.
SetReady_TestsAgain(u) ==
  /\ pc[u] = "flagready"
  /\ ready' = [ready EXCEPT ![peer[u]][u] = 1]
  /\ done'  = [done EXCEPT ![u] = @ + 1]
  /\ pc' = [pc EXCEPT ![u] = IF done[u] + 1 >= Pieces(u) THEN "idle"
                             ELSE IF test[u] THEN "probe" ELSE "waitsent"]
  /\ UNCHANGED <<sent, combuf, local, copy, put, got, last>>

\* Mutation: the ready flag is set in the receiver's own MPB.
SetReady_OwnFlag(u) ==
  /\ pc[u] = "flagready"
  /\ ready' = [ready EXCEPT ![u][peer[u]] = 1]
  /\ done'  = [done EXCEPT ![u] = @ + 1]
  /\ pc' = [pc EXCEPT ![u] = IF done[u] + 1 < Pieces(u) THEN "waitsent" ELSE "idle"]
  /\ UNCHANGED <<sent, combuf, local, copy, put, got, last>>

\* RCCE_flag_write(ready, RCCE_FLAG_SET, source), and the next piece, which
\* is waited for even in test mode.
SetReady(u) ==
  /\ pc[u] = "flagready"
  /\ ready' = [ready EXCEPT ![peer[u]][u] = 1]
  /\ done'  = [done EXCEPT ![u] = @ + 1]
  /\ pc' = [pc EXCEPT ![u] = IF done[u] + 1 < Pieces(u) THEN "waitsent" ELSE "idle"]
  /\ UNCHANGED <<sent, combuf, local, copy, put, got, last>>

-----------------------------------------------------------------------------
SendStep(u) == PutEnd(u) \/ SetSent(u) \/ WaitReady(u) \/ ClearReady(u)

RecvStep(u) == \/ Probe(u) \/ WaitSent(u) \/ ClearSent(u)
               \/ GetBegin(u) \/ GetEnd(u) \/ SetReady(u)

Calls(u) == \E v \in UE : \/ SendCall(u, v)
                          \/ RecvCall(u, v, "recv")
                          \/ RecvCall(u, v, "test")

Next == \E u \in UE : Calls(u) \/ SendStep(u) \/ RecvStep(u)

Spec == Init /\ [][Next]_vars

\* A UE inside a call keeps executing it.
FairSpec == Spec /\ \A u \in UE : WF_vars(SendStep(u) \/ RecvStep(u))

-----------------------------------------------------------------------------
(***************************************************************************)
(* Properties                                                              *)
(***************************************************************************)

\* Every piece a UE receives from a peer is the next one the peer has sent
\* to it, whole: none is lost, repeated, overtaken, overwritten while it is
\* copied, or meant for somebody else, although all destinations share the
\* sender's buffer.
PiecesIntact ==
  \A c \in Channels :
     LET s == c[1]  d == c[2] IN
     got[d][s] > 0 => last[d][s] = <<d, got[d][s]>>

\* RCCE_send is synchronous: when it returns, everything it sent has been
\* received.
SendIsSynchronous ==
  \A c \in Channels : pc[c[1]] = "idle" => got[c[2]][c[1]] = put[c[1]][c[2]]

\* A send or a receive that returns has moved its whole message; a tested
\* receive has moved all of it or, when it answers 0, nothing.
CallsAreWhole ==
  \A u \in UE :
     pc[u] = "idle" /\ call[u] # "none" =>
       done[u] = IF call[u] = "test" /\ ~test[u] THEN 0 ELSE Pieces(u)

\* The payload buffer is not touched before everything put in it has been
\* taken out by the UE it is for.
BufferNotReusedEarly ==
  [][\A c \in Channels :
       combuf'[c[1]] # combuf[c[1]] => got[c[2]][c[1]] = put[c[1]][c[2]]]_vars

\* s is in a send to d; d is in a receive from s.
Sending(s, d)   == pc[s] \in SendPcs /\ peer[s] = d
Receiving(d, s) == pc[d] \in RecvPcs /\ peer[d] = s

\* The stages of a piece on the channel from s to d, with the flags and the
\* places of the two ends in each.
SendPc(s, d) == IF Sending(s, d) THEN pc[s] ELSE "idle"
RecvPc(d, s) == IF Receiving(d, s) THEN pc[d] ELSE "idle"

NotTaking == {"idle", "probe", "waitsent"}

Resting(s, d) ==
  /\ put[s][d] = got[d][s] /\ sent[d][s] = 0 /\ ready[s][d] = 0
  /\ SendPc(s, d) \in {"idle", "put"} /\ RecvPc(d, s) \in NotTaking

InBuffer(s, d) ==
  /\ put[s][d] = got[d][s] + 1 /\ sent[d][s] = 0 /\ ready[s][d] = 0
  /\ SendPc(s, d) = "flag" /\ RecvPc(d, s) \in NotTaking
  /\ combuf[s] = <<d, put[s][d]>>

Announced(s, d) ==
  /\ put[s][d] = got[d][s] + 1 /\ sent[d][s] = 1 /\ ready[s][d] = 0
  /\ SendPc(s, d) = "waitready" /\ RecvPc(d, s) \in NotTaking \cup {"clearsent"}
  /\ combuf[s] = <<d, put[s][d]>>

BeingTaken(s, d) ==
  /\ put[s][d] = got[d][s] + 1 /\ sent[d][s] = 0 /\ ready[s][d] = 0
  /\ SendPc(s, d) = "waitready" /\ RecvPc(d, s) \in {"get", "getend"}
  /\ combuf[s] = <<d, put[s][d]>>
  /\ RecvPc(d, s) = "getend" => copy[d] = combuf[s]

Taken(s, d) ==
  /\ put[s][d] = got[d][s] /\ sent[d][s] = 0 /\ ready[s][d] = 0
  /\ SendPc(s, d) = "waitready" /\ RecvPc(d, s) = "flagready"

Acknowledged(s, d) ==
  /\ put[s][d] = got[d][s] /\ sent[d][s] = 0 /\ ready[s][d] = 1
  /\ SendPc(s, d) \in {"waitready", "clearready"} /\ RecvPc(d, s) \in NotTaking

Handshake(s, d) ==
  \/ Resting(s, d) \/ InBuffer(s, d) \/ Announced(s, d)
  \/ BeingTaken(s, d) \/ Taken(s, d) \/ Acknowledged(s, d)

\* Why the protocol works: on every channel the two flags, the two ends and
\* the buffer are always in one of the six stages of a piece, and nothing
\* that happens on another channel disturbs them.  Inductive, with
\* PiecesIntact and the type invariant.
HandshakeInv == \A c \in Channels : Handshake(c[1], c[2])

\* A sender whose receiver has committed to a receive from it finishes its
\* send.
CommittedSendsFinish ==
  \A c \in Channels :
     (Sending(c[1], c[2]) /\ Receiving(c[2], c[1]) /\ pc[c[2]] # "probe")
        ~> pc[c[1]] = "idle"
=============================================================================
