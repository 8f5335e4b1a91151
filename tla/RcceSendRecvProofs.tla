------------------------- MODULE RcceSendRecvProofs -------------------------
(***************************************************************************)
(* Proofs about RcceSendRecv, for any set of UEs, any message sizes, any   *)
(* chunk size and any sequence of calls.                                   *)
(***************************************************************************)
EXTENDS RcceSendRecv, TLAPS

\* The inductive invariant.
ChannelInv == TypeOK /\ HandshakeInv /\ PiecesIntact

\* A step leaves the channel from s to d as it was, as far as its stage can
\* tell: the buffer matters only while s is sending to d, the copy only
\* while d is copying.
Untouched(s, d) ==
  /\ put'[s][d] = put[s][d] /\ got'[d][s] = got[d][s]
  /\ sent'[d][s] = sent[d][s] /\ ready'[s][d] = ready[s][d]
  /\ SendPc(s, d)' = SendPc(s, d) /\ RecvPc(d, s)' = RecvPc(d, s)
  /\ SendPc(s, d) # "idle" => combuf'[s] = combuf[s]
  /\ RecvPc(d, s) = "getend" => copy'[d] = copy[d]
  /\ last'[d][s] = last[d][s]

\* A channel that a step does not touch stays in its stage.
LEMMA FrameStage ==
  ASSUME NEW s \in UE, NEW d \in UE, Handshake(s, d), Untouched(s, d)
  PROVE  Handshake(s, d)'
  <1> USE DEF Untouched, NotTaking
  <1>1. CASE Resting(s, d)
    BY <1>1 DEF Resting, Handshake
  <1>2. CASE InBuffer(s, d)
    BY <1>2 DEF InBuffer, Handshake
  <1>3. CASE Announced(s, d)
    BY <1>3 DEF Announced, Handshake
  <1>4. CASE BeingTaken(s, d)
    BY <1>4 DEF BeingTaken, Handshake
  <1>5. CASE Taken(s, d)
    BY <1>5 DEF Taken, Handshake
  <1>6. CASE Acknowledged(s, d)
    BY <1>6 DEF Acknowledged, Handshake
  <1> QED
    BY <1>1, <1>2, <1>3, <1>4, <1>5, <1>6 DEF Handshake

\* What the invariant says of one channel.
LEMMA ChannelStage ==
  ASSUME ChannelInv, NEW s \in UE, NEW d \in UE, s # d
  PROVE  /\ Handshake(s, d)
         /\ got[d][s] > 0 => last[d][s] = <<d, got[d][s]>>
  <1> DEFINE c == <<s, d>>
  <1>1. c \in Channels /\ c[1] = s /\ c[2] = d
    BY DEF Channels
  <1>2. Handshake(c[1], c[2])
    BY <1>1 DEF ChannelInv, HandshakeInv
  <1>3. got[c[2]][c[1]] > 0 => last[c[2]][c[1]] = <<c[2], got[c[2]][c[1]]>>
    BY <1>1 DEF ChannelInv, PiecesIntact
  <1> QED BY <1>1, <1>2, <1>3

\* It is enough to look at the one channel a step works on.
LEMMA OneChannel ==
  ASSUME ChannelInv, NEW a \in UE, NEW b \in UE,
         \A s, d \in UE : s # d /\ <<s, d>> # <<a, b>> => Untouched(s, d),
         a # b => Handshake(a, b)',
         a # b /\ got'[b][a] > 0 => last'[b][a] = <<b, got'[b][a]>>
  PROVE  HandshakeInv' /\ PiecesIntact'
  <1>1. ASSUME NEW s \in UE, NEW d \in UE, s # d
        PROVE  Handshake(s, d)'
    <2>1. CASE s = a /\ d = b
      BY <1>1, <2>1
    <2>2. CASE ~(s = a /\ d = b)
      <3>1. Handshake(s, d)
        BY <1>1, ChannelStage
      <3>2. Untouched(s, d)
        BY <1>1, <2>2
      <3> QED BY <3>1, <3>2, FrameStage
    <2> QED BY <2>1, <2>2
  <1>2. ASSUME NEW s \in UE, NEW d \in UE, s # d, got'[d][s] > 0
        PROVE  last'[d][s] = <<d, got'[d][s]>>
    <2>1. CASE s = a /\ d = b
      BY <1>2, <2>1
    <2>2. CASE ~(s = a /\ d = b)
      <3>1. got[d][s] > 0 => last[d][s] = <<d, got[d][s]>>
        BY <1>2, ChannelStage
      <3>2. Untouched(s, d)
        BY <1>2, <2>2
      <3> QED BY <1>2, <3>1, <3>2 DEF Untouched
    <2> QED BY <2>1, <2>2
  <1>3. HandshakeInv'
    <2>1. ASSUME NEW c \in Channels
          PROVE  Handshake(c[1], c[2])'
      BY <1>1 DEF Channels
    <2> QED BY <2>1 DEF HandshakeInv, Channels
  <1>4. PiecesIntact'
    <2>1. ASSUME NEW c \in Channels, got'[c[2]][c[1]] > 0
          PROVE  last'[c[2]][c[1]] = <<c[2], got'[c[2]][c[1]]>>
      BY <1>2, <2>1 DEF Channels
    <2> QED BY <2>1 DEF PiecesIntact, Channels
  <1> QED BY <1>3, <1>4

-----------------------------------------------------------------------------
(***************************************************************************)
(* What a step of one UE does to the places of the two ends of a channel   *)
(***************************************************************************)

\* A step moves the sending end of the channel from u to peer[u] to x, and no
\* other end of any channel.
SenderFrame(u, x) ==
  /\ peer[u] \in UE /\ peer[u] # u
  /\ \A s, d \in UE : s # d => RecvPc(d, s)' = RecvPc(d, s)
  /\ \A s, d \in UE : s # d /\ <<s, d>> # <<u, peer[u]>> =>
        SendPc(s, d)' = SendPc(s, d) /\ (s = u => SendPc(s, d) = "idle")
  /\ SendPc(u, peer[u]) = pc[u] /\ SendPc(u, peer[u])' = x

\* The same for the receiving end of the channel from peer[u] to u.
ReceiverFrame(u, x) ==
  /\ peer[u] \in UE /\ peer[u] # u
  /\ \A s, d \in UE : s # d => SendPc(s, d)' = SendPc(s, d)
  /\ \A s, d \in UE : s # d /\ <<s, d>> # <<peer[u], u>> =>
        RecvPc(d, s)' = RecvPc(d, s) /\ (d = u => RecvPc(d, s) = "idle")
  /\ RecvPc(u, peer[u]) = pc[u] /\ RecvPc(u, peer[u])' = x

\* A step inside a send moves the sending end of one channel only.
LEMMA SenderMoves ==
  ASSUME TypeOK, NEW u \in UE, NEW x \in SendPcs \cup {"idle"},
         pc[u] \in SendPcs, pc' = [pc EXCEPT ![u] = x], peer' = peer
  PROVE  SenderFrame(u, x)
  BY DEF SenderFrame, TypeOK, SendPc, RecvPc, Sending, Receiving, SendPcs, RecvPcs

\* A step inside a receive moves the receiving end of one channel only.
LEMMA ReceiverMoves ==
  ASSUME TypeOK, NEW u \in UE, NEW x \in RecvPcs \cup {"idle"},
         pc[u] \in RecvPcs, pc' = [pc EXCEPT ![u] = x], peer' = peer
  PROVE  ReceiverFrame(u, x)
  BY DEF ReceiverFrame, TypeOK, SendPc, RecvPc, Sending, Receiving, SendPcs, RecvPcs

-----------------------------------------------------------------------------
(***************************************************************************)
(* Each step takes the piece on its channel to the next stage              *)
(***************************************************************************)

\* Resting -> InBuffer.
LEMMA PutEndStep ==
  ASSUME ChannelInv, NEW u \in UE, PutEnd(u)
  PROVE  HandshakeInv' /\ PiecesIntact'
  <1>1. /\ TypeOK /\ pc[u] = "put" /\ peer' = peer
        /\ pc' = [pc EXCEPT ![u] = "flag"]
    BY DEF ChannelInv, PutEnd, local
  <1>2. SenderFrame(u, "flag")
    BY <1>1, SenderMoves DEF SendPcs
  <1>3. ASSUME NEW s \in UE, NEW d \in UE, s # d, <<s, d>> # <<u, peer[u]>>
        PROVE  Untouched(s, d)
    BY <1>1, <1>2, <1>3 DEF PutEnd, SenderFrame, Untouched, TypeOK, flags, local
  <1>4. Resting(u, peer[u])
    BY <1>1, <1>2, ChannelStage DEF SenderFrame, Handshake, Resting, InBuffer,
       Announced, BeingTaken, Taken, Acknowledged, NotTaking
  <1>5. InBuffer(u, peer[u])'
    BY <1>1, <1>2, <1>4 DEF PutEnd, SenderFrame, Resting, InBuffer, NotTaking, TypeOK, flags, local
  <1>6. got'[peer[u]][u] > 0 => last'[peer[u]][u] = <<peer[u], got'[peer[u]][u]>>
    BY <1>1, <1>2, <1>4, ChannelStage DEF PutEnd, SenderFrame, TypeOK, flags, local
  <1> QED BY <1>1, <1>2, <1>3, <1>5, <1>6, OneChannel DEF Handshake, SenderFrame

\* InBuffer -> Announced.
LEMMA SetSentStep ==
  ASSUME ChannelInv, NEW u \in UE, SetSent(u)
  PROVE  HandshakeInv' /\ PiecesIntact'
  <1>1. /\ TypeOK /\ pc[u] = "flag" /\ peer' = peer
        /\ pc' = [pc EXCEPT ![u] = "waitready"]
    BY DEF ChannelInv, SetSent, local
  <1>2. SenderFrame(u, "waitready")
    BY <1>1, SenderMoves DEF SendPcs
  <1>3. ASSUME NEW s \in UE, NEW d \in UE, s # d, <<s, d>> # <<u, peer[u]>>
        PROVE  Untouched(s, d)
    BY <1>1, <1>2, <1>3 DEF SetSent, SenderFrame, Untouched, TypeOK, flags, local
  <1>4. InBuffer(u, peer[u])
    BY <1>1, <1>2, ChannelStage DEF SenderFrame, Handshake, Resting, InBuffer,
       Announced, BeingTaken, Taken, Acknowledged, NotTaking
  <1>5. Announced(u, peer[u])'
    BY <1>1, <1>2, <1>4 DEF SetSent, SenderFrame, InBuffer, Announced, NotTaking, TypeOK, flags, local
  <1>6. got'[peer[u]][u] > 0 => last'[peer[u]][u] = <<peer[u], got'[peer[u]][u]>>
    BY <1>1, <1>2, <1>4, ChannelStage DEF SetSent, SenderFrame, TypeOK, flags, local
  <1> QED BY <1>1, <1>2, <1>3, <1>5, <1>6, OneChannel DEF Handshake, SenderFrame

\* Announced -> BeingTaken.
LEMMA ClearSentStep ==
  ASSUME ChannelInv, NEW u \in UE, ClearSent(u)
  PROVE  HandshakeInv' /\ PiecesIntact'
  <1>1. /\ TypeOK /\ pc[u] = "clearsent" /\ peer' = peer
        /\ pc' = [pc EXCEPT ![u] = "get"]
    BY DEF ChannelInv, ClearSent, local
  <1>2. ReceiverFrame(u, "get")
    BY <1>1, ReceiverMoves DEF RecvPcs
  <1>3. ASSUME NEW s \in UE, NEW d \in UE, s # d, <<s, d>> # <<peer[u], u>>
        PROVE  Untouched(s, d)
    BY <1>1, <1>2, <1>3 DEF ClearSent, ReceiverFrame, Untouched, TypeOK, flags, local
  <1>4. Announced(peer[u], u)
    BY <1>1, <1>2, ChannelStage DEF ReceiverFrame, Handshake, Resting, InBuffer,
       Announced, BeingTaken, Taken, Acknowledged, NotTaking
  <1>5. BeingTaken(peer[u], u)'
    BY <1>1, <1>2, <1>4 DEF ClearSent, ReceiverFrame, Announced, BeingTaken, NotTaking, TypeOK, flags, local
  <1>6. got'[u][peer[u]] > 0 => last'[u][peer[u]] = <<u, got'[u][peer[u]]>>
    BY <1>1, <1>2, <1>4, ChannelStage DEF ClearSent, ReceiverFrame, TypeOK, flags, local
  <1> QED BY <1>1, <1>2, <1>3, <1>5, <1>6, OneChannel DEF Handshake, ReceiverFrame

\* The copy begins with what the sender has put in its buffer.
LEMMA GetBeginStep ==
  ASSUME ChannelInv, NEW u \in UE, GetBegin(u)
  PROVE  HandshakeInv' /\ PiecesIntact'
  <1>1. /\ TypeOK /\ pc[u] = "get" /\ peer' = peer
        /\ pc' = [pc EXCEPT ![u] = "getend"]
    BY DEF ChannelInv, GetBegin, local
  <1>2. ReceiverFrame(u, "getend")
    BY <1>1, ReceiverMoves DEF RecvPcs
  <1>3. ASSUME NEW s \in UE, NEW d \in UE, s # d, <<s, d>> # <<peer[u], u>>
        PROVE  Untouched(s, d)
    BY <1>1, <1>2, <1>3 DEF GetBegin, ReceiverFrame, Untouched, TypeOK, flags, local
  <1>4. BeingTaken(peer[u], u)
    BY <1>1, <1>2, ChannelStage DEF ReceiverFrame, Handshake, Resting, InBuffer,
       Announced, BeingTaken, Taken, Acknowledged, NotTaking
  <1>5. BeingTaken(peer[u], u)'
    BY <1>1, <1>2, <1>4 DEF GetBegin, ReceiverFrame, BeingTaken, NotTaking, TypeOK, flags, local
  <1>6. got'[u][peer[u]] > 0 => last'[u][peer[u]] = <<u, got'[u][peer[u]]>>
    BY <1>1, <1>2, <1>4, ChannelStage DEF GetBegin, ReceiverFrame, TypeOK, flags, local
  <1> QED BY <1>1, <1>2, <1>3, <1>5, <1>6, OneChannel DEF Handshake, ReceiverFrame

\* BeingTaken -> Taken, with an intact copy.
LEMMA GetEndStep ==
  ASSUME ChannelInv, NEW u \in UE, GetEnd(u)
  PROVE  HandshakeInv' /\ PiecesIntact'
  <1>1. /\ TypeOK /\ pc[u] = "getend" /\ peer' = peer
        /\ pc' = [pc EXCEPT ![u] = "flagready"]
    BY DEF ChannelInv, GetEnd, local
  <1>2. ReceiverFrame(u, "flagready")
    BY <1>1, ReceiverMoves DEF RecvPcs
  <1>3. ASSUME NEW s \in UE, NEW d \in UE, s # d, <<s, d>> # <<peer[u], u>>
        PROVE  Untouched(s, d)
    BY <1>1, <1>2, <1>3 DEF GetEnd, ReceiverFrame, Untouched, TypeOK, flags, local
  <1>4. BeingTaken(peer[u], u)
    BY <1>1, <1>2, ChannelStage DEF ReceiverFrame, Handshake, Resting, InBuffer,
       Announced, BeingTaken, Taken, Acknowledged, NotTaking
  <1>5. Taken(peer[u], u)'
    BY <1>1, <1>2, <1>4 DEF GetEnd, ReceiverFrame, BeingTaken, Taken, NotTaking, TypeOK, flags, local
  <1>6. got'[u][peer[u]] > 0 => last'[u][peer[u]] = <<u, got'[u][peer[u]]>>
    BY <1>1, <1>2, <1>4, ChannelStage DEF GetEnd, ReceiverFrame, TypeOK, flags, local, BeingTaken
  <1> QED BY <1>1, <1>2, <1>3, <1>5, <1>6, OneChannel DEF Handshake, ReceiverFrame

\* The sender sees that its piece was taken.
LEMMA WaitReadyStep ==
  ASSUME ChannelInv, NEW u \in UE, WaitReady(u)
  PROVE  HandshakeInv' /\ PiecesIntact'
  <1>1. /\ TypeOK /\ pc[u] = "waitready" /\ peer' = peer
        /\ pc' = [pc EXCEPT ![u] = "clearready"]
    BY DEF ChannelInv, WaitReady, local
  <1>2. SenderFrame(u, "clearready")
    BY <1>1, SenderMoves DEF SendPcs
  <1>3. ASSUME NEW s \in UE, NEW d \in UE, s # d, <<s, d>> # <<u, peer[u]>>
        PROVE  Untouched(s, d)
    BY <1>1, <1>2, <1>3 DEF WaitReady, SenderFrame, Untouched, TypeOK, flags, local
  <1>4. Acknowledged(u, peer[u])
    BY <1>1, <1>2, ChannelStage DEF WaitReady, SenderFrame, Handshake, Resting, InBuffer,
       Announced, BeingTaken, Taken, Acknowledged, NotTaking
  <1>5. Acknowledged(u, peer[u])'
    BY <1>1, <1>2, <1>4 DEF WaitReady, SenderFrame, Acknowledged, NotTaking, TypeOK, flags, local
  <1>6. got'[peer[u]][u] > 0 => last'[peer[u]][u] = <<peer[u], got'[peer[u]][u]>>
    BY <1>1, <1>2, <1>4, ChannelStage DEF WaitReady, SenderFrame, TypeOK, flags, local
  <1> QED BY <1>1, <1>2, <1>3, <1>5, <1>6, OneChannel DEF Handshake, SenderFrame

\* Acknowledged -> Resting, and the next piece may follow.
LEMMA ClearReadyStep ==
  ASSUME ChannelInv, NEW u \in UE, ClearReady(u)
  PROVE  HandshakeInv' /\ PiecesIntact'
  <1>1. /\ TypeOK /\ pc[u] = "clearready" /\ peer' = peer
        /\ pc' = [pc EXCEPT ![u] = "put"] \/ pc' = [pc EXCEPT ![u] = "idle"]
    BY DEF ChannelInv, ClearReady, local
  <1>2. PICK x \in {"put", "idle"} : pc' = [pc EXCEPT ![u] = x]
    BY <1>1
  <1>3. SenderFrame(u, x)
    BY <1>1, <1>2, SenderMoves DEF SendPcs
  <1>4. ASSUME NEW s \in UE, NEW d \in UE, s # d, <<s, d>> # <<u, peer[u]>>
        PROVE  Untouched(s, d)
    BY <1>1, <1>3, <1>4 DEF ClearReady, SenderFrame, Untouched, TypeOK, flags, local
  <1>5. Acknowledged(u, peer[u])
    BY <1>1, <1>3, ChannelStage DEF ClearReady, SenderFrame, Handshake, Resting, InBuffer,
       Announced, BeingTaken, Taken, Acknowledged, NotTaking
  <1>6. Resting(u, peer[u])'
    BY <1>1, <1>3, <1>5 DEF ClearReady, SenderFrame, Acknowledged, Resting, NotTaking, TypeOK, flags, local
  <1>7. got'[peer[u]][u] > 0 => last'[peer[u]][u] = <<peer[u], got'[peer[u]][u]>>
    BY <1>1, <1>3, ChannelStage DEF ClearReady, SenderFrame, TypeOK, flags, local
  <1> QED BY <1>1, <1>3, <1>4, <1>6, <1>7, OneChannel DEF Handshake, SenderFrame

\* Taken -> Acknowledged.
LEMMA SetReadyStep ==
  ASSUME ChannelInv, NEW u \in UE, SetReady(u)
  PROVE  HandshakeInv' /\ PiecesIntact'
  <1>1. /\ TypeOK /\ pc[u] = "flagready" /\ peer' = peer
        /\ pc' = [pc EXCEPT ![u] = "waitsent"] \/ pc' = [pc EXCEPT ![u] = "idle"]
    BY DEF ChannelInv, SetReady, local
  <1>2. PICK x \in {"waitsent", "idle"} : pc' = [pc EXCEPT ![u] = x]
    BY <1>1
  <1>3. ReceiverFrame(u, x)
    BY <1>1, <1>2, ReceiverMoves DEF RecvPcs
  <1>4. ASSUME NEW s \in UE, NEW d \in UE, s # d, <<s, d>> # <<peer[u], u>>
        PROVE  Untouched(s, d)
    BY <1>1, <1>3, <1>4 DEF SetReady, ReceiverFrame, Untouched, TypeOK, flags, local
  <1>5. Taken(peer[u], u)
    BY <1>1, <1>3, ChannelStage DEF SetReady, ReceiverFrame, Handshake, Resting, InBuffer,
       Announced, BeingTaken, Taken, Acknowledged, NotTaking
  <1>6. Acknowledged(peer[u], u)'
    BY <1>1, <1>3, <1>5 DEF SetReady, ReceiverFrame, Taken, Acknowledged, NotTaking, TypeOK, flags, local
  <1>7. got'[u][peer[u]] > 0 => last'[u][peer[u]] = <<u, got'[u][peer[u]]>>
    BY <1>1, <1>3, ChannelStage DEF SetReady, ReceiverFrame, TypeOK, flags, local
  <1> QED BY <1>1, <1>3, <1>4, <1>6, <1>7, OneChannel DEF Handshake, ReceiverFrame

\* The receiver sees the piece that was announced.
LEMMA WaitSentStep ==
  ASSUME ChannelInv, NEW u \in UE, WaitSent(u)
  PROVE  HandshakeInv' /\ PiecesIntact'
  <1>1. /\ TypeOK /\ pc[u] = "waitsent" /\ peer' = peer
        /\ pc' = [pc EXCEPT ![u] = "clearsent"]
    BY DEF ChannelInv, WaitSent, local
  <1>2. ReceiverFrame(u, "clearsent")
    BY <1>1, ReceiverMoves DEF RecvPcs
  <1>3. ASSUME NEW s \in UE, NEW d \in UE, s # d, <<s, d>> # <<peer[u], u>>
        PROVE  Untouched(s, d)
    BY <1>1, <1>2, <1>3 DEF WaitSent, ReceiverFrame, Untouched, TypeOK, flags, local
  <1>4. Announced(peer[u], u)
    BY <1>1, <1>2, ChannelStage DEF WaitSent, ReceiverFrame, Handshake, Resting,
       InBuffer, Announced, BeingTaken, Taken, Acknowledged, NotTaking
  <1>5. Announced(peer[u], u)'
    BY <1>1, <1>2, <1>4 DEF WaitSent, ReceiverFrame, Announced, NotTaking, TypeOK, flags, local
  <1>6. got'[u][peer[u]] > 0 => last'[u][peer[u]] = <<u, got'[u][peer[u]]>>
    BY <1>1, <1>2, ChannelStage DEF WaitSent, ReceiverFrame, TypeOK, flags, local
  <1> QED BY <1>1, <1>2, <1>3, <1>5, <1>6, OneChannel DEF Handshake, ReceiverFrame

\* A receiving end that only waits can stop, start or go on waiting in any
\* stage of the channel.
LEMMA WaitingIsHarmless ==
  ASSUME NEW s \in UE, NEW d \in UE, Handshake(s, d),
         RecvPc(d, s) \in NotTaking, RecvPc(d, s)' \in NotTaking,
         SendPc(s, d)' = SendPc(s, d), flags' = flags, combuf' = combuf,
         put' = put, got' = got
  PROVE  Handshake(s, d)'
  BY DEF Handshake, Resting, InBuffer, Announced, BeingTaken, Taken, Acknowledged,
         NotTaking, flags

\* A probe changes no stage.
LEMMA ProbeStep ==
  ASSUME ChannelInv, NEW u \in UE, Probe(u)
  PROVE  HandshakeInv' /\ PiecesIntact'
  <1>1. /\ TypeOK /\ pc[u] = "probe" /\ peer' = peer
        /\ pc' = [pc EXCEPT ![u] = "waitsent"] \/ pc' = [pc EXCEPT ![u] = "idle"]
    BY DEF ChannelInv, Probe
  <1>2. PICK x \in {"waitsent", "idle"} : pc' = [pc EXCEPT ![u] = x]
    BY <1>1
  <1>3. ReceiverFrame(u, x)
    BY <1>1, <1>2, ReceiverMoves DEF RecvPcs
  <1>4. ASSUME NEW s \in UE, NEW d \in UE, s # d, <<s, d>> # <<peer[u], u>>
        PROVE  Untouched(s, d)
    BY <1>1, <1>3, <1>4 DEF Probe, ReceiverFrame, Untouched, TypeOK, flags
  <1>5. Handshake(peer[u], u)'
    BY <1>1, <1>3, ChannelStage, WaitingIsHarmless DEF Probe, ReceiverFrame, NotTaking
  <1>6. got'[u][peer[u]] > 0 => last'[u][peer[u]] = <<u, got'[u][peer[u]]>>
    BY <1>1, <1>3, ChannelStage DEF Probe, ReceiverFrame
  <1> QED BY <1>1, <1>3, <1>4, <1>5, <1>6, OneChannel DEF ReceiverFrame

-----------------------------------------------------------------------------
(***************************************************************************)
(* Calls                                                                   *)
(***************************************************************************)

\* A UE that makes a call was at neither end of any channel.
LEMMA CallerWasIdle ==
  ASSUME TypeOK, NEW u \in UE, pc[u] = "idle"
  PROVE  \A v \in UE : SendPc(u, v) = "idle" /\ RecvPc(u, v) = "idle"
  BY DEF SendPc, RecvPc, Sending, Receiving, SendPcs, RecvPcs

LEMMA SendCallStep ==
  ASSUME ChannelInv, NEW u \in UE, NEW v \in UE, SendCall(u, v)
  PROVE  HandshakeInv' /\ PiecesIntact'
  <1>1. /\ TypeOK /\ pc[u] = "idle" /\ v # u /\ peer' = [peer EXCEPT ![u] = v]
        /\ pc' = [pc EXCEPT ![u] = "put"] \/ pc' = [pc EXCEPT ![u] = "idle"]
    BY DEF ChannelInv, SendCall
  <1>2. \A s, d \in UE : s # d => RecvPc(d, s)' = RecvPc(d, s)
    BY <1>1 DEF RecvPc, Receiving, RecvPcs, TypeOK
  <1>3. \A s, d \in UE : <<s, d>> # <<u, v>> => SendPc(s, d)' = SendPc(s, d)
    BY <1>1 DEF SendPc, Sending, SendPcs, TypeOK
  <1>4. SendPc(u, v)' \in {"idle", "put"}
    BY <1>1 DEF SendPc, Sending, SendPcs, TypeOK
  <1>5. ASSUME NEW s \in UE, NEW d \in UE, s # d, <<s, d>> # <<u, v>>
        PROVE  Untouched(s, d)
    <2>1. SendPc(s, d) # "idle" => combuf'[s] = combuf[s]
      BY <1>1, <1>5, CallerWasIdle DEF SendCall, TypeOK
    <2> QED BY <1>2, <1>3, <1>5, <2>1 DEF SendCall, Untouched, flags
  <1>6. Resting(u, v)
    BY <1>1, CallerWasIdle, ChannelStage DEF Handshake, Resting, InBuffer,
       Announced, BeingTaken, Taken, Acknowledged, NotTaking
  <1>7. Resting(u, v)'
    BY <1>1, <1>2, <1>4, <1>6 DEF SendCall, Resting, flags
  <1>8. got'[v][u] > 0 => last'[v][u] = <<v, got'[v][u]>>
    BY <1>1, ChannelStage DEF SendCall
  <1> QED BY <1>5, <1>7, <1>8, OneChannel DEF Handshake

LEMMA RecvCallStep ==
  ASSUME ChannelInv, NEW u \in UE, NEW v \in UE, NEW kind \in {"recv", "test"},
         RecvCall(u, v, kind)
  PROVE  HandshakeInv' /\ PiecesIntact'
  <1>1. /\ TypeOK /\ pc[u] = "idle" /\ v # u /\ peer' = [peer EXCEPT ![u] = v]
        /\ flags' = flags /\ combuf' = combuf /\ copy' = copy
        /\ put' = put /\ got' = got /\ last' = last
    BY DEF ChannelInv, RecvCall
  <1>2. PICK x \in {"idle", "probe", "waitsent"} : pc' = [pc EXCEPT ![u] = x]
    BY DEF RecvCall
  <1>3. \A s, d \in UE : s # d => SendPc(s, d)' = SendPc(s, d)
    BY <1>1, <1>2 DEF SendPc, Sending, SendPcs, TypeOK
  <1>4. \A s, d \in UE : <<s, d>> # <<v, u>> => RecvPc(d, s)' = RecvPc(d, s)
    BY <1>1, <1>2 DEF RecvPc, Receiving, RecvPcs, TypeOK
  <1>5. RecvPc(u, v)' \in NotTaking /\ RecvPc(u, v) = "idle"
    BY <1>1, <1>2, CallerWasIdle DEF RecvPc, Receiving, RecvPcs, NotTaking, TypeOK
  <1>6. ASSUME NEW s \in UE, NEW d \in UE, s # d, <<s, d>> # <<v, u>>
        PROVE  Untouched(s, d)
    BY <1>1, <1>3, <1>4, <1>6 DEF Untouched, flags
  <1>7. Handshake(v, u)'
    BY <1>1, <1>3, <1>5, ChannelStage, WaitingIsHarmless DEF NotTaking
  <1>8. got'[u][v] > 0 => last'[u][v] = <<u, got'[u][v]>>
    BY <1>1, ChannelStage
  <1> QED BY <1>6, <1>7, <1>8, OneChannel

-----------------------------------------------------------------------------
(***************************************************************************)
(* Theorems                                                                *)
(***************************************************************************)

\* What changes the function of a UE changes it to a function.
LEMMA TypeStep ==
  ASSUME TypeOK, [Next]_vars
  PROVE  TypeOK'
  <1> USE SendRecvAssumption
  <1>1. CASE UNCHANGED vars
    BY <1>1 DEF TypeOK, vars, flags, local
  <1>2. ASSUME NEW u \in UE, NEW v \in UE, SendCall(u, v)
        PROVE  TypeOK'
    BY <1>2 DEF SendCall, TypeOK, SendPcs, RecvPcs, Piece, flags
  <1>3. ASSUME NEW u \in UE, NEW v \in UE, NEW kind \in {"recv", "test"},
               RecvCall(u, v, kind)
        PROVE  TypeOK'
    <2>1. PICK x \in {"idle", "probe", "waitsent"}, b \in BOOLEAN :
            pc' = [pc EXCEPT ![u] = x] /\ test' = [test EXCEPT ![u] = b]
      BY <1>3 DEF RecvCall, TestOnEntry
    <2> QED BY <1>3, <2>1 DEF RecvCall, TypeOK, SendPcs, RecvPcs, Piece, flags
  <1>4. ASSUME NEW u \in UE, PutEnd(u)
        PROVE  TypeOK'
    BY <1>4 DEF PutEnd, TypeOK, SendPcs, RecvPcs, Piece, flags, local
  <1>5. ASSUME NEW u \in UE, SetSent(u)
        PROVE  TypeOK'
    BY <1>5 DEF SetSent, TypeOK, SendPcs, RecvPcs, Piece, flags, local
  <1>6. ASSUME NEW u \in UE, WaitReady(u)
        PROVE  TypeOK'
    BY <1>6 DEF WaitReady, TypeOK, SendPcs, RecvPcs, Piece, flags, local
  <1>7. ASSUME NEW u \in UE, ClearReady(u)
        PROVE  TypeOK'
    <2>1. PICK x \in {"put", "idle"}, b \in {<<peer[u], 0>>, combuf[u]} :
            pc' = [pc EXCEPT ![u] = x] /\ combuf' = [combuf EXCEPT ![u] = b]
      BY <1>7 DEF ClearReady, TypeOK
    <2>2. b \in Piece
      BY <2>1 DEF TypeOK, Piece
    <2>3. combuf' \in [UE -> Piece] /\ ready' \in [UE -> [UE -> {0, 1}]]
      BY <1>7, <2>1, <2>2 DEF ClearReady, TypeOK
    <2>4. pc' \in [UE -> {"idle"} \cup SendPcs \cup RecvPcs] /\ done' \in [UE -> Nat]
      BY <1>7, <2>1 DEF ClearReady, TypeOK, SendPcs
    <2>5. \A w \in UE : /\ pc'[w] \in SendPcs => call[w] = "send" /\ peer[w] # w
                        /\ pc'[w] \in RecvPcs => call[w] \in {"recv", "test"} /\ peer[w] # w
      BY <1>7, <2>1 DEF ClearReady, TypeOK, SendPcs, RecvPcs
    <2> QED BY <1>7, <2>3, <2>4, <2>5 DEF ClearReady, TypeOK, local
  <1>8. ASSUME NEW u \in UE, Probe(u)
        PROVE  TypeOK'
    BY <1>8 DEF Probe, TypeOK, SendPcs, RecvPcs, Piece, flags, local
  <1>9. ASSUME NEW u \in UE, WaitSent(u)
        PROVE  TypeOK'
    BY <1>9 DEF WaitSent, TypeOK, SendPcs, RecvPcs, Piece, flags, local
  <1>10. ASSUME NEW u \in UE, ClearSent(u)
         PROVE  TypeOK'
    BY <1>10 DEF ClearSent, TypeOK, SendPcs, RecvPcs, Piece, flags, local
  <1>11. ASSUME NEW u \in UE, GetBegin(u)
         PROVE  TypeOK'
    BY <1>11 DEF GetBegin, TypeOK, SendPcs, RecvPcs, Piece, flags, local
  <1>12. ASSUME NEW u \in UE, GetEnd(u)
         PROVE  TypeOK'
    BY <1>12 DEF GetEnd, TypeOK, SendPcs, RecvPcs, Piece, flags, local
  <1>13. ASSUME NEW u \in UE, SetReady(u)
         PROVE  TypeOK'
    BY <1>13 DEF SetReady, TypeOK, SendPcs, RecvPcs, Piece, flags, local
  <1> QED BY <1>1, <1>2, <1>3, <1>4, <1>5, <1>6, <1>7, <1>8, <1>9, <1>10, <1>11,
             <1>12, <1>13 DEF Next, Calls, SendStep, RecvStep

LEMMA ChannelInit == Init => ChannelInv
  <1> SUFFICES ASSUME Init
               PROVE  ChannelInv
    OBVIOUS
  <1>1. TypeOK
    BY SendRecvAssumption DEF Init, TypeOK, SendPcs, RecvPcs, Piece
  <1>2. ASSUME NEW c \in Channels
        PROVE  /\ Resting(c[1], c[2])
               /\ got[c[2]][c[1]] = 0
    BY <1>2 DEF Init, Resting, SendPc, RecvPc, Sending, Receiving, NotTaking, SendPcs,
       RecvPcs, Channels
  <1>3. HandshakeInv
    BY <1>2 DEF HandshakeInv, Handshake
  <1>4. PiecesIntact
    BY <1>2 DEF PiecesIntact
  <1> QED BY <1>1, <1>3, <1>4 DEF ChannelInv

LEMMA ChannelStep == ChannelInv /\ [Next]_vars => ChannelInv'
  <1> SUFFICES ASSUME ChannelInv, [Next]_vars
               PROVE  ChannelInv'
    OBVIOUS
  <1>1. TypeOK'
    BY TypeStep DEF ChannelInv
  <1>2. HandshakeInv' /\ PiecesIntact'
    <2>1. CASE UNCHANGED vars
      <3>1. \A s, d \in UE : Untouched(s, d)
        BY <2>1 DEF Untouched, SendPc, RecvPc, Sending, Receiving, vars, flags, local
      <3>2. \A c \in Channels : Handshake(c[1], c[2])'
        BY <3>1, FrameStage DEF ChannelInv, HandshakeInv, Channels
      <3>3. PiecesIntact'
        BY <2>1 DEF ChannelInv, PiecesIntact, vars
      <3> QED BY <3>2, <3>3 DEF HandshakeInv, Channels
    <2>2. CASE \E u, v \in UE : SendCall(u, v)
      BY <2>2, SendCallStep
    <2>3. CASE \E u, v \in UE : RecvCall(u, v, "recv") \/ RecvCall(u, v, "test")
      BY <2>3, RecvCallStep
    <2>4. CASE \E u \in UE : SendStep(u)
      BY <2>4, PutEndStep, SetSentStep, WaitReadyStep, ClearReadyStep DEF SendStep
    <2>5. CASE \E u \in UE : RecvStep(u)
      BY <2>5, ProbeStep, WaitSentStep, ClearSentStep, GetBeginStep, GetEndStep,
         SetReadyStep DEF RecvStep
    <2> QED BY <2>1, <2>2, <2>3, <2>4, <2>5 DEF Next, Calls
  <1> QED BY <1>1, <1>2 DEF ChannelInv

\* The inductive invariant holds in every state of every program of sends,
\* receives and tests.
THEOREM ChannelsInStep == Spec => []ChannelInv
  BY ChannelInit, ChannelStep, PTL DEF Spec

\* The state of RCCE_send and RCCE_recv is of the right type.
THEOREM TypeCorrect == Spec => []TypeOK
  <1>1. ChannelInv => TypeOK
    BY DEF ChannelInv
  <1> QED BY <1>1, ChannelsInStep, PTL

\* Flags, ends and buffer of every channel are always in one of the six
\* stages of RCCE_send's and RCCE_recv's handshake.
THEOREM HandshakeHolds == Spec => []HandshakeInv
  <1>1. ChannelInv => HandshakeInv
    BY DEF ChannelInv
  <1> QED BY <1>1, ChannelsInStep, PTL

\* RCCE_recv delivers the pieces of its channel whole, in order and once.
THEOREM DeliveryIsIntact == Spec => []PiecesIntact
  <1>1. ChannelInv => PiecesIntact
    BY DEF ChannelInv
  <1> QED BY <1>1, ChannelsInStep, PTL

\* A UE outside RCCE_send has nothing under way on any channel.
LEMMA IdleIsSettled ==
  ASSUME ChannelInv, NEW c \in Channels, SendPc(c[1], c[2]) \in {"idle", "put", "clearready"}
  PROVE  got[c[2]][c[1]] = put[c[1]][c[2]]
  <1>1. c[1] \in UE /\ c[2] \in UE /\ c[1] # c[2]
    BY DEF Channels
  <1>2. Handshake(c[1], c[2])
    BY <1>1, ChannelStage
  <1> QED BY <1>2 DEF Handshake, Resting, InBuffer, Announced, BeingTaken, Taken, Acknowledged

\* When RCCE_send has returned, all it sent has been received.
THEOREM SendSynchronises == Spec => []SendIsSynchronous
  <1>1. ASSUME ChannelInv
        PROVE  SendIsSynchronous
    <2>1. ASSUME NEW c \in Channels, pc[c[1]] = "idle"
          PROVE  got[c[2]][c[1]] = put[c[1]][c[2]]
      BY <1>1, <2>1, IdleIsSettled DEF SendPc, Sending, SendPcs
    <2> QED BY <2>1 DEF SendIsSynchronous
  <1>2. ChannelInv => SendIsSynchronous
    BY <1>1
  <1> QED BY <1>2, ChannelsInStep, PTL

\* RCCE_put never writes a buffer that a receiver has still to read.
THEOREM BufferIsSafe == Spec => BufferNotReusedEarly
  <1> DEFINE Safe == \A c \in Channels :
               combuf'[c[1]] # combuf[c[1]] => got[c[2]][c[1]] = put[c[1]][c[2]]
  <1>1. ASSUME ChannelInv, [Next]_vars
        PROVE  Safe
    <2> SUFFICES ASSUME NEW c \in Channels, combuf'[c[1]] # combuf[c[1]]
                 PROVE  SendPc(c[1], c[2]) \in {"idle", "put", "clearready"}
      BY <1>1, IdleIsSettled
    <2>1. c[1] \in UE /\ TypeOK
      BY <1>1 DEF Channels, ChannelInv
    <2>2. pc[c[1]] \in {"idle", "put", "clearready"}
      <3>1. combuf' # combuf
        OBVIOUS
      <3>2. CASE \E u, v \in UE : SendCall(u, v)
        BY <2>1, <3>2 DEF SendCall, TypeOK
      <3>3. CASE \E u \in UE : PutEnd(u) \/ ClearReady(u)
        BY <2>1, <3>3 DEF PutEnd, ClearReady, TypeOK
      <3> QED BY <1>1, <3>1, <3>2, <3>3 DEF Next, Calls, SendStep, RecvStep, SetSent,
              WaitReady, RecvCall, Probe, WaitSent, ClearSent, GetBegin, GetEnd,
              SetReady, vars
    <2> QED BY <2>2 DEF SendPc
  <1>2. ChannelInv /\ [Next]_vars => [Safe]_vars
    BY <1>1
  <1> QED BY <1>2, ChannelsInStep, PTL DEF Spec, BufferNotReusedEarly

-----------------------------------------------------------------------------
(***************************************************************************)
(* Whole messages, outside the gory API                                    *)
(***************************************************************************)

\* The progress of a call: it has not moved all its pieces while it runs, a
\* probe comes before the first piece, a test that goes on has succeeded.
Progress(u) ==
  /\ pc[u] \in SendPcs \cup RecvPcs => done[u] < Pieces(u)
  /\ pc[u] = "probe" => done[u] = 0 /\ call[u] = "test"
  /\ pc[u] \in RecvPcs \ {"probe"} /\ call[u] = "test" => test[u]
  /\ pc[u] = "idle" /\ call[u] # "none" =>
       done[u] = IF call[u] = "test" /\ ~test[u] THEN 0 ELSE Pieces(u)

LEMMA PiecesAreCounted ==
  ASSUME NEW size \in Nat
  PROVE  NumPieces(size) \in Nat
  <1>1. size \div CHUNK \in Nat
    BY SendRecvAssumption
  <1> QED BY <1>1 DEF NumPieces

LEMMA CallIsCounted ==
  ASSUME TypeOK, NEW u \in UE
  PROVE  Pieces(u) \in Nat
  BY PiecesAreCounted, SendRecvAssumption DEF Pieces, TypeOK

\* Other UEs do not change the progress of u, and neither does a step of u
\* inside a piece.
LEMMA ProgressKept ==
  ASSUME NEW u \in UE, Progress(u), local' = local, done'[u] = done[u],
         \/ pc'[u] = pc[u]
         \/ pc[u] \in SendPcs /\ pc'[u] \in SendPcs
         \/ pc[u] \in RecvPcs \ {"probe"} /\ pc'[u] \in RecvPcs \ {"probe"}
  PROVE  Progress(u)'
  <1>1. Pieces(u)' = Pieces(u)
    BY DEF Pieces, local
  <1> QED BY <1>1 DEF Progress, local, SendPcs, RecvPcs

LEMMA ProgressStep ==
  ASSUME ~GORY, TypeOK, \A u \in UE : Progress(u), Next
  PROVE  \A u \in UE : Progress(u)'
  <1>1. ASSUME NEW u \in UE, NEW w \in UE, SendStep(w) \/ RecvStep(w) \/ Calls(w), w # u
        PROVE  Progress(u)'
    <2>1. /\ pc'[u] = pc[u] /\ call'[u] = call[u] /\ peer'[u] = peer[u]
          /\ test'[u] = test[u] /\ done'[u] = done[u]
      BY <1>1 DEF SendStep, RecvStep, Calls, SendCall, RecvCall, PutEnd, SetSent, WaitReady,
         ClearReady, Probe, WaitSent, ClearSent, GetBegin, GetEnd, SetReady, TypeOK, local
    <2>2. Pieces(u)' = Pieces(u)
      BY <2>1 DEF Pieces
    <2> QED BY <2>1, <2>2 DEF Progress
  <1>2. ASSUME NEW u \in UE, NEW v \in UE, SendCall(u, v)
        PROVE  Progress(u)'
    <2>1. call'[u] = "send" /\ peer'[u] = v /\ done'[u] = 0
      BY <1>2 DEF SendCall, TypeOK
    <2>2. Pieces(u)' = NumPieces(MsgSize[u][v]) /\ Pieces(u)' \in Nat
      BY <2>1, PiecesAreCounted, SendRecvAssumption DEF Pieces
    <2>3. pc'[u] = IF Pieces(u)' = 0 THEN "idle" ELSE "put"
      BY <1>2, <2>2 DEF SendCall, TypeOK
    <2> QED BY <2>1, <2>2, <2>3 DEF Progress, SendPcs, RecvPcs
  <1>3. ASSUME NEW u \in UE, NEW v \in UE, NEW kind \in {"recv", "test"},
               RecvCall(u, v, kind)
        PROVE  Progress(u)'
    <2>1. call'[u] = kind /\ peer'[u] = v /\ done'[u] = 0
      BY <1>3 DEF RecvCall, TypeOK
    <2>2. Pieces(u)' = NumPieces(MsgSize[v][u]) /\ Pieces(u)' \in Nat
      BY <2>1, PiecesAreCounted, SendRecvAssumption DEF Pieces
    <2>3. /\ test'[u] = (kind = "test")
          /\ pc'[u] = IF Pieces(u)' = 0 THEN "idle"
                      ELSE IF kind = "test" THEN "probe" ELSE "waitsent"
      BY <1>3, <2>2 DEF RecvCall, TestOnEntry, TypeOK
    <2> QED BY <2>1, <2>2, <2>3 DEF Progress, SendPcs, RecvPcs
  <1>4. ASSUME NEW u \in UE, PutEnd(u) \/ SetSent(u) \/ WaitReady(u) \/ WaitSent(u)
                               \/ ClearSent(u) \/ GetBegin(u) \/ GetEnd(u)
        PROVE  Progress(u)'
    <2>1. /\ local' = local /\ done'[u] = done[u]
          /\ \/ pc[u] \in SendPcs /\ pc'[u] \in SendPcs
             \/ pc[u] \in RecvPcs \ {"probe"} /\ pc'[u] \in RecvPcs \ {"probe"}
      BY <1>4 DEF PutEnd, SetSent, WaitReady, WaitSent, ClearSent, GetBegin, GetEnd,
         TypeOK, local, SendPcs, RecvPcs
    <2> QED BY <2>1, ProgressKept
  <1>5. ASSUME NEW u \in UE, ClearReady(u)
        PROVE  Progress(u)'
    <2>1. Pieces(u)' = Pieces(u) /\ Pieces(u) \in Nat
      BY <1>5, CallIsCounted DEF ClearReady, Pieces, local
    <2>2. /\ done'[u] = done[u] + 1 /\ call'[u] = "send" /\ done[u] \in Nat
          /\ done[u] < Pieces(u)
          /\ pc'[u] = IF done[u] + 1 < Pieces(u) THEN "put" ELSE "idle"
      BY <1>5 DEF ClearReady, Progress, TypeOK, SendPcs, local
    <2> QED BY <2>1, <2>2 DEF Progress, SendPcs, RecvPcs
  <1>6. ASSUME NEW u \in UE, SetReady(u)
        PROVE  Progress(u)'
    <2>1. Pieces(u)' = Pieces(u) /\ Pieces(u) \in Nat
      BY <1>6, CallIsCounted DEF SetReady, Pieces, local
    <2>2. /\ done'[u] = done[u] + 1 /\ call'[u] = call[u] /\ done[u] \in Nat
          /\ test'[u] = test[u] /\ done[u] < Pieces(u)
          /\ call[u] = "test" => test[u]
          /\ pc'[u] = IF done[u] + 1 < Pieces(u) THEN "waitsent" ELSE "idle"
      BY <1>6 DEF SetReady, Progress, TypeOK, RecvPcs, local
    <2> QED BY <2>1, <2>2 DEF Progress, SendPcs, RecvPcs
  <1>7. ASSUME NEW u \in UE, Probe(u)
        PROVE  Progress(u)'
    <2>1. Pieces(u)' = Pieces(u)
      BY <1>7 DEF Probe, Pieces
    <2>2. done'[u] = 0 /\ call'[u] = "test" /\ done[u] < Pieces(u) /\ done[u] = 0
      BY <1>7 DEF Probe, Progress, RecvPcs
    <2>3. \/ test'[u] = TRUE /\ pc'[u] = "waitsent"
          \/ test'[u] = FALSE /\ pc'[u] = "idle"
      <3>1. CASE sent[u][peer[u]] = 1
        BY <1>7, <3>1 DEF Probe, TypeOK
      <3>2. CASE sent[u][peer[u]] # 1
        BY <1>7, <3>2 DEF Probe, TypeOK
      <3> QED BY <3>1, <3>2
    <2> QED BY <2>1, <2>2, <2>3 DEF Progress, SendPcs, RecvPcs
  <1> QED BY <1>1, <1>2, <1>3, <1>4, <1>5, <1>6, <1>7 DEF Next, Calls, SendStep, RecvStep

\* Outside the gory API every send and receive that returns has moved its
\* whole message, and a failed test nothing.
THEOREM WholeMessages == ASSUME ~GORY
                         PROVE  Spec => []CallsAreWhole
  <1> DEFINE AllProgress == \A u \in UE : Progress(u)
  <1>1. Init => AllProgress
    BY DEF Init, Progress, SendPcs, RecvPcs
  <1>2. AllProgress /\ TypeOK /\ [Next]_vars => AllProgress'
    <2> SUFFICES ASSUME AllProgress, TypeOK, [Next]_vars
                 PROVE  AllProgress'
      OBVIOUS
    <2>1. CASE UNCHANGED vars
      <3>1. /\ local' = local /\ pc' = pc /\ done' = done
        BY <2>1 DEF vars
      <3>2. ASSUME NEW u \in UE
            PROVE  Progress(u)'
        BY <3>1, ProgressKept
      <3> QED BY <3>2
    <2>2. CASE Next
      BY <2>2, ProgressStep
    <2> QED BY <2>1, <2>2
  <1>3. AllProgress => CallsAreWhole
    BY DEF Progress, CallsAreWhole
  <1> HIDE DEF AllProgress
  <1> QED BY <1>1, <1>2, <1>3, TypeCorrect, PTL DEF Spec
=============================================================================
