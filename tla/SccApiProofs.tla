---------------------------- MODULE SccApiProofs ----------------------------
(***************************************************************************)
(* The ring between the program and the tx thread of SccApi, and what a    *)
(* read returns, for any size of the ring, any number of accesses, lines   *)
(* and ids, and any number of answers that fail.                           *)
(***************************************************************************)
EXTENDS SccApi, FiniteSetTheorems, TLAPS

Slot == 0 .. QSIZE - 1

\* How many slots further on b is than a.
Distance(a, b) == IF b >= a THEN b - a ELSE b - a + QSIZE
Filled == Distance(txQueueRead, txQueueWrite)

IsCall == call = [at |-> call.at, kind |-> call.kind, todo |-> call.todo, ok |-> call.ok,
                  data |-> call.data]

IsTx == /\ tx = [at |-> tx.at, writeSnapshot |-> tx.writeSnapshot, done |-> tx.done]
        /\ tx.at \in {"look", "one part", "two parts", "second part"}
        /\ tx.writeSnapshot \in Slot /\ tx.done \in Nat

Types ==
  /\ IsCall
  /\ txQueue = [s \in Slot |-> txQueue[s]]
  /\ txQueueRead \in Slot /\ txQueueWrite \in Slot /\ sent \in Nat
  /\ IsTx

\* The messages in the ring are the last that were sent,
LastSent == \A s \in Slot : LET d == Distance(s, txQueueWrite) IN
              1 <= d /\ d <= Filled => txQueue[s].id = sent + 1 - d

\* and there is room for one more, unless the program waits for it.
HasRoom == call.at # "full" => Filled <= QSIZE - 2

\* The tx thread is within what was in the ring when it looked.
Within == LET d == Distance(txQueueRead, tx.writeSnapshot) IN
  tx.at # "look" =>
    /\ d <= Filled /\ tx.done <= Part
    /\ tx.at = "one part" => txQueueRead < tx.writeSnapshot
    /\ tx.at = "two parts" => tx.writeSnapshot < txQueueRead
    /\ tx.at = "second part" => txQueueRead = 0

\* The messages up to the m-th have been handed over; among them are all that
\* are no longer in the ring, and those the thread is through with.
HandedTo(m) ==
  /\ handed = 1 .. m
  /\ 0 <= sent - Filled /\ sent - Filled <= m /\ m <= sent
  /\ tx.at # "look" => sent - Filled + tx.done <= m
  /\ call.at = "idle" /\ call.kind \in {"write", "store"} /\ call.ok => m = sent

RingInv == Types /\ LastSent /\ HasRoom /\ Within /\ \E m \in Nat : HandedTo(m)

-----------------------------------------------------------------------------
LEMMA SizeIs == QSIZE \in Nat /\ QSIZE >= 2 /\ 0 \in Slot /\ Slot \subseteq Nat /\ \A s \in Slot : s < QSIZE
BY ApiAssumption DEF Slot

LEMMA DistanceIs ==
  ASSUME NEW a \in Slot, NEW b \in Slot
  PROVE  Distance(a, b) \in 0 .. QSIZE - 1 /\ Distance(a, b) \in Nat
BY SizeIs DEF Distance

LEMMA Basics ==
  ASSUME RingInv
  PROVE  /\ QSIZE \in Nat /\ QSIZE >= 2
         /\ txQueueRead \in Slot /\ txQueueRead \in Nat /\ txQueueRead < QSIZE
         /\ txQueueWrite \in Slot /\ txQueueWrite \in Nat /\ txQueueWrite < QSIZE
         /\ tx.writeSnapshot \in Slot /\ tx.writeSnapshot \in Nat /\ tx.writeSnapshot < QSIZE
         /\ tx.done \in Nat /\ sent \in Nat
         /\ Filled \in Nat /\ Filled < QSIZE
         /\ tx.at \in {"look", "one part", "two parts", "second part"}
<1>1. /\ txQueueRead \in Slot /\ txQueueWrite \in Slot /\ sent \in Nat
      /\ tx.writeSnapshot \in Slot /\ tx.done \in Nat
      /\ tx.at \in {"look", "one part", "two parts", "second part"}
  BY DEF RingInv, Types, IsTx
<1>2. /\ txQueueRead \in Nat /\ txQueueRead < QSIZE
      /\ txQueueWrite \in Nat /\ txQueueWrite < QSIZE
      /\ tx.writeSnapshot \in Nat /\ tx.writeSnapshot < QSIZE
  BY <1>1, SizeIs
<1>3. Filled \in Nat /\ Filled < QSIZE
  BY <1>2, SizeIs DEF Filled, Distance
<1> QED
  BY <1>1, <1>2, <1>3, SizeIs

LEMMA Initially == Init => RingInv
<1> SUFFICES ASSUME Init PROVE RingInv
  OBVIOUS
<1>1. Types
  BY SizeIs DEF Init, Types, IsCall, IsTx, Slot
<1>2. Filled = 0
  BY DEF Init, Filled, Distance
<1>3. LastSent /\ HasRoom /\ Within
  <2>1. \A s \in Slot : Distance(s, txQueueWrite) \in Nat
    BY <1>1, DistanceIs DEF Types
  <2>2. LastSent
    BY <1>2, <2>1 DEF LastSent
  <2>3. HasRoom
    BY <1>2, SizeIs DEF HasRoom
  <2>4. Within
    BY DEF Init, Within
  <2> QED BY <2>2, <2>3, <2>4
<1>4. HandedTo(0)
  BY <1>2 DEF Init, HandedTo
<1>5. QED
  BY <1>1, <1>3, <1>4 DEF RingInv

\* A message is put into the ring.
LEMMA SendKeeps ==
  ASSUME RingInv, NEW op, NEW lines, SendMessage(op, lines), call.at # "full", call'.at = "full",
         IsCall', UNCHANGED <<txQueueRead, tx, handed>>
  PROVE  RingInv'
<1> DEFINE w == txQueueWrite
           v == (txQueueWrite + 1) % QSIZE
<1>0. /\ QSIZE \in Nat /\ QSIZE >= 2 /\ \A s \in Slot : s \in Nat /\ s < QSIZE
      /\ txQueueRead \in Slot /\ w \in Slot /\ w \in Nat /\ sent \in Nat
      /\ tx.writeSnapshot \in Slot /\ tx.done \in Nat /\ Filled \in Nat /\ Filled <= QSIZE - 2
  BY Basics, SizeIs DEF RingInv, HasRoom
<1>1. v \in Slot /\ v = IF w + 1 < QSIZE THEN w + 1 ELSE 0
  <2>1. CASE w + 1 < QSIZE
    BY <1>0, <2>1 DEF Slot
  <2>2. CASE w + 1 = QSIZE
    BY <1>0, <2>2 DEF Slot
  <2> QED BY <1>0, <2>1, <2>2
<1>2. txQueueWrite' = v /\ sent' = sent + 1
  BY DEF SendMessage
<1> HIDE DEF v
<1>3. ASSUME NEW s \in Slot, Distance(s, w) <= QSIZE - 2
      PROVE  Distance(s, v) = Distance(s, w) + 1
  BY <1>0, <1>1, <1>3 DEF Distance
<1>4. Distance(w, v) = 1
  BY <1>0, <1>1 DEF Distance
<1>5. Filled' = Filled + 1
  BY <1>0, <1>2, <1>3 DEF Filled
<1>6. txQueue' = [s \in Slot |-> IF s = w
                    THEN [op |-> op, tid |-> txTransid, lines |-> lines, id |-> sent + 1]
                    ELSE txQueue[s]]
  BY <1>0 DEF SendMessage, RingInv, Types
<1>7. Types'
  <2>1. txQueue' = [s \in Slot |-> txQueue'[s]]
    BY <1>6
  <2>2. sent' \in Nat /\ txQueueWrite' \in Slot /\ txQueueRead' \in Slot
    BY <1>0, <1>1, <1>2
  <2>3. IsTx'
    BY DEF RingInv, Types, IsTx
  <2> QED BY <2>1, <2>2, <2>3 DEF Types
<1>8. LastSent'
  <2> SUFFICES ASSUME NEW s \in Slot, 1 <= Distance(s, v), Distance(s, v) <= Filled + 1
               PROVE  txQueue'[s].id = sent + 2 - Distance(s, v)
    <3>1. \A s \in Slot : Distance(s, v) \in Nat
      BY <1>1, DistanceIs
    <3>2. sent' + 1 = sent + 2
      BY <1>0, <1>2
    <3> QED BY <1>0, <1>2, <1>5, <3>1, <3>2 DEF LastSent
  <2>1. CASE s = w
    BY <1>0, <1>4, <1>6, <2>1
  <2>2. CASE s # w
    <3>1. Distance(s, w) \in 1 .. QSIZE - 1 /\ Distance(s, v) \in Nat /\ Filled \in Nat
      BY <1>0, <1>1, <2>2 DEF Distance, Filled
    <3>2. Distance(s, w) <= QSIZE - 2
      <4>1. SUFFICES ASSUME Distance(s, w) = QSIZE - 1 PROVE FALSE
        BY <1>0, <3>1
      <4>2. s = v
        BY <1>0, <1>1, <4>1 DEF Distance
      <4> QED BY <1>0, <4>2 DEF Distance
    <3>3. Distance(s, v) = Distance(s, w) + 1
      BY <1>3, <3>2
    <3>4. txQueue[s].id = sent + 1 - Distance(s, w)
      BY <1>0, <3>1, <3>3 DEF RingInv, LastSent
    <3> QED BY <1>0, <1>6, <2>2, <3>1, <3>3, <3>4
  <2> QED BY <2>1, <2>2
<1>9. HasRoom' /\ Within'
  <2>1. Filled \in Nat
    BY <1>0
  <2>2. Part' = Part
    BY DEF Part
  <2>4. HasRoom'
    BY DEF HasRoom
  <2>5. Within'
    <3> DEFINE d == Distance(txQueueRead, tx.writeSnapshot)
    <3>1. tx.at # "look" => /\ d <= Filled /\ tx.done <= Part
                            /\ tx.at = "one part" => txQueueRead < tx.writeSnapshot
                            /\ tx.at = "two parts" => tx.writeSnapshot < txQueueRead
                            /\ tx.at = "second part" => txQueueRead = 0
      BY DEF RingInv, Within
    <3>2. tx.at # "look" => d <= Filled'
      <4> HIDE DEF d
      <4>1. d \in Nat /\ Filled' = Filled + 1
        BY <1>0, <1>5, DistanceIs DEF d
      <4>2. d <= Filled => d <= Filled + 1
        BY <2>1, <4>1
      <4> QED BY <3>1, <4>1, <4>2
    <3>3. d' = d
      OBVIOUS
    <3> HIDE DEF d
    <3>4. Within' <=> (tx.at # "look" =>
                /\ d' <= Filled' /\ tx.done <= Part'
                /\ tx.at = "one part" => txQueueRead < tx.writeSnapshot
                /\ tx.at = "two parts" => tx.writeSnapshot < txQueueRead
                /\ tx.at = "second part" => txQueueRead = 0)
      BY DEF Within, d
    <3> QED BY <2>2, <3>1, <3>2, <3>3, <3>4
  <2> QED BY <2>4, <2>5
<1>10. \E m \in Nat : HandedTo(m)'
  <2>1. PICK m \in Nat : HandedTo(m)
    BY DEF RingInv
  <2>2. HandedTo(m)'
    <3>1. Filled \in Nat
      BY <1>0
    <3>2. sent' - Filled' = sent - Filled
      BY <1>0, <1>2, <1>5, <3>1
    <3> QED BY <1>0, <1>2, <2>1, <3>1, <3>2 DEF HandedTo
  <2> QED BY <2>2
<1>11. QED
  BY <1>7, <1>8, <1>9, <1>10 DEF RingInv

\* The program goes on without a message.
LEMMA CallKeeps ==
  ASSUME RingInv, IsCall', UNCHANGED <<txQueue, txQueueWrite, sent, txQueueRead, tx, handed>>,
         call.at = "full" /\ call'.at # "full" => ~Full,
         call'.at = "idle" /\ call'.kind \in {"write", "store"} /\ call'.ok =>
            isEmpty \/ (call.at = "idle" /\ call.kind = call'.kind /\ call.ok)
  PROVE  RingInv'
<1>0. /\ QSIZE \in Nat /\ QSIZE >= 2 /\ \A s \in Slot : s \in Nat /\ s < QSIZE
      /\ txQueueRead \in Slot /\ txQueueWrite \in Slot /\ sent \in Nat
      /\ Filled \in Nat /\ txQueueRead \in Nat /\ txQueueWrite \in Nat
      /\ txQueueRead < QSIZE /\ txQueueWrite < QSIZE
  BY Basics, SizeIs
<1>1. Filled' = Filled /\ Part' = Part /\ Filled \in Nat
  BY <1>0 DEF Filled, Part
<1>2. ~Full => Filled <= QSIZE - 2
  BY <1>0 DEF Full, Filled, Distance
<1>3. isEmpty => Filled = 0
  BY <1>0 DEF isEmpty, Filled, Distance
<1>4. Types'
  BY DEF RingInv, Types, IsTx
<1>5. LastSent' /\ Within'
  BY <1>1 DEF RingInv, LastSent, Within
<1>6. HasRoom'
  BY <1>1, <1>2 DEF RingInv, HasRoom
<1>7. \E m \in Nat : HandedTo(m)'
  <2>1. PICK m \in Nat : HandedTo(m)
    BY DEF RingInv
  <2>2. isEmpty => m = sent
    BY <1>0, <1>3, <2>1 DEF HandedTo
  <2> QED BY <1>1, <2>1, <2>2 DEF HandedTo
<1>8. QED
  BY <1>4, <1>5, <1>6, <1>7 DEF RingInv
-----------------------------------------------------------------------------
(***************************************************************************)
(* The tx thread.                                                          *)
(***************************************************************************)
LEMMA LookKeeps == ASSUME RingInv, TxLook PROVE RingInv'
<1>0. /\ QSIZE \in Nat /\ txQueueRead \in Nat /\ txQueueRead < QSIZE
      /\ txQueueWrite \in Slot /\ txQueueWrite \in Nat /\ Filled \in Nat /\ sent \in Nat
  BY Basics
<1>1. /\ UNCHANGED <<call, txQueue, txQueueRead, txQueueWrite, sent, handed>>
      /\ tx' = [at |-> IF txQueueWrite > txQueueRead THEN "one part" ELSE "two parts",
                writeSnapshot |-> txQueueWrite, done |-> 0]
      /\ txQueueRead # txQueueWrite
  BY DEF TxLook, isEmpty, ring
<1>2. Filled' = Filled /\ Filled \in Nat
  BY <1>1, Basics DEF Filled
<1>3. /\ tx'.at \in {"one part", "two parts"} /\ tx'.writeSnapshot = txQueueWrite /\ tx'.done = 0
      /\ tx'.at = "one part" <=> txQueueWrite > txQueueRead
  BY <1>1
<1>4. Types'
  <2>1. IsTx'
    BY <1>1, <1>3, Basics DEF IsTx
  <2> QED BY <1>1, <2>1 DEF RingInv, Types, IsCall
<1>5. LastSent' /\ HasRoom'
  BY <1>1, <1>2 DEF RingInv, LastSent, HasRoom
<1>6. Within'
  <2>1. Distance(txQueueRead', tx'.writeSnapshot) = Filled
    BY <1>1, <1>3 DEF Filled
  <2>2. Part' = IF txQueueWrite > txQueueRead THEN txQueueWrite - txQueueRead
                                              ELSE QSIZE - txQueueRead
    BY <1>1, <1>3 DEF Part
  <2>3. txQueueWrite > txQueueRead \/ txQueueWrite < txQueueRead
    <3>1. txQueueRead # txQueueWrite
      BY <1>1
    <3> QED BY <1>0, <3>1
  <2>4. 0 <= Part'
    BY <1>0, <2>2
  <2>5. Filled <= Filled
    BY <1>0
  <2> QED BY <1>1, <1>2, <1>3, <2>1, <2>3, <2>4, <2>5 DEF Within
<1>7. \E m \in Nat : HandedTo(m)'
  <2>1. PICK m \in Nat : HandedTo(m)
    BY DEF RingInv
  <2>2. sent - Filled + 0 = sent - Filled
    BY <1>0
  <2>3. HandedTo(m)'
    BY <1>1, <1>2, <1>3, <2>1, <2>2 DEF HandedTo
  <2> QED BY <2>3
<1>8. QED
  BY <1>4, <1>5, <1>6, <1>7 DEF RingInv

\* What it hands over comes after what it has handed over, or did so before.
LEMMA WriteKeeps ==
  ASSUME RingInv, NEW n \in 1 .. QSIZE, TxWrite(n)
  PROVE  RingInv'
<1> DEFINE first == txQueueRead + tx.done
<1>0. /\ QSIZE \in Nat /\ QSIZE >= 2
      /\ txQueueRead \in Nat /\ txQueueRead < QSIZE
      /\ txQueueWrite \in Nat /\ txQueueWrite < QSIZE
      /\ tx.writeSnapshot \in Slot /\ tx.writeSnapshot \in Nat /\ tx.writeSnapshot < QSIZE
      /\ tx.done \in Nat /\ sent \in Nat
      /\ Filled \in Nat /\ Filled < QSIZE
  BY Basics
<1>a. n \in Nat /\ n >= 1
  BY <1>0
<1>b. tx.done + n <= Part
  BY DEF TxWrite
<1>1. /\ tx.at = "one part" \/ tx.at = "two parts" \/ tx.at = "second part"
      /\ tx.at # "look" /\ tx.done + n <= Part
      /\ tx' = [tx EXCEPT !.done = @ + n]
      /\ UNCHANGED <<call, txQueue, txQueueWrite, sent, txQueueRead>>
  BY Basics DEF TxWrite, ring
<1>2. Filled' = Filled
  BY <1>0, <1>1 DEF Filled
<1>3. /\ tx'.at = tx.at /\ tx'.writeSnapshot = tx.writeSnapshot /\ tx'.done = tx.done + n
      /\ tx' = [at |-> tx.at, writeSnapshot |-> tx.writeSnapshot, done |-> tx.done + n]
  <2>1. tx = [at |-> tx.at, writeSnapshot |-> tx.writeSnapshot, done |-> tx.done]
    BY DEF RingInv, Types, IsTx
  <2> QED BY <1>1, <2>1
<1>4. Part' = Part
  BY <1>1, <1>3 DEF Part
<1>5. /\ Distance(txQueueRead, tx.writeSnapshot) <= Filled
      /\ tx.at = "one part" => txQueueRead < tx.writeSnapshot
      /\ tx.at = "two parts" => tx.writeSnapshot < txQueueRead
      /\ tx.at = "second part" => txQueueRead = 0
  BY <1>1 DEF RingInv, Within
<1>6. Part \in Nat /\ Part <= Filled /\ txQueueRead + Part <= QSIZE
  <2> DEFINE d == Distance(txQueueRead, tx.writeSnapshot)
  <2>1. d = IF tx.writeSnapshot >= txQueueRead THEN tx.writeSnapshot - txQueueRead
                                              ELSE tx.writeSnapshot - txQueueRead + QSIZE
    BY DEF Distance
  <2>2. d <= Filled
    BY <1>5
  <2> HIDE DEF d
  <2>3. CASE tx.at = "one part"
    <3>1. Part = tx.writeSnapshot - txQueueRead /\ txQueueRead < tx.writeSnapshot
      BY <1>5, <2>3 DEF Part
    <3> QED BY <1>0, <2>1, <2>2, <3>1
  <2>4. CASE tx.at = "two parts"
    <3>1. Part = QSIZE - txQueueRead /\ tx.writeSnapshot < txQueueRead
      BY <1>5, <2>4 DEF Part
    <3> QED BY <1>0, <2>1, <2>2, <3>1
  <2>5. CASE tx.at = "second part"
    <3>1. Part = tx.writeSnapshot /\ txQueueRead = 0
      BY <1>5, <2>5 DEF Part
    <3> QED BY <1>0, <2>1, <2>2, <3>1
  <2> QED BY <1>1, <2>3, <2>4, <2>5
<1>7. Types' /\ LastSent' /\ HasRoom'
  <2>1. IsTx'
    <3>1. tx.done + n \in Nat
      BY <1>0, <1>a
    <3> QED BY <1>0, <1>1, <1>3, <3>1 DEF IsTx
  <2> QED BY <1>1, <1>2, <2>1 DEF RingInv, Types, LastSent, HasRoom, IsCall
<1>8. Within'
  BY <1>1, <1>2, <1>3, <1>4, <1>5 DEF Within
<1>9. ASSUME NEW i \in 1 .. n
      PROVE  txQueue[first + i - 1].id = sent - Filled + tx.done + i
  <2> DEFINE s == first + i - 1
  <2>0. i \in Nat /\ 1 <= i /\ i <= n /\ txQueueRead \in Nat
    BY <1>0
  <2>1. /\ s \in Nat /\ s < QSIZE /\ s - txQueueRead \in Nat
        /\ s - txQueueRead < Part /\ s - txQueueRead = tx.done + i - 1
    BY <1>0, <1>a, <1>b, <1>6, <2>0
  <2>2. s \in Slot
    BY <1>0, <2>1 DEF Slot
  <2> DEFINE d == Distance(s, txQueueWrite)
  <2>3. d = IF txQueueWrite >= s THEN txQueueWrite - s ELSE txQueueWrite - s + QSIZE
    BY DEF Distance
  <2>4. Filled = IF txQueueWrite >= txQueueRead THEN txQueueWrite - txQueueRead
                                                ELSE txQueueWrite - txQueueRead + QSIZE
    BY DEF Filled, Distance
  <2>5. 1 <= d /\ d <= Filled => txQueue[s].id = sent + 1 - d
    BY <2>2 DEF RingInv, LastSent
  <2> HIDE DEF s, d
  <2>6. d = Filled - (s - txQueueRead) /\ 1 <= d /\ d <= Filled
    BY <1>0, <1>6, <2>1, <2>3, <2>4
  <2>7. txQueue[s].id = sent + 1 - d
    BY <2>5, <2>6
  <2>8. sent + 1 - d = sent - Filled + tx.done + i
    BY <1>0, <2>0, <2>1, <2>6
  <2>9. s = first + i - 1
    BY DEF s
  <2> QED BY <2>7, <2>8, <2>9
<1>10. \E m \in Nat : HandedTo(m)'
  <2>1. PICK m \in Nat : HandedTo(m)
    BY DEF RingInv
  <2> DEFINE base == sent - Filled + tx.done
             last == base + n
             top == IF last <= m THEN m ELSE last
  <2>2. /\ handed = 1 .. m /\ base <= m /\ m <= sent /\ sent - Filled <= m /\ 0 <= sent - Filled
        /\ call.at = "idle" /\ call.kind \in {"write", "store"} /\ call.ok => m = sent
    BY <1>1, <2>1 DEF HandedTo
  <2>3. base \in Nat /\ last \in Int /\ last <= sent /\ top \in Nat /\ top <= sent /\ m <= top
        /\ last <= top
    BY <1>0, <1>a, <1>b, <1>6, <2>2
  <2>4. handed' = handed \cup {txQueue[first + i - 1].id : i \in 1 .. n}
    BY DEF TxWrite
  <2>5. {txQueue[first + i - 1].id : i \in 1 .. n} = {base + i : i \in 1 .. n}
    BY <1>9
  <2>6. handed' = 1 .. top
    <3>0. last = base + n /\ top = IF last <= m THEN m ELSE last
      OBVIOUS
    <3> HIDE DEF base, last, top
    <3>1. \A x \in {base + i : i \in 1 .. n} : x \in 1 .. top
      BY <1>a, <2>3, <3>0
    <3>2. \A x \in 1 .. top : x \in 1 .. m \/ x \in {base + i : i \in 1 .. n}
      <4> SUFFICES ASSUME NEW x \in 1 .. top, x \notin 1 .. m
                   PROVE  x \in {base + i : i \in 1 .. n}
        OBVIOUS
      <4>1. x - base \in 1 .. n /\ x = base + (x - base)
        <5>1. x \in Nat /\ x > m /\ x <= last /\ base <= m
          BY <2>2, <2>3, <3>0
        <5> QED BY <1>a, <2>3, <3>0, <5>1
      <4> QED BY <4>1
    <3>3. handed' = (1 .. m) \cup {base + i : i \in 1 .. n}
      BY <2>2, <2>4, <2>5
    <3>4. 1 .. m \subseteq 1 .. top
      BY <2>3
    <3> QED BY <3>1, <3>2, <3>3, <3>4
  <2>7. sent' - Filled' + tx'.done = last
    <3>1. sent' = sent /\ tx'.done = tx.done + n /\ Filled' = Filled
      BY <1>1, <1>2, <1>3
    <3>2. sent - Filled + (tx.done + n) = last
      BY <1>0, <1>a
    <3> QED BY <3>1, <3>2
  <2>8. m = sent => top = sent
    BY <1>0, <2>3
  <2> HIDE DEF base, last, top
  <2>9. PICK k \in Nat : k = top
    BY <2>3
  <2>10. HandedTo(k)'
    <3>1. sent' = sent /\ call' = call /\ Filled' = Filled
      BY <1>1, <1>2
    <3>2. sent - Filled <= k /\ k <= sent /\ last <= k
      BY <1>0, <2>2, <2>3, <2>9
    <3> QED BY <2>2, <2>6, <2>7, <2>8, <2>9, <3>1, <3>2 DEF HandedTo
  <2> QED BY <2>10
<1>11. QED
  BY <1>7, <1>8, <1>10 DEF RingInv

\* How the distance to w shrinks when r moves towards x, which is not beyond w.
LEMMA MovingOn ==
  ASSUME NEW r \in Slot, NEW w \in Slot, NEW x \in Slot, Distance(r, x) <= Distance(r, w)
  PROVE  /\ r < x => Distance(r, w) >= 1 /\ Distance(r + 1, w) = Distance(r, w) - 1
         /\ x < r => /\ QSIZE - r \in Nat /\ QSIZE - r <= Distance(r, w)
                     /\ Distance(0, w) = Distance(r, w) - (QSIZE - r) /\ x <= Distance(0, w)
         /\ r = 0 => x <= Distance(r, w) /\ Distance(x, w) = Distance(r, w) - x
<1>1. /\ r \in Nat /\ r < QSIZE /\ w \in Nat /\ w < QSIZE /\ x \in Nat /\ x < QSIZE
      /\ QSIZE \in Nat /\ QSIZE >= 2
  BY SizeIs
<1>2. QED
  BY <1>1 DEF Distance

\* The messages that leave the ring are among those it is through with.
LEMMA AdvanceKeeps == ASSUME RingInv, TxAdvance PROVE RingInv'
<1>0. /\ QSIZE \in Nat /\ QSIZE >= 2
      /\ txQueueRead \in Nat /\ txQueueRead < QSIZE
      /\ txQueueWrite \in Nat /\ txQueueWrite < QSIZE
      /\ tx.writeSnapshot \in Slot /\ tx.writeSnapshot \in Nat /\ tx.writeSnapshot < QSIZE
      /\ tx.done \in Nat /\ sent \in Nat
      /\ Filled \in Nat /\ Filled < QSIZE
  BY Basics
<1>1. /\ tx.at # "look" /\ tx.done = Part /\ txQueueRead' = Advanced
      /\ UNCHANGED <<call, txQueue, txQueueWrite, sent, handed>>
  BY DEF TxAdvance, ring
<1>2. tx.at = "one part" \/ tx.at = "two parts" \/ tx.at = "second part"
  BY <1>1, Basics
<1>3. /\ tx'.at = (IF tx.at = "two parts" THEN "second part" ELSE "look")
      /\ tx'.writeSnapshot = tx.writeSnapshot /\ tx'.done = 0
      /\ tx' = [at |-> tx'.at, writeSnapshot |-> tx.writeSnapshot, done |-> 0]
  <2>1. tx = [at |-> tx.at, writeSnapshot |-> tx.writeSnapshot, done |-> tx.done]
    BY DEF RingInv, Types, IsTx
  <2>2. tx' = [tx EXCEPT !.at = IF @ = "two parts" THEN "second part" ELSE "look", !.done = 0]
    BY DEF TxAdvance
  <2> QED BY <2>1, <2>2
<1>4. Filled = Distance(txQueueRead, txQueueWrite) /\ Filled' = Distance(txQueueRead', txQueueWrite)
  BY <1>1 DEF Filled
<1>5. /\ tx.at = "one part" => txQueueRead < tx.writeSnapshot
      /\ tx.at = "two parts" => tx.writeSnapshot < txQueueRead
      /\ tx.at = "second part" => txQueueRead = 0
  BY <1>1 DEF RingInv, Within
<1>6. /\ txQueueRead < tx.writeSnapshot =>
           Filled >= 1 /\ Distance(txQueueRead + 1, txQueueWrite) = Filled - 1
      /\ tx.writeSnapshot < txQueueRead =>
           /\ QSIZE - txQueueRead \in Nat /\ QSIZE - txQueueRead <= Filled
           /\ Distance(0, txQueueWrite) = Filled - (QSIZE - txQueueRead)
           /\ tx.writeSnapshot <= Distance(0, txQueueWrite)
      /\ txQueueRead = 0 => /\ tx.writeSnapshot <= Filled
                            /\ Distance(tx.writeSnapshot, txQueueWrite) = Filled - tx.writeSnapshot
  <2>1. txQueueRead \in Slot /\ txQueueWrite \in Slot /\ tx.writeSnapshot \in Slot
    BY Basics
  <2>2. Distance(txQueueRead, tx.writeSnapshot) <= Distance(txQueueRead, txQueueWrite)
    BY <1>1 DEF RingInv, Within, Filled
  <2> QED BY <2>1, <2>2, MovingOn DEF Filled
<1>7. /\ txQueueRead' \in Slot
      /\ \E k \in Nat : k <= tx.done /\ k <= Filled /\ Filled' = Filled - k
      /\ tx.at = "two parts" => txQueueRead' = 0 /\ tx.writeSnapshot <= Filled'
  <2>1. CASE tx.at = "one part"
    <3>1. Part = tx.writeSnapshot - txQueueRead /\ Advanced = (txQueueRead + 1) % QSIZE
      BY <2>1 DEF Part, Advanced
    <3>2. txQueueRead < tx.writeSnapshot
      BY <1>5, <2>1
    <3>3. tx.done >= 1
      BY <1>0, <1>1, <3>1, <3>2
    <3>4. txQueueRead + 1 < QSIZE
      BY <1>0, <3>2
    <3>5. (txQueueRead + 1) % QSIZE = txQueueRead + 1
      BY <1>0, <3>4
    <3>6. txQueueRead' = txQueueRead + 1
      BY <1>1, <3>1, <3>5
    <3>7. txQueueRead' \in Slot
      BY <1>0, <3>4, <3>6 DEF Slot
    <3>8. Filled >= 1 /\ Filled' = Filled - 1
      BY <1>4, <1>6, <3>2, <3>6
    <3> QED BY <2>1, <3>3, <3>7, <3>8
  <2>2. CASE tx.at = "two parts"
    <3>1. Part = QSIZE - txQueueRead /\ txQueueRead' = 0
      BY <1>1, <2>2 DEF Part, Advanced
    <3>2. tx.done = QSIZE - txQueueRead
      BY <1>1, <3>1
    <3>3. Filled' = Distance(0, txQueueWrite)
      BY <1>4, <3>1
    <3>4. /\ QSIZE - txQueueRead \in Nat /\ QSIZE - txQueueRead <= Filled
          /\ Filled' = Filled - (QSIZE - txQueueRead) /\ tx.writeSnapshot <= Filled'
      BY <1>5, <1>6, <2>2, <3>3
    <3>5. QSIZE - txQueueRead <= tx.done
      BY <1>0, <3>2
    <3>6. \E k \in Nat : k <= tx.done /\ k <= Filled /\ Filled' = Filled - k
      BY <3>4, <3>5
    <3>7. txQueueRead' \in Slot
      BY <3>1, SizeIs
    <3> QED BY <3>1, <3>4, <3>6, <3>7
  <2>3. CASE tx.at = "second part"
    <3>1. Part = tx.writeSnapshot /\ txQueueRead' = tx.writeSnapshot /\ txQueueRead = 0
      BY <1>1, <1>5, <2>3 DEF Part, Advanced
    <3>2. tx.writeSnapshot <= Filled /\ Filled' = Filled - tx.writeSnapshot
      BY <1>4, <1>6, <3>1
    <3>3. tx.writeSnapshot <= tx.done
      <4>1. tx.done = tx.writeSnapshot
        BY <1>1, <3>1
      <4> QED BY <1>0, <4>1
    <3>4. \E k \in Nat : k <= tx.done /\ k <= Filled /\ Filled' = Filled - k
      BY <1>0, <3>2, <3>3
    <3> QED BY <1>0, <2>3, <3>1, <3>4
  <2> QED BY <1>2, <2>1, <2>2, <2>3
<1>8. PICK k \in Nat : k <= tx.done /\ k <= Filled /\ Filled' = Filled - k
  BY <1>7
<1>9. Types'
  <2>0. tx'.at \in {"look", "second part"} /\ 0 \in Nat
    BY <1>3
  <2>1. IsTx'
    BY <1>0, <1>3, <2>0 DEF IsTx
  <2> QED BY <1>1, <1>7, <2>1 DEF RingInv, Types, IsCall
<1>10. Filled' \in Nat /\ Filled' <= Filled
  BY <1>0, <1>8
<1>11. LastSent'
  <2> SUFFICES ASSUME NEW s \in Slot, 1 <= Distance(s, txQueueWrite),
                      Distance(s, txQueueWrite) <= Filled'
               PROVE  txQueue[s].id = sent + 1 - Distance(s, txQueueWrite)
    BY <1>1 DEF LastSent
  <2> DEFINE d == Distance(s, txQueueWrite)
  <2>1. d \in Nat
    BY DistanceIs DEF RingInv, Types
  <2>2. 1 <= d /\ d <= Filled => txQueue[s].id = sent + 1 - d
    BY DEF RingInv, LastSent
  <2>3. 1 <= d /\ d <= Filled'
    OBVIOUS
  <2> HIDE DEF d
  <2>4. txQueue[s].id = sent + 1 - d
    BY <1>0, <1>10, <2>1, <2>2, <2>3
  <2> QED BY <2>4 DEF d
<1>12. HasRoom'
  <2>1. call.at # "full" => Filled <= QSIZE - 2
    BY DEF RingInv, HasRoom
  <2>2. Filled <= QSIZE - 2 => Filled' <= QSIZE - 2
    BY <1>0, <1>10
  <2> QED BY <1>1, <2>1, <2>2 DEF HasRoom
<1>13. Within'
  <2>1. CASE tx.at = "two parts"
    <3>1. tx'.at = "second part" /\ Part' = tx.writeSnapshot
      BY <1>3, <2>1 DEF Part
    <3>2. Distance(txQueueRead, tx.writeSnapshot)' = tx.writeSnapshot
      <4>1. txQueueRead' = 0 /\ tx'.writeSnapshot = tx.writeSnapshot
        BY <1>3, <1>7, <2>1
      <4>2. Distance(0, tx.writeSnapshot) = tx.writeSnapshot
        BY <1>0 DEF Distance
      <4> QED BY <4>1, <4>2
    <3>3. tx.writeSnapshot <= Filled'
      BY <1>7, <2>1
    <3>4. 0 <= tx.writeSnapshot
      BY <1>0
    <3> QED BY <1>3, <1>7, <2>1, <3>1, <3>2, <3>3, <3>4 DEF Within
  <2>2. CASE tx.at # "two parts"
    BY <1>3, <2>2 DEF Within
  <2> QED BY <2>1, <2>2
<1>14. \E m \in Nat : HandedTo(m)'
  <2>1. PICK m \in Nat : HandedTo(m)
    BY DEF RingInv
  <2>2. /\ handed = 1 .. m /\ 0 <= sent - Filled /\ m <= sent /\ sent - Filled + tx.done <= m
        /\ call.at = "idle" /\ call.kind \in {"write", "store"} /\ call.ok => m = sent
    BY <1>1, <2>1 DEF HandedTo
  <2>3. /\ 0 <= sent - Filled' /\ sent - Filled' <= m /\ sent - Filled' + 0 <= m
    BY <1>0, <1>8, <2>2
  <2>4. HandedTo(m)'
    BY <1>1, <1>3, <2>2, <2>3 DEF HandedTo
  <2> QED BY <2>4
<1>15. QED
  BY <1>9, <1>11, <1>12, <1>13, <1>14 DEF RingInv

-----------------------------------------------------------------------------
(***************************************************************************)
(* The program's steps, and those that leave the ring alone.               *)
(***************************************************************************)
IsFrame == UNCHANGED <<txQueue, txQueueWrite, sent, txQueueRead, tx, handed>>

LEMMA NothingKeeps == ASSUME RingInv, IsFrame, UNCHANGED call PROVE RingInv'
<1>1. IsCall'
  BY DEF RingInv, Types, IsCall
<1>2. QED
  BY <1>1, CallKeeps DEF IsFrame

LEMMA TransferKeeps ==
  ASSUME RingInv, NEW kind, NEW line, TransferPacket(kind, line)
  PROVE  RingInv'
<1>1. /\ call.at = "idle"
      /\ call' = [at |-> "full", kind |-> kind, todo |-> <<line>>, ok |-> TRUE, data |-> <<>>]
      /\ SendMessage(IF kind = "read" THEN "read" ELSE "write", <<line>>)
      /\ UNCHANGED <<txQueueRead, tx, handed>>
  BY DEF TransferPacket, Begin
<1>2. IsCall' /\ call'.at = "full" /\ call.at # "full"
  BY <1>1 DEF IsCall
<1>3. QED
  BY <1>1, <1>2, SendKeeps

LEMMA PrepareKeeps == ASSUME RingInv, NEW kind, DmaPrepare(kind) PROVE RingInv'
<1>1. /\ call.at = "idle" /\ IsFrame
      /\ call' = [at |-> "prepared", kind |-> kind, todo |-> All, ok |-> TRUE, data |-> <<>>]
  BY DEF DmaPrepare, Begin, ring, IsFrame
<1>2. IsCall' /\ call'.at = "prepared"
  BY <1>1 DEF IsCall
<1>3. QED
  BY <1>1, <1>2, CallKeeps DEF IsFrame

LEMMA ProgramKeeps == ASSUME RingInv, Program PROVE RingInv'
<1>0. call = [at |-> call.at, kind |-> call.kind, todo |-> call.todo, ok |-> call.ok,
              data |-> call.data]
  BY DEF RingInv, Types, IsCall
<1>1. CASE SendBlock
  <2>1. /\ call.at = "prepared" /\ call' = [call EXCEPT !.at = "full", !.todo = <<>>]
        /\ SendMessage("read", All) /\ UNCHANGED <<txQueueRead, tx, handed>>
    BY <1>1 DEF SendBlock
  <2>2. IsCall' /\ call'.at = "full" /\ call.at # "full"
    BY <1>0, <2>1 DEF IsCall
  <2> QED BY <2>1, <2>2, SendKeeps
<1>2. CASE DmaTransfer
  <2>1. /\ call.at = "prepared" /\ call' = [call EXCEPT !.at = "full", !.todo = Tail(@)]
        /\ SendMessage("write", <<Head(call.todo)>>) /\ UNCHANGED <<txQueueRead, tx, handed>>
    BY <1>2 DEF DmaTransfer
  <2>2. IsCall' /\ call'.at = "full" /\ call.at # "full"
    BY <1>0, <2>1 DEF IsCall
  <2> QED BY <2>1, <2>2, SendKeeps
<1>3. CASE MessageSent
  <2>1. PICK at \in {"prepared", "wait"} : call' = [call EXCEPT !.at = at]
    BY <1>3 DEF MessageSent
  <2>2. ~Full /\ IsFrame
    BY <1>3 DEF MessageSent, ring, IsFrame
  <2>3. IsCall' /\ call'.at # "idle"
    BY <1>0, <2>1 DEF IsCall
  <2> QED BY <2>2, <2>3, CallKeeps DEF IsFrame
<1>4. ASSUME NEW ok, NEW data, PioReturns(ok, data), call.at = "wait",
             ok => call.kind = "read" \/ call.kind = "post" \/ isEmpty
      PROVE  RingInv'
  <2>1. call' = [call EXCEPT !.at = "idle", !.ok = ok, !.data = data] /\ IsFrame
    BY <1>4 DEF PioReturns, ring, IsFrame
  <2>2. IsCall' /\ call'.at = "idle" /\ call'.kind = call.kind /\ call'.ok = ok
    BY <1>0, <2>1 DEF IsCall
  <2> QED BY <1>4, <2>1, <2>2, CallKeeps DEF IsFrame
<1>5. CASE ReadReturns
  BY <1>4, <1>5 DEF ReadReturns
<1>6. CASE WriteReturns
  BY <1>4, <1>6 DEF WriteReturns
<1>7. CASE PioTimesOut
  BY <1>4, <1>7 DEF PioTimesOut
<1>8. CASE DmaComplete
  <2>1. /\ call.at = "wait" /\ (call.kind = "block" \/ isEmpty)
        /\ call' = [call EXCEPT !.at = "idle", !.data = memBlock] /\ IsFrame
    BY <1>8 DEF DmaComplete, ring, IsFrame
  <2>2. IsCall' /\ call'.at = "idle" /\ call'.kind = call.kind
    BY <1>0, <2>1 DEF IsCall
  <2> QED BY <2>1, <2>2, CallKeeps DEF IsFrame
<1>9. CASE DmaTimesOut
  <2>1. call.at = "wait" /\ call' = [call EXCEPT !.ok = FALSE] /\ IsFrame
    BY <1>9 DEF DmaTimesOut, ring, IsFrame
  <2>2. IsCall' /\ call'.at = "wait"
    BY <1>0, <2>1 DEF IsCall
  <2> QED BY <2>1, <2>2, CallKeeps DEF IsFrame
<1>10. QED
  BY <1>1, <1>2, <1>3, <1>5, <1>6, <1>7, <1>8, <1>9 DEF Program, Returns

LEMMA StepKeeps == ASSUME RingInv, [Next]_vars PROVE RingInv'
<1>1. CASE \E kind \in {"read", "write", "post"}, line \in Lines : TransferPacket(kind, line)
  BY <1>1, TransferKeeps
<1>2. CASE \E kind \in {"block", "store"} : DmaPrepare(kind)
  BY <1>2, PrepareKeeps
<1>3. CASE Program
  BY <1>3, ProgramKeeps
<1>4. CASE TxRun
  BY <1>4, LookKeeps, AdvanceKeeps, WriteKeeps DEF TxRun
<1>5. CASE Board \/ Receive
  <2>1. IsFrame /\ UNCHANGED call
    BY <1>5 DEF Board, Receive, BoardWrites, BoardAnswers, RxMatch, RxPio, DmaReceive, ring,
                IsFrame
  <2> QED BY <2>1, NothingKeeps
<1>6. CASE UNCHANGED vars
  <2>1. IsFrame /\ UNCHANGED call
    BY <1>6 DEF vars, ring, IsFrame
  <2> QED BY <2>1, NothingKeeps
<1>7. QED
  BY <1>1, <1>2, <1>3, <1>4, <1>5, <1>6 DEF Next

-----------------------------------------------------------------------------
LEMMA InvHolds == RingInv => WritesHandedOver
<1> SUFFICES ASSUME RingInv PROVE WritesHandedOver
  OBVIOUS
<1>1. PICK m \in Nat : HandedTo(m)
  BY DEF RingInv
<1>2. handed = 1 .. m
  BY <1>1 DEF HandedTo
<1>3. Cardinality(1 .. m) = m
  BY FS_Interval
<1>4. Done("write") \/ Done("store") => m = sent
  BY <1>1 DEF Done, HandedTo
<1>5. QED
  BY <1>2, <1>3, <1>4 DEF WritesHandedOver

(***************************************************************************)
(* The tx thread (txThread::run) hands over the messages of the ring in    *)
(* order and leaves none out, and all of them before a write returns true, *)
(* although it works with a snapshot of the write pointer and moves the    *)
(* read pointer by less than it has written.                               *)
(***************************************************************************)
THEOREM MessagesHandedOver == Spec => []WritesHandedOver
<1>1. RingInv /\ [Next]_vars => RingInv'
  BY StepKeeps
<1>2. QED
  BY Initially, <1>1, InvHolds, PTL DEF Spec

-----------------------------------------------------------------------------
(***************************************************************************)
(* What a read returns.                                                    *)
(***************************************************************************)
\* Slot s has one of the messages of the ring; the thread is through with those
\* up to number Upto.
InRing(s) == LET d == Distance(s, txQueueWrite) IN 1 <= d /\ d <= Filled
Upto == sent - Filled + tx.done

LEMMA Numbers ==
  ASSUME RingInv
  PROVE  /\ sent \in Nat /\ Filled \in Nat /\ sent - Filled \in Nat
         /\ Upto \in Nat /\ (tx.at # "look" \/ tx.done = 0 => Upto <= sent)
         /\ \A s \in Slot : InRing(s) =>
              /\ txQueue[s].id = sent + 1 - Distance(s, txQueueWrite)
              /\ txQueue[s].id \in Nat /\ sent - Filled < txQueue[s].id /\ txQueue[s].id <= sent
<1>1. sent \in Nat /\ Filled \in Nat /\ tx.done \in Nat
  BY Basics
<1>2. 0 <= sent - Filled /\ (tx.at # "look" => sent - Filled + tx.done <= sent)
  <2>1. PICK m \in Nat : HandedTo(m)
    BY DEF RingInv
  <2>2. /\ 0 <= sent - Filled /\ m <= sent
        /\ tx.at # "look" => sent - Filled + tx.done <= m
    BY <2>1 DEF HandedTo
  <2> QED BY <1>1, <2>2
<1>3. ASSUME NEW s \in Slot, InRing(s)
      PROVE  /\ txQueue[s].id = sent + 1 - Distance(s, txQueueWrite)
             /\ txQueue[s].id \in Nat /\ sent - Filled < txQueue[s].id /\ txQueue[s].id <= sent
  <2>1. Distance(s, txQueueWrite) \in Nat
    BY DistanceIs DEF RingInv, Types
  <2>2. /\ 1 <= Distance(s, txQueueWrite) /\ Distance(s, txQueueWrite) <= Filled
        /\ txQueue[s].id = sent + 1 - Distance(s, txQueueWrite)
    BY <1>3 DEF InRing, RingInv, LastSent
  <2> QED BY <1>1, <1>2, <2>1, <2>2
<1>4. Upto \in Nat /\ (tx.at # "look" \/ tx.done = 0 => Upto <= sent)
  BY <1>1, <1>2 DEF Upto
<1>5. QED
  BY <1>1, <1>2, <1>3, <1>4

\* A message is put into the ring,
LEMMA RingGains ==
  ASSUME RingInv, NEW op, NEW lines, SendMessage(op, lines), call.at # "full",
         UNCHANGED <<txQueueRead, tx>>
  PROVE  /\ Upto' = Upto /\ sent' = sent + 1 /\ txQueueWrite \in Slot
         /\ \A s \in Slot : InRing(s)' => s = txQueueWrite \/ (InRing(s) /\ txQueue'[s] = txQueue[s])
         /\ txQueue'[txQueueWrite] = [op |-> op, tid |-> txTransid, lines |-> lines, id |-> sent + 1]
         /\ Filled' = Filled + 1
<1> DEFINE w == txQueueWrite
           v == (txQueueWrite + 1) % QSIZE
<1>0. /\ QSIZE \in Nat /\ QSIZE >= 2 /\ \A s \in Slot : s \in Nat /\ s < QSIZE
      /\ txQueueRead \in Slot /\ w \in Slot /\ w \in Nat /\ sent \in Nat
      /\ tx.done \in Nat /\ Filled \in Nat /\ Filled <= QSIZE - 2
  BY Basics, SizeIs DEF RingInv, HasRoom
<1>1. v = (IF w + 1 < QSIZE THEN w + 1 ELSE 0) /\ v \in Nat /\ v < QSIZE
  <2>1. CASE w + 1 < QSIZE
    BY <1>0, <2>1
  <2>2. CASE w + 1 = QSIZE
    BY <1>0, <2>2
  <2> QED BY <1>0, <2>1, <2>2
<1>2. txQueueWrite' = v /\ sent' = sent + 1
  BY DEF SendMessage
<1> HIDE DEF v
<1>3. ASSUME NEW s \in Slot, s # w
      PROVE  /\ Distance(s, v) = Distance(s, w) + 1 \/ Distance(s, v) = 0
             /\ Distance(s, w) \in Nat
             /\ Distance(s, w) <= QSIZE - 2 => Distance(s, v) = Distance(s, w) + 1
  BY <1>0, <1>1, <1>3 DEF Distance
<1>4. Filled' = Filled + 1
  <2>1. CASE txQueueRead = w
    BY <1>0, <1>1, <1>2, <2>1 DEF Filled, Distance
  <2>2. CASE txQueueRead # w
    BY <1>0, <1>2, <1>3, <2>2 DEF Filled
  <2> QED BY <2>1, <2>2
<1>5. Upto' = Upto
  BY <1>0, <1>2, <1>4 DEF Upto
<1>6. txQueue' = [s \in Slot |-> IF s = w
                    THEN [op |-> op, tid |-> txTransid, lines |-> lines, id |-> sent + 1]
                    ELSE txQueue[s]]
  BY <1>0 DEF SendMessage, RingInv, Types
<1>7. ASSUME NEW s \in Slot, InRing(s)', s # w PROVE InRing(s) /\ txQueue'[s] = txQueue[s]
  <2>1. 1 <= Distance(s, v) /\ Distance(s, v) <= Filled + 1
    BY <1>2, <1>4, <1>7 DEF InRing
  <2>2. Distance(s, w) <= Filled /\ Distance(s, v) = Distance(s, w) + 1
    BY <1>0, <1>3, <1>7, <2>1
  <2>3. Distance(s, w) # 0
    BY <1>0, <1>7 DEF Distance
  <2> QED BY <1>3, <1>6, <1>7, <2>2, <2>3 DEF InRing
<1>8. QED
  BY <1>0, <1>2, <1>4, <1>5, <1>6, <1>7

\* some of them are handed over,
LEMMA RingHanded ==
  ASSUME RingInv, NEW n \in 1 .. QSIZE, TxWrite(n)
  PROVE  /\ tx.at # "look" /\ tx'.at = tx.at /\ Upto' = Upto + n /\ Upto + n <= sent
         /\ Filled' = Filled
         /\ \A s \in Slot : InRing(s)' <=> InRing(s)
         /\ \A i \in 1 .. n : LET s == txQueueRead + tx.done + i - 1 IN
              s \in Slot /\ InRing(s) /\ txQueue[s].id = Upto + i
<1>0. /\ QSIZE \in Nat /\ QSIZE >= 2
      /\ txQueueRead \in Nat /\ txQueueRead < QSIZE
      /\ txQueueWrite \in Nat /\ txQueueWrite < QSIZE
      /\ tx.writeSnapshot \in Nat /\ tx.writeSnapshot < QSIZE
      /\ tx.done \in Nat /\ sent \in Nat
      /\ Filled \in Nat /\ Filled < QSIZE
  BY Basics
<1>a. n \in Nat /\ n >= 1
  BY <1>0
<1>1. /\ tx.at = "one part" \/ tx.at = "two parts" \/ tx.at = "second part"
      /\ tx.at # "look" /\ tx.done + n <= Part
      /\ tx' = [tx EXCEPT !.done = @ + n]
      /\ UNCHANGED <<txQueue, txQueueWrite, sent, txQueueRead>>
  BY Basics DEF TxWrite, ring
<1>2. Filled' = Filled
  BY <1>0, <1>1 DEF Filled
<1>3. tx'.at = tx.at /\ tx'.done = tx.done + n
  <2>1. tx = [at |-> tx.at, writeSnapshot |-> tx.writeSnapshot, done |-> tx.done]
    BY DEF RingInv, Types, IsTx
  <2> QED BY <1>1, <2>1
<1>b. tx.done + n <= Part /\ sent' = sent /\ tx'.done = tx.done + n
  BY <1>1, <1>3
<1>4. /\ Distance(txQueueRead, tx.writeSnapshot) <= Filled
      /\ tx.at = "one part" => txQueueRead < tx.writeSnapshot
      /\ tx.at = "two parts" => tx.writeSnapshot < txQueueRead
      /\ tx.at = "second part" => txQueueRead = 0
  BY <1>1 DEF RingInv, Within
<1>5. Part \in Nat /\ Part <= Filled /\ txQueueRead + Part <= QSIZE
  <2> DEFINE d == Distance(txQueueRead, tx.writeSnapshot)
  <2>1. d = IF tx.writeSnapshot >= txQueueRead THEN tx.writeSnapshot - txQueueRead
                                              ELSE tx.writeSnapshot - txQueueRead + QSIZE
    BY DEF Distance
  <2>2. d <= Filled
    BY <1>4
  <2> HIDE DEF d
  <2>3. CASE tx.at = "one part"
    <3>1. Part = tx.writeSnapshot - txQueueRead /\ txQueueRead < tx.writeSnapshot
      BY <1>4, <2>3 DEF Part
    <3> QED BY <1>0, <2>1, <2>2, <3>1
  <2>4. CASE tx.at = "two parts"
    <3>1. Part = QSIZE - txQueueRead /\ tx.writeSnapshot < txQueueRead
      BY <1>4, <2>4 DEF Part
    <3> QED BY <1>0, <2>1, <2>2, <3>1
  <2>5. CASE tx.at = "second part"
    <3>1. Part = tx.writeSnapshot /\ txQueueRead = 0
      BY <1>4, <2>5 DEF Part
    <3> QED BY <1>0, <2>1, <2>2, <3>1
  <2> QED BY <1>1, <2>3, <2>4, <2>5
<1>6. Upto' = Upto + n /\ Upto + n <= sent
  BY <1>0, <1>a, <1>b, <1>2, <1>5 DEF Upto
<1>7. \A s \in Slot : InRing(s)' <=> InRing(s)
  BY <1>1, <1>2 DEF InRing
<1>8. ASSUME NEW i \in 1 .. n, NEW s, s = txQueueRead + tx.done + i - 1
      PROVE  s \in Slot /\ InRing(s) /\ txQueue[s].id = Upto + i
  <2>1. s \in Nat /\ s < QSIZE /\ s >= txQueueRead
    BY <1>0, <1>a, <1>b, <1>5, <1>8
  <2>2. Filled = IF txQueueWrite >= txQueueRead THEN txQueueWrite - txQueueRead
                                                ELSE txQueueWrite - txQueueRead + QSIZE
    BY DEF Filled, Distance
  <2>3. tx.done + i <= Filled
    BY <1>0, <1>a, <1>b, <1>5
  <2>4. Distance(s, txQueueWrite) = Filled - tx.done - i + 1
    BY <1>0, <1>a, <1>8, <2>1, <2>2, <2>3 DEF Distance
  <2>5. s \in Slot
    BY <1>0, <2>1 DEF Slot
  <2>6. InRing(s)
    BY <1>0, <1>a, <2>3, <2>4 DEF InRing
  <2>7. txQueue[s].id = sent + 1 - Distance(s, txQueueWrite)
    BY <2>5, <2>6, Numbers
  <2> QED BY <1>0, <1>a, <2>4, <2>5, <2>6, <2>7 DEF Upto
<1>9. QED
  BY <1>1, <1>2, <1>3, <1>6, <1>7, <1>8

\* and it loses some of those.  After a single part it loses one.
LEMMA RingLoses ==
  ASSUME RingInv, TxAdvance
  PROVE  /\ Upto' = sent - Filled' /\ Upto' <= Upto /\ sent' = sent
         /\ tx'.at # "one part"
         /\ tx.at = "one part" => Upto' = sent - Filled + 1
         /\ tx.at # "one part" => Upto' = Upto
         /\ \A s \in Slot : InRing(s)' => InRing(s)
<1>0. /\ QSIZE \in Nat /\ QSIZE >= 2
      /\ txQueueRead \in Nat /\ txQueueRead < QSIZE
      /\ txQueueWrite \in Nat /\ txQueueWrite < QSIZE
      /\ tx.writeSnapshot \in Nat /\ tx.writeSnapshot < QSIZE
      /\ tx.done \in Nat /\ sent \in Nat
      /\ Filled \in Nat /\ Filled < QSIZE
  BY Basics
<1>1. /\ tx.at # "look" /\ tx.done = Part /\ txQueueRead' = Advanced
      /\ UNCHANGED <<txQueue, txQueueWrite, sent>>
  BY DEF TxAdvance, ring
<1>2. tx.at = "one part" \/ tx.at = "two parts" \/ tx.at = "second part"
  BY <1>1, Basics
<1>3. tx'.at = (IF tx.at = "two parts" THEN "second part" ELSE "look") /\ tx'.done = 0
  <2>1. tx = [at |-> tx.at, writeSnapshot |-> tx.writeSnapshot, done |-> tx.done]
    BY DEF RingInv, Types, IsTx
  <2>2. tx' = [tx EXCEPT !.at = IF @ = "two parts" THEN "second part" ELSE "look", !.done = 0]
    BY DEF TxAdvance
  <2> QED BY <2>1, <2>2
<1>4. Filled = Distance(txQueueRead, txQueueWrite) /\ Filled' = Distance(txQueueRead', txQueueWrite)
  BY <1>1 DEF Filled
<1>5. /\ tx.at = "one part" => txQueueRead < tx.writeSnapshot
      /\ tx.at = "two parts" => tx.writeSnapshot < txQueueRead
      /\ tx.at = "second part" => txQueueRead = 0
  BY <1>1 DEF RingInv, Within
<1>6. /\ txQueueRead < tx.writeSnapshot =>
           Filled >= 1 /\ Distance(txQueueRead + 1, txQueueWrite) = Filled - 1
      /\ tx.writeSnapshot < txQueueRead =>
           Distance(0, txQueueWrite) = Filled - (QSIZE - txQueueRead)
      /\ txQueueRead = 0 => Distance(tx.writeSnapshot, txQueueWrite) = Filled - tx.writeSnapshot
  <2>1. txQueueRead \in Slot /\ txQueueWrite \in Slot /\ tx.writeSnapshot \in Slot
    BY Basics
  <2>2. Distance(txQueueRead, tx.writeSnapshot) <= Distance(txQueueRead, txQueueWrite)
    BY <1>1 DEF RingInv, Within, Filled
  <2> QED BY <2>1, <2>2, MovingOn DEF Filled
<1>b. PICK done \in Nat : done = tx.done
  BY <1>0
<1>7. /\ tx.at = "one part" => done >= 1 /\ Filled' = Filled - 1
      /\ tx.at # "one part" => Filled' = Filled - done
  <2>1. CASE tx.at = "one part"
    <3>1. Part = tx.writeSnapshot - txQueueRead /\ Advanced = (txQueueRead + 1) % QSIZE
      BY <2>1 DEF Part, Advanced
    <3>2. txQueueRead < tx.writeSnapshot
      BY <1>5, <2>1
    <3>3. (txQueueRead + 1) % QSIZE = txQueueRead + 1
      BY <1>0, <3>2
    <3>4. done >= 1 /\ Filled' = Filled - 1
      BY <1>0, <1>1, <1>b, <1>4, <1>6, <3>1, <3>2, <3>3
    <3> QED BY <2>1, <3>4
  <2>2. CASE tx.at = "two parts"
    <3>1. Part = QSIZE - txQueueRead /\ Advanced = 0
      BY <2>2 DEF Part, Advanced
    <3>2. tx.writeSnapshot < txQueueRead
      BY <1>5, <2>2
    <3>3. Filled' = Filled - done
      BY <1>0, <1>1, <1>b, <1>4, <1>6, <3>1, <3>2
    <3> QED BY <2>2, <3>3
  <2>3. CASE tx.at = "second part"
    <3>1. Part = tx.writeSnapshot /\ Advanced = tx.writeSnapshot
      BY <2>3 DEF Part, Advanced
    <3>2. txQueueRead = 0
      BY <1>5, <2>3
    <3>3. Filled' = Filled - done
      BY <1>0, <1>1, <1>b, <1>4, <1>6, <3>1, <3>2
    <3> QED BY <2>3, <3>3
  <2> QED BY <1>2, <2>1, <2>2, <2>3
<1>8. tx'.done = 0 /\ sent' = sent /\ sent \in Nat /\ Filled \in Nat
      /\ Upto = sent - Filled + done
  BY <1>0, <1>1, <1>b, <1>3 DEF Upto
<1>9. /\ Upto' = sent - Filled' /\ Upto' <= Upto /\ Filled' <= Filled /\ Filled' \in Int
      /\ tx.at = "one part" => Upto' = sent - Filled + 1
      /\ tx.at # "one part" => Upto' = Upto
  <2>1. Filled' \in Int => Upto' = sent - Filled'
    BY <1>8 DEF Upto
  <2>2. CASE tx.at = "one part"
    <3>1. done >= 1 /\ Filled' = Filled - 1
      BY <1>7, <2>2
    <3>2. /\ Upto' = sent - Filled' /\ Upto' <= Upto /\ Filled' <= Filled /\ Filled' \in Int
          /\ Upto' = sent - Filled + 1
      BY <1>8, <2>1, <3>1
    <3> QED BY <2>2, <3>2
  <2>3. CASE tx.at # "one part"
    <3>1. Filled' = Filled - done
      BY <1>7, <2>3
    <3>2. /\ Upto' = sent - Filled' /\ Upto' <= Upto /\ Filled' <= Filled /\ Filled' \in Int
          /\ Upto' = Upto
      BY <1>8, <2>1, <3>1
    <3> QED BY <2>3, <3>2
  <2> QED BY <2>2, <2>3
<1>c. Filled' <= Filled /\ Filled' \in Int
  BY <1>9
<1>10. ASSUME NEW s \in Slot, InRing(s)' PROVE InRing(s)
  <2>1. Distance(s, txQueueWrite) \in Nat
    BY DistanceIs DEF RingInv, Types
  <2>2. 1 <= Distance(s, txQueueWrite) /\ Distance(s, txQueueWrite) <= Filled'
    BY <1>1, <1>10 DEF InRing
  <2> QED BY <1>8, <1>c, <2>1, <2>2 DEF InRing
<1>11. QED
  BY <1>3, <1>8, <1>9, <1>10

-----------------------------------------------------------------------------
\* Where the program is in its access.
CallInv ==
  /\ txTransid \in Nat
  /\ call.kind \in {"none", "read", "write", "post", "block", "store"}
  /\ call.at \in {"idle", "prepared", "full", "wait"}
  /\ call.todo \in Seq(Lines) /\ call.ok \in BOOLEAN
  /\ call.kind = "none" => call.at = "idle"
  /\ call.kind \in {"read", "write", "post"} => call.at # "prepared" /\ \E l \in Lines : call.todo = <<l>>
  /\ call.at = "prepared" /\ call.kind = "store" => call.todo # <<>>
  /\ call.at \in {"prepared", "full"} => call.ok
  /\ call.at = "wait" /\ call.kind # "block" => call.ok
  /\ DMATransferInProgress = (call.kind \in {"block", "store"} /\ call.at # "idle")

LEMMA CountsAre == LINES \in Nat /\ LINES >= 1 /\ MAX_TRANS_ID \in Nat /\ MAX_TRANS_ID >= 1
                   /\ All \in Seq(Lines) /\ Len(All) = LINES /\ All # <<>> /\ 1 \in Lines
                   /\ \A l \in Lines : All[l] = l /\ l \in Nat
<1>1. LINES \in Nat /\ LINES >= 1 /\ MAX_TRANS_ID \in Nat /\ MAX_TRANS_ID >= 1
  BY ApiAssumption
<1>2. All \in Seq(Lines) /\ Len(All) = LINES /\ \A l \in Lines : All[l] = l /\ l \in Nat
  BY <1>1 DEF All, Lines
<1>3. All # <<>> /\ 1 \in Lines
  BY <1>1, <1>2 DEF Lines
<1>4. QED
  BY <1>1, <1>2, <1>3

LEMMA NextIdsIs == ASSUME txTransid \in Nat, NEW n \in Nat PROVE NextIds(n) \in Nat
<1>1. txTransid + n \in Nat /\ MAX_TRANS_ID \in Nat /\ MAX_TRANS_ID >= 1
  BY CountsAre
<1> DEFINE x == txTransid + n
<1>2. x % MAX_TRANS_ID \in Nat
  <2> HIDE DEF x
  <2> QED BY <1>1 DEF x
<1>3. QED
  BY <1>2 DEF NextIds

LEMMA CallInvStep == ASSUME RingInv, CallInv, [Next]_vars PROVE CallInv'
<1>0. call = [at |-> call.at, kind |-> call.kind, todo |-> call.todo, ok |-> call.ok,
              data |-> call.data]
  BY DEF RingInv, Types, IsCall
<1>1. ASSUME NEW kind \in {"read", "write", "post"}, NEW line \in Lines, TransferPacket(kind, line)
      PROVE  CallInv'
  <2>1. /\ call' = [at |-> "full", kind |-> kind, todo |-> <<line>>, ok |-> TRUE, data |-> <<>>]
        /\ txTransid' = txTransid /\ DMATransferInProgress' = DMATransferInProgress /\ call.at = "idle"
    BY <1>1 DEF TransferPacket, Begin, dma
  <2>2. <<line>> \in Seq(Lines)
    OBVIOUS
  <2> QED BY <2>1, <2>2 DEF CallInv
<1>2. ASSUME NEW kind \in {"block", "store"}, DmaPrepare(kind) PROVE CallInv'
  <2>1. /\ call' = [at |-> "prepared", kind |-> kind, todo |-> All, ok |-> TRUE, data |-> <<>>]
        /\ txTransid' = txTransid /\ DMATransferInProgress' = TRUE
    BY <1>2 DEF DmaPrepare, Begin
  <2> QED BY <2>1, CountsAre DEF CallInv
<1>3. CASE SendBlock
  <2>1. /\ call.at = "prepared" /\ call.kind = "block"
        /\ call' = [at |-> "full", kind |-> call.kind, todo |-> <<>>, ok |-> call.ok, data |-> call.data]
        /\ txTransid' = NextIds(LINES) /\ DMATransferInProgress' = DMATransferInProgress
    BY <1>0, <1>3 DEF SendBlock
  <2>2. <<>> \in Seq(Lines) /\ txTransid' \in Nat
    BY <2>1, NextIdsIs, CountsAre DEF CallInv
  <2> QED BY <2>1, <2>2 DEF CallInv
<1>4. CASE DmaTransfer
  <2>1. /\ call.at = "prepared" /\ call.kind = "store"
        /\ call' = [at |-> "full", kind |-> call.kind, todo |-> Tail(call.todo), ok |-> call.ok,
                    data |-> call.data]
        /\ txTransid' = NextIds(1) /\ DMATransferInProgress' = DMATransferInProgress
    BY <1>0, <1>4 DEF DmaTransfer, dma
  <2>2. Tail(call.todo) \in Seq(Lines) /\ txTransid' \in Nat
    BY <2>1, NextIdsIs DEF CallInv
  <2> QED BY <2>1, <2>2 DEF CallInv
<1>5. CASE MessageSent
  <2>1. PICK at : /\ at = (IF call.kind = "store" /\ call.todo # <<>> THEN "prepared" ELSE "wait")
                  /\ call' = [call EXCEPT !.at = at]
    BY <1>5 DEF MessageSent
  <2>2. /\ call.at = "full" /\ txTransid' = txTransid /\ DMATransferInProgress' = DMATransferInProgress
        /\ call' = [at |-> at, kind |-> call.kind, todo |-> call.todo, ok |-> call.ok, data |-> call.data]
    BY <1>0, <1>5, <2>1 DEF MessageSent, dma
  <2> QED BY <2>1, <2>2 DEF CallInv
<1>6. ASSUME NEW ok \in BOOLEAN, NEW data, PioReturns(ok, data), call.at = "wait",
             call.kind \in {"read", "write", "post"}
      PROVE  CallInv'
  <2>1. /\ call' = [at |-> "idle", kind |-> call.kind, todo |-> call.todo, ok |-> ok, data |-> data]
        /\ txTransid' = NextIds(1) /\ DMATransferInProgress' = DMATransferInProgress
    BY <1>0, <1>6 DEF PioReturns, dma
  <2>2. txTransid' \in Nat
    BY <2>1, NextIdsIs DEF CallInv
  <2> QED BY <1>6, <2>1, <2>2 DEF CallInv
<1>7. CASE ReadReturns
  BY <1>6, <1>7 DEF ReadReturns
<1>8. CASE WriteReturns
  BY <1>6, <1>8 DEF WriteReturns
<1>9. CASE PioTimesOut
  BY <1>6, <1>9 DEF PioTimesOut
<1>10. CASE DmaComplete
  <2>1. /\ call.at = "wait" /\ call.kind \in {"block", "store"}
        /\ call' = [at |-> "idle", kind |-> call.kind, todo |-> call.todo, ok |-> call.ok, data |-> memBlock]
        /\ txTransid' = txTransid /\ DMATransferInProgress' = FALSE
    BY <1>0, <1>10 DEF DmaComplete
  <2> QED BY <2>1 DEF CallInv
<1>11. CASE DmaTimesOut
  <2>1. /\ call.at = "wait" /\ call.kind = "block"
        /\ call' = [at |-> "wait", kind |-> call.kind, todo |-> call.todo, ok |-> FALSE, data |-> call.data]
        /\ txTransid' = txTransid /\ DMATransferInProgress' = DMATransferInProgress
    BY <1>0, <1>11 DEF DmaTimesOut
  <2> QED BY <2>1 DEF CallInv
<1>12. CASE TxRun \/ Board \/ Receive \/ UNCHANGED vars
  <2>1. UNCHANGED <<call, txTransid, DMATransferInProgress>>
    BY <1>12 DEF TxRun, TxLook, TxWrite, TxAdvance, Board, BoardWrites, BoardAnswers, Receive,
                 RxMatch, RxPio, DmaReceive, dma, vars
  <2> QED BY <2>1 DEF CallInv
<1>13. QED
  BY <1>1, <1>2, <1>3, <1>4, <1>5, <1>7, <1>8, <1>9, <1>10, <1>11, <1>12
     DEF Next, Program, Returns
-----------------------------------------------------------------------------
(***************************************************************************)
(* What is in the memory of the board, or on its way there.                *)
(***************************************************************************)
Message == [op : {"read", "write"}, tid : Nat, lines : Seq(Lines), id : Nat]
WellFormed(m) == m \in Message /\ (m.op = "write" => \E l \in Lines : m.lines = <<l>>)
Writes(m, l)  == m.op = "write" /\ m.lines[1] = l

\* The last message of ws that writes line l is number e; if there is none,
\* the value v in the memory is.
NoWrite(ws, l)    == \A j \in 1 .. Len(ws) : ~Writes(ws[j], l)
LastWrite(ws, l, e) == \E i \in 1 .. Len(ws) : /\ Writes(ws[i], l) /\ ws[i].id = e
                                          /\ \A j \in i + 1 .. Len(ws) : ~Writes(ws[j], l)
Stored(ws, l, v, e) == LastWrite(ws, l, e) \/ (v = e /\ NoWrite(ws, l))

LEMMA AppendOther ==
  ASSUME NEW ws \in Seq(Message), NEW ms \in Seq(Message), NEW l, NEW v, NEW e,
         Stored(ws, l, v, e), NoWrite(ms, l)
  PROVE  Stored(ws \o ms, l, v, e)
<1> DEFINE us == ws \o ms
<1>1. /\ Len(us) = Len(ws) + Len(ms) /\ Len(ws) \in Nat /\ Len(ms) \in Nat
      /\ \A k \in 1 .. Len(ws) : us[k] = ws[k]
      /\ \A k \in Len(ws) + 1 .. Len(us) : us[k] = ms[k - Len(ws)] /\ k - Len(ws) \in 1 .. Len(ms)
  OBVIOUS
<1> HIDE DEF us
<1>2. \A k \in Len(ws) + 1 .. Len(us) : ~Writes(us[k], l)
  BY <1>1 DEF NoWrite
<1>3. CASE LastWrite(ws, l, e)
  <2>1. PICK i \in 1 .. Len(ws) : /\ Writes(ws[i], l) /\ ws[i].id = e
                                  /\ \A j \in i + 1 .. Len(ws) : ~Writes(ws[j], l)
    BY <1>3 DEF LastWrite
  <2>2. i \in 1 .. Len(us) /\ us[i] = ws[i]
    BY <1>1
  <2>3. ASSUME NEW j \in i + 1 .. Len(us) PROVE ~Writes(us[j], l)
    <3>1. j \in i + 1 .. Len(ws) \/ j \in Len(ws) + 1 .. Len(us)
      BY <1>1
    <3>2. j \in i + 1 .. Len(ws) => us[j] = ws[j]
      BY <1>1
    <3> QED BY <1>2, <2>1, <3>1, <3>2
  <2> QED BY <2>1, <2>2, <2>3 DEF LastWrite, Stored, us
<1>4. CASE v = e /\ NoWrite(ws, l)
  <2>1. ASSUME NEW j \in 1 .. Len(us) PROVE ~Writes(us[j], l)
    <3>1. j \in 1 .. Len(ws) \/ j \in Len(ws) + 1 .. Len(us)
      BY <1>1
    <3>2. j \in 1 .. Len(ws) => us[j] = ws[j]
      BY <1>1
    <3> QED BY <1>2, <1>4, <3>1, <3>2 DEF NoWrite
  <2> QED BY <1>4, <2>1 DEF NoWrite, Stored, us
<1>5. QED
  BY <1>3, <1>4 DEF Stored

LEMMA AppendLast ==
  ASSUME NEW ws \in Seq(Message), NEW ms \in Seq(Message), NEW l, NEW v, NEW e, LastWrite(ms, l, e)
  PROVE  Stored(ws \o ms, l, v, e)
<1> DEFINE us == ws \o ms
<1>1. /\ Len(us) = Len(ws) + Len(ms) /\ Len(ws) \in Nat /\ Len(ms) \in Nat
      /\ \A k \in 1 .. Len(ms) : us[Len(ws) + k] = ms[k] /\ Len(ws) + k \in 1 .. Len(us)
      /\ \A k \in Len(ws) + 1 .. Len(us) : us[k] = ms[k - Len(ws)]
  OBVIOUS
<1> HIDE DEF us
<1>2. PICK i \in 1 .. Len(ms) : /\ Writes(ms[i], l) /\ ms[i].id = e
                                /\ \A j \in i + 1 .. Len(ms) : ~Writes(ms[j], l)
  BY DEF LastWrite
<1>3. ASSUME NEW j \in Len(ws) + i + 1 .. Len(us) PROVE ~Writes(us[j], l)
  <2>1. j - Len(ws) \in i + 1 .. Len(ms) /\ j \in Len(ws) + 1 .. Len(us)
    BY <1>1
  <2> QED BY <1>1, <1>2, <2>1
<1>4. LastWrite(us, l, e)
  BY <1>1, <1>2, <1>3 DEF LastWrite
<1>5. QED
  BY <1>4 DEF Stored, us

LEMMA TailStored ==
  ASSUME NEW ws \in Seq(Message), ws # <<>>, NEW l, NEW v, NEW e, Stored(ws, l, v, e)
  PROVE  /\ ~Writes(ws[1], l) => Stored(Tail(ws), l, v, e)
         /\ Writes(ws[1], l) => Stored(Tail(ws), l, ws[1].id, e)
<1> DEFINE us == Tail(ws)
<1>1. /\ Len(us) = Len(ws) - 1 /\ Len(ws) \in Nat /\ Len(ws) >= 1
      /\ \A k \in 1 .. Len(us) : us[k] = ws[k + 1] /\ k + 1 \in 2 .. Len(ws)
      /\ \A k \in 2 .. Len(ws) : k - 1 \in 1 .. Len(us) /\ us[k - 1] = ws[k]
  OBVIOUS
<1> HIDE DEF us
<1>2. CASE LastWrite(ws, l, e)
  <2>1. PICK i \in 1 .. Len(ws) : /\ Writes(ws[i], l) /\ ws[i].id = e
                                  /\ \A j \in i + 1 .. Len(ws) : ~Writes(ws[j], l)
    BY <1>2 DEF LastWrite
  <2>2. CASE i = 1
    <3>1. NoWrite(us, l)
      BY <1>1, <2>1, <2>2 DEF NoWrite
    <3> QED BY <2>1, <2>2, <3>1 DEF Stored, us
  <2>3. CASE i # 1
    <3>1. i \in 2 .. Len(ws)
      BY <1>1, <2>3
    <3>2. i - 1 \in 1 .. Len(us) /\ us[i - 1] = ws[i]
      BY <1>1, <3>1
    <3>3. ASSUME NEW j \in (i - 1) + 1 .. Len(us) PROVE ~Writes(us[j], l)
      <4>1. us[j] = ws[j + 1] /\ j + 1 \in i + 1 .. Len(ws)
        BY <1>1, <3>1
      <4> QED BY <2>1, <4>1
    <3>4. LastWrite(us, l, e)
      BY <2>1, <3>2, <3>3 DEF LastWrite
    <3> QED BY <3>4 DEF Stored, us
  <2> QED BY <2>2, <2>3
<1>3. CASE v = e /\ NoWrite(ws, l)
  <2>1. NoWrite(us, l)
    BY <1>1, <1>3 DEF NoWrite
  <2>2. ~Writes(ws[1], l)
    BY <1>1, <1>3 DEF NoWrite
  <2> QED BY <1>3, <2>1, <2>2 DEF Stored, us
<1>4. QED
  BY <1>2, <1>3 DEF Stored

\* The last write to line l that was sent: no message of the ring that writes
\* the line is later, and if the thread is through with it, it is the last that
\* the board will store.
LineInv(l) ==
  /\ expect[l] <= sent
  /\ \A s \in Slot : InRing(s) /\ Writes(txQueue[s], l) => txQueue[s].id <= expect[l]
  /\ \A s \in Slot : InRing(s) /\ txQueue[s].id = expect[l] => Writes(txQueue[s], l)
  /\ expect[l] > Upto \/ Stored(wire, l, mem[l], expect[l])

MemInv ==
  /\ wire \in Seq(Message) /\ \A i \in 1 .. Len(wire) : WellFormed(wire[i])
  /\ mem \in [Lines -> Nat] /\ expect \in [Lines -> Nat]
  /\ \A s \in Slot : InRing(s) => WellFormed(txQueue[s])
  /\ tx.at = "look" => tx.done = 0
  /\ \A l \in Lines : LineInv(l)

LEMMA MemInitially == Init => MemInv
<1> SUFFICES ASSUME Init PROVE MemInv
  OBVIOUS
<1>1. RingInv
  BY Initially
<1>2. Filled = 0 /\ sent = 0 /\ tx.done = 0 /\ wire = <<>>
  BY DEF Init, Filled, Distance
<1>3. ASSUME NEW s \in Slot, InRing(s) PROVE FALSE
  BY <1>1, <1>2, <1>3, Numbers
<1>4. mem = [l \in Lines |-> 0] /\ expect = [l \in Lines |-> 0]
  BY DEF Init
<1>5. wire \in Seq(Message) /\ Len(wire) = 0
  BY <1>2
<1>6. ASSUME NEW l \in Lines PROVE LineInv(l)
  <2>1. expect[l] <= sent /\ mem[l] = expect[l]
    BY <1>2, <1>4
  <2>2. NoWrite(wire, l)
    BY <1>5 DEF NoWrite
  <2> QED BY <1>3, <2>1, <2>2 DEF LineInv, Stored
<1>7. QED
  BY <1>2, <1>3, <1>4, <1>5, <1>6 DEF MemInv

\* The ring loses messages, or nothing happens.
LEMMA MemRest ==
  ASSUME RingInv, MemInv, Upto' <= Upto, Upto' \in Nat,
         UNCHANGED <<txQueue, sent, expect, wire, mem>>,
         \A s \in Slot : InRing(s)' => InRing(s),
         tx'.at = "look" => tx'.done = 0
  PROVE  MemInv'
<1>1. Upto \in Nat /\ \A l \in Lines : expect[l] \in Nat
  BY Numbers DEF MemInv
<1>2. ASSUME NEW l \in Lines PROVE LineInv(l)'
  <2>1. expect[l] > Upto => expect[l] > Upto'
    BY <1>1
  <2>2. LineInv(l)
    BY DEF MemInv
  <2> QED BY <2>1, <2>2 DEF LineInv
<1>3. QED
  BY <1>2 DEF MemInv

LEMMA MemSend ==
  ASSUME RingInv, MemInv, NEW op \in {"read", "write"}, NEW lines \in Seq(Lines),
         op = "write" => \E l \in Lines : lines = <<l>>, txTransid \in Nat,
         SendMessage(op, lines), call.at # "full", UNCHANGED <<txQueueRead, tx, wire, mem>>
  PROVE  MemInv'
<1> DEFINE w == txQueueWrite
           new == [op |-> op, tid |-> txTransid, lines |-> lines, id |-> sent + 1]
<1>1. /\ Upto' = Upto /\ sent' = sent + 1 /\ w \in Slot
      /\ \A s \in Slot : InRing(s)' => s = w \/ (InRing(s) /\ txQueue'[s] = txQueue[s])
      /\ txQueue'[w] = new
  BY RingGains
<1>2. /\ sent \in Nat /\ Upto \in Nat /\ Upto <= sent
      /\ \A s \in Slot : InRing(s) => txQueue[s].id \in Nat /\ txQueue[s].id <= sent
  BY Numbers, Basics DEF MemInv
<1>3. WellFormed(new) /\ new.id = sent + 1
  BY <1>2 DEF WellFormed, Message
<1>4. \A l \in Lines : Writes(new, l) <=> op = "write" /\ l \in Range(lines)
  <2>1. CASE op = "write"
    <3>1. PICK x \in Lines : lines = <<x>>
      BY <2>1
    <3>2. Range(lines) = {x} /\ lines[1] = x
      BY <3>1 DEF Range
    <3> QED BY <2>1, <3>2 DEF Writes
  <2>2. CASE op # "write"
    BY <2>2 DEF Writes
  <2> QED BY <2>1, <2>2
<1>5. expect' = [l \in Lines |-> IF Writes(new, l) THEN sent + 1 ELSE expect[l]]
  BY <1>4 DEF SendMessage
<1> HIDE DEF new, w
<1>6. ASSUME NEW l \in Lines PROVE LineInv(l)'
  <2>0. expect[l] \in Nat /\ LineInv(l)
    BY DEF MemInv
  <2>1. CASE Writes(new, l)
    <3>1. expect'[l] = sent + 1
      BY <1>5, <2>1
    <3>2. expect'[l] <= sent' /\ expect'[l] > Upto'
      BY <1>1, <1>2, <3>1
    <3>3. ASSUME NEW s \in Slot, InRing(s)'
          PROVE  txQueue'[s].id <= expect'[l] /\ (txQueue'[s].id = expect'[l] => Writes(txQueue'[s], l))
      <4>1. CASE s = w
        <5>1. txQueue'[s].id = sent + 1 /\ Writes(txQueue'[s], l)
          BY <1>1, <1>3, <2>1, <4>1
        <5> QED BY <1>2, <3>1, <5>1
      <4>2. CASE s # w
        BY <1>1, <1>2, <3>1, <3>3, <4>2
      <4> QED BY <4>1, <4>2
    <3> QED BY <3>2, <3>3 DEF LineInv
  <2>2. CASE ~Writes(new, l)
    <3>1. expect'[l] = expect[l] /\ expect[l] <= sent
      BY <1>5, <2>0, <2>2 DEF LineInv
    <3>2. expect'[l] <= sent'
      BY <1>1, <1>2, <2>0, <3>1
    <3>3. ASSUME NEW s \in Slot, InRing(s)'
          PROVE  /\ Writes(txQueue'[s], l) => txQueue'[s].id <= expect'[l]
                 /\ txQueue'[s].id = expect'[l] => Writes(txQueue'[s], l)
      <4>1. CASE s = w
        <5>1. txQueue'[s].id = sent + 1 /\ ~Writes(txQueue'[s], l)
          BY <1>1, <1>3, <2>2, <4>1
        <5>2. sent + 1 # expect[l]
          BY <1>2, <2>0, <3>1
        <5> QED BY <3>1, <5>1, <5>2
      <4>2. CASE s # w
        BY <1>1, <2>0, <3>1, <3>3, <4>2 DEF LineInv
      <4> QED BY <4>1, <4>2
    <3>4. expect'[l] > Upto' \/ Stored(wire', l, mem'[l], expect'[l])
      BY <1>1, <2>0, <3>1 DEF LineInv
    <3> QED BY <3>2, <3>3, <3>4 DEF LineInv
  <2> QED BY <2>1, <2>2
<1>7. \A s \in Slot : InRing(s)' => WellFormed(txQueue'[s])
  BY <1>1, <1>3 DEF MemInv
<1>8. expect' \in [Lines -> Nat]
  BY <1>2, <1>5 DEF MemInv
<1>9. QED
  BY <1>6, <1>7, <1>8 DEF MemInv

LEMMA MemHanded ==
  ASSUME RingInv, MemInv, NEW n \in 1 .. QSIZE, TxWrite(n)
  PROVE  MemInv'
<1> DEFINE ms == [i \in 1 .. n |-> txQueue[txQueueRead + tx.done + i - 1]]
<1>1. /\ tx.at # "look" /\ tx'.at = tx.at /\ Upto' = Upto + n
      /\ \A s \in Slot : InRing(s)' <=> InRing(s)
      /\ \A i \in 1 .. n : LET s == txQueueRead + tx.done + i - 1 IN
              s \in Slot /\ InRing(s) /\ txQueue[s].id = Upto + i
  BY RingHanded
<1>2. /\ wire' = wire \o ms
      /\ UNCHANGED <<txQueue, sent, expect, mem>>
  BY DEF TxWrite, ring
<1>3. n \in Nat /\ n >= 1 /\ Upto \in Nat
  <2>1. QSIZE \in Nat
    BY SizeIs
  <2> QED BY <2>1, Numbers
<1>4. ms \in Seq(Message) /\ Len(ms) = n
  <2>1. \A i \in 1 .. n : txQueue[txQueueRead + tx.done + i - 1] \in Message
    BY <1>1 DEF MemInv, WellFormed
  <2> QED BY <1>3, <2>1
<1>5. \A i \in 1 .. n : /\ ms[i].id = Upto + i /\ WellFormed(ms[i])
                        /\ \A l \in Lines : /\ Writes(ms[i], l) => Upto + i <= expect[l]
                                            /\ Upto + i = expect[l] => Writes(ms[i], l)
  <2> SUFFICES ASSUME NEW i \in 1 .. n
               PROVE  /\ ms[i].id = Upto + i /\ WellFormed(ms[i])
                      /\ \A l \in Lines : /\ Writes(ms[i], l) => Upto + i <= expect[l]
                                          /\ Upto + i = expect[l] => Writes(ms[i], l)
    OBVIOUS
  <2>1. PICK s \in Slot : s = txQueueRead + tx.done + i - 1 /\ InRing(s) /\ txQueue[s].id = Upto + i
    BY <1>1
  <2>2. ms[i] = txQueue[s]
    BY <2>1
  <2>3. WellFormed(txQueue[s]) /\ \A l \in Lines : LineInv(l)
    BY <2>1 DEF MemInv
  <2> QED BY <2>1, <2>2, <2>3 DEF LineInv
<1> HIDE DEF ms
<1>6. wire' \in Seq(Message) /\ \A i \in 1 .. Len(wire') : WellFormed(wire'[i])
  <2>1. wire \in Seq(Message) /\ \A i \in 1 .. Len(wire) : WellFormed(wire[i])
    BY DEF MemInv
  <2>2. wire' \in Seq(Message)
    BY <1>2, <1>4, <2>1
  <2>3. ASSUME NEW i \in 1 .. Len(wire') PROVE WellFormed(wire'[i])
    <3>1. wire'[i] = IF i <= Len(wire) THEN wire[i] ELSE ms[i - Len(wire)]
      BY <1>2, <1>4, <2>1
    <3>2. i \in 1 .. Len(wire) \/ i - Len(wire) \in 1 .. n
      BY <1>2, <1>4, <2>1
    <3> QED BY <1>5, <2>1, <3>1, <3>2
  <2> QED BY <2>2, <2>3
<1>7. ASSUME NEW l \in Lines PROVE LineInv(l)'
  <2>0. expect[l] \in Nat /\ LineInv(l) /\ wire \in Seq(Message)
    BY DEF MemInv
  <2>1. CASE expect[l] > Upto + n
    BY <1>1, <1>2, <2>0, <2>1 DEF LineInv
  <2>2. CASE expect[l] <= Upto
    <3>1. Stored(wire, l, mem[l], expect[l])
      BY <1>3, <2>0, <2>2 DEF LineInv
    <3>2. ASSUME NEW i \in 1 .. n PROVE ~Writes(ms[i], l)
      <4>1. ~(Upto + i <= expect[l])
        BY <1>3, <2>0, <2>2
      <4> QED BY <1>5, <4>1
    <3>3. NoWrite(ms, l)
      BY <1>4, <3>2 DEF NoWrite
    <3>4. Stored(wire', l, mem[l], expect[l])
      BY <1>2, <1>4, <2>0, <3>1, <3>3, AppendOther
    <3> QED BY <1>1, <1>2, <2>0, <3>4 DEF LineInv
  <2>3. CASE Upto < expect[l] /\ expect[l] <= Upto + n
    <3>1. PICK i \in 1 .. n : Upto + i = expect[l]
      <4>1. expect[l] - Upto \in 1 .. n /\ Upto + (expect[l] - Upto) = expect[l]
        BY <1>3, <2>0, <2>3
      <4> QED BY <4>1
    <3>2. Writes(ms[i], l) /\ ms[i].id = expect[l]
      BY <1>5, <3>1
    <3>3. ASSUME NEW j \in i + 1 .. n PROVE ~Writes(ms[j], l)
      <4>1. j \in 1 .. n /\ ~(Upto + j <= expect[l])
        BY <1>3, <3>1
      <4> QED BY <1>5, <4>1
    <3>4. LastWrite(ms, l, expect[l])
      BY <1>4, <3>2, <3>3 DEF LastWrite
    <3>5. Stored(wire', l, mem[l], expect[l])
      BY <1>2, <1>4, <2>0, <3>4, AppendLast
    <3> QED BY <1>1, <1>2, <2>0, <3>5 DEF LineInv
  <2> QED BY <1>3, <2>0, <2>1, <2>2, <2>3
<1>8. QED
  BY <1>1, <1>2, <1>6, <1>7 DEF MemInv

LEMMA TailMessages ==
  ASSUME MemInv, wire # <<>>
  PROVE  /\ Tail(wire) \in Seq(Message) /\ Head(wire) = wire[1] /\ WellFormed(wire[1])
         /\ Len(Tail(wire)) = Len(wire) - 1 /\ Len(wire) \in Nat /\ Len(wire) >= 1
         /\ \A i \in 1 .. Len(Tail(wire)) : Tail(wire)[i] = wire[i + 1] /\ i + 1 \in 1 .. Len(wire)
         /\ \A i \in 1 .. Len(Tail(wire)) : WellFormed(Tail(wire)[i])
<1>1. wire \in Seq(Message) /\ \A i \in 1 .. Len(wire) : WellFormed(wire[i])
  BY DEF MemInv
<1>2. /\ Tail(wire) \in Seq(Message) /\ Head(wire) = wire[1] /\ 1 \in 1 .. Len(wire)
      /\ Len(Tail(wire)) = Len(wire) - 1 /\ Len(wire) \in Nat /\ Len(wire) >= 1
      /\ \A i \in 1 .. Len(Tail(wire)) : Tail(wire)[i] = wire[i + 1] /\ i + 1 \in 1 .. Len(wire)
  BY <1>1
<1>3. QED
  BY <1>1, <1>2

LEMMA MemBoard ==
  ASSUME RingInv, MemInv, Board
  PROVE  MemInv'
<1>1. /\ wire # <<>> /\ wire' = Tail(wire)
      /\ UNCHANGED <<txQueue, txQueueRead, txQueueWrite, sent, expect, tx>>
  BY DEF Board, BoardWrites, BoardAnswers, ring
<1>2. Upto' = Upto /\ (\A s \in Slot : InRing(s)' <=> InRing(s))
  BY <1>1 DEF Upto, Filled, InRing
<1>3. wire' \in Seq(Message) /\ \A i \in 1 .. Len(wire') : WellFormed(wire'[i])
  BY <1>1, TailMessages
<1>4. PICK m : m = wire[1] /\ WellFormed(m)
  BY <1>1, TailMessages
<1>5. /\ mem' \in [Lines -> Nat]
      /\ \A l \in Lines : mem'[l] = IF Writes(m, l) THEN m.id ELSE mem[l]
  <2>1. CASE BoardAnswers
    <3>1. mem' = mem /\ m.op = "read"
      BY <1>4, <2>1, TailMessages DEF BoardAnswers
    <3> QED BY <3>1 DEF Writes, MemInv
  <2>2. CASE BoardWrites
    <3>1. mem' = [mem EXCEPT ![m.lines[1]] = m.id] /\ m.op = "write"
      BY <1>4, <2>2, TailMessages DEF BoardWrites
    <3>2. m.id \in Nat /\ m.lines[1] \in Lines
      BY <1>4, <3>1 DEF WellFormed, Message
    <3> QED BY <3>1, <3>2 DEF Writes, MemInv
  <2> QED BY <2>1, <2>2 DEF Board
<1>6. ASSUME NEW l \in Lines PROVE LineInv(l)'
  <2>1. LineInv(l) /\ wire \in Seq(Message)
    BY DEF MemInv
  <2>2. Stored(wire, l, mem[l], expect[l]) => Stored(wire', l, mem'[l], expect[l])
    BY <1>1, <1>4, <1>5, <2>1, TailStored
  <2> QED BY <1>1, <1>2, <2>1, <2>2 DEF LineInv
<1>7. QED
  BY <1>1, <1>2, <1>3, <1>5, <1>6 DEF MemInv

LEMMA MemStep == ASSUME RingInv, CallInv, MemInv, [Next]_vars PROVE MemInv'
<1>1. ASSUME NEW kind \in {"read", "write", "post"}, NEW line \in Lines, TransferPacket(kind, line)
      PROVE  MemInv'
  <2>1. PICK op \in {"read", "write"} : op = IF kind = "read" THEN "read" ELSE "write"
    BY <1>1
  <2>2. /\ SendMessage(op, <<line>>) /\ call.at # "full" /\ UNCHANGED <<txQueueRead, tx, wire, mem>>
    BY <1>1, <2>1 DEF TransferPacket, Begin, board
  <2>3. <<line>> \in Seq(Lines) /\ txTransid \in Nat
    BY DEF CallInv
  <2> QED BY <2>2, <2>3, MemSend
<1>2. CASE SendBlock
  <2>1. /\ SendMessage("read", All) /\ call.at # "full" /\ UNCHANGED <<txQueueRead, tx, wire, mem>>
    BY <1>2 DEF SendBlock, board
  <2> QED BY <2>1, MemSend, CountsAre DEF CallInv
<1>3. CASE DmaTransfer
  <2>1. /\ SendMessage("write", <<Head(call.todo)>>) /\ call.at = "prepared" /\ call.kind = "store"
        /\ UNCHANGED <<txQueueRead, tx, wire, mem>>
    BY <1>3 DEF DmaTransfer, board
  <2>2. call.todo \in Seq(Lines) /\ call.todo # <<>> /\ txTransid \in Nat
    BY <2>1 DEF CallInv
  <2>3. Head(call.todo) \in Lines
    BY <2>2
  <2> QED BY <2>1, <2>2, <2>3, MemSend
<1>4. CASE TxAdvance
  <2>1. /\ Upto' <= Upto /\ \A s \in Slot : InRing(s)' => InRing(s)
        /\ Upto' = sent - Filled + 1 \/ Upto' = Upto
    BY <1>4, RingLoses
  <2>2. sent - Filled \in Nat /\ Upto \in Nat
    BY Numbers
  <2>3. Upto' \in Nat
    BY <2>1, <2>2
  <2>4. /\ UNCHANGED <<txQueue, sent, expect, wire, mem>>
        /\ tx' = [tx EXCEPT !.at = IF @ = "two parts" THEN "second part" ELSE "look", !.done = 0]
    BY <1>4 DEF TxAdvance, ring, board
  <2>5. tx = [at |-> tx.at, writeSnapshot |-> tx.writeSnapshot, done |-> tx.done]
    BY DEF RingInv, Types, IsTx
  <2>6. tx'.done = 0
    BY <2>4, <2>5
  <2> QED BY <2>1, <2>3, <2>4, <2>6, MemRest
<1>5. ASSUME NEW n \in 1 .. QSIZE, TxWrite(n) PROVE MemInv'
  BY <1>5, MemHanded
<1>6. CASE Board
  BY <1>6, MemBoard
<1>7. ASSUME UNCHANGED <<txQueue, txQueueRead, txQueueWrite, sent, expect, wire, mem>>,
             tx'.done = tx.done, tx'.at = "look" => tx'.done = 0
      PROVE  MemInv'
  <2>1. Filled' = Filled
    BY <1>7 DEF Filled
  <2>2. Upto' = Upto /\ \A s \in Slot : InRing(s)' <=> InRing(s)
    BY <1>7, <2>1 DEF Upto, InRing
  <2>3. Upto \in Nat
    BY Numbers
  <2>4. Upto' <= Upto /\ Upto' \in Nat
    BY <2>2, <2>3
  <2> QED BY <1>7, <2>2, <2>4, MemRest
<1>8. CASE TxLook
  <2>1. UNCHANGED <<txQueue, txQueueRead, txQueueWrite, sent, expect, wire, mem>>
    BY <1>8 DEF TxLook, ring, board
  <2>2. tx'.done = 0 /\ tx.done = 0
    BY <1>8 DEF TxLook, MemInv
  <2> QED BY <1>7, <2>1, <2>2
<1>9. CASE \/ \E kind \in {"block", "store"} : DmaPrepare(kind)
           \/ MessageSent \/ Returns \/ Receive \/ UNCHANGED vars
  <2>1. UNCHANGED <<txQueue, txQueueRead, txQueueWrite, sent, expect, wire, mem, tx>>
    BY <1>9 DEF DmaPrepare, MessageSent, Returns, ReadReturns, WriteReturns, DmaComplete,
                PioTimesOut, DmaTimesOut, PioReturns, Receive, RxMatch, RxPio, DmaReceive, ring,
                board, vars
  <2> QED BY <1>7, <2>1 DEF MemInv
<1>10. QED
  BY <1>1, <1>2, <1>3, <1>4, <1>5, <1>6, <1>8, <1>9 DEF Next, Program, TxRun

-----------------------------------------------------------------------------
(***************************************************************************)
(* The answers.                                                            *)
(***************************************************************************)
Answer == [tid : Nat, data : Int]

AnswerTypes ==
  /\ answers \in Seq(Answer) /\ memBlock \in Seq(Int) /\ DMATransferID \in Int
  /\ rx = [at |-> rx.at, data |-> rx.data]
  /\ rx.at \in {"read", "pio", "dma"} /\ rx.data \in Int /\ rxMsgAvail \in BOOLEAN

\* What the board answers to m: not more than it was asked for, and if it is all,
\* the values of the lines in their order, or ABORT_MESH.
Reply(x, m) ==
  /\ x \in Seq(Answer) /\ Len(x) <= Len(m.lines)
  /\ Len(x) = Len(m.lines) => \A i \in 1 .. Len(x) : x[i].data \in {mem[m.lines[i]], -1}

LEMMA IdsIn == ASSUME NEW a \in Nat, NEW b \in Nat PROVE (a + b) % MAX_TRANS_ID \in Nat
<1>1. MAX_TRANS_ID \in Nat /\ MAX_TRANS_ID >= 1
  BY CountsAre
<1>2. PICK c \in Nat : c = a + b
  OBVIOUS
<1>3. c % MAX_TRANS_ID \in Nat
  BY <1>1
<1>4. QED
  BY <1>2, <1>3

LEMMA BoardReplies ==
  ASSUME MemInv, BoardAnswers
  PROVE  \E x : answers' = answers \o x /\ Reply(x, wire[1])
<1>1. PICK m : m = wire[1] /\ m = Head(wire) /\ m.lines \in Seq(Lines) /\ m.tid \in Nat
  BY TailMessages DEF BoardAnswers, WellFormed, Message
<1> DEFINE whole == Answers(m)
           size == Len(m.lines)
<1>2. size \in Nat /\ \A i \in 1 .. size : m.lines[i] \in Lines
  BY <1>1
<1>3. \A i \in 1 .. size : mem[m.lines[i]] \in Nat /\ (m.tid + i - 1) % MAX_TRANS_ID \in Nat
  <2> SUFFICES ASSUME NEW i \in 1 .. size
               PROVE  mem[m.lines[i]] \in Nat /\ (m.tid + i - 1) % MAX_TRANS_ID \in Nat
    OBVIOUS
  <2>1. i - 1 \in Nat /\ m.tid + i - 1 = m.tid + (i - 1)
    BY <1>1, <1>2
  <2>2. (m.tid + (i - 1)) % MAX_TRANS_ID \in Nat
    BY <1>1, <2>1, IdsIn
  <2> QED BY <1>2, <2>1, <2>2 DEF MemInv
<1>4. /\ whole = [i \in 1 .. size |-> whole[i]] /\ Len(whole) = size
      /\ \A i \in 1 .. size : whole[i] \in Answer /\ whole[i].data = mem[m.lines[i]]
  <2>1. whole = [i \in 1 .. size |->
                   [tid |-> (m.tid + i - 1) % MAX_TRANS_ID, data |-> mem[m.lines[i]]]]
    BY DEF Answers
  <2> HIDE DEF size
  <2> QED BY <1>2, <1>3, <2>1 DEF Answer
<1> HIDE DEF whole, size
<1>5. ASSUME NEW x, NEW k \in Nat, k <= size, x = [i \in 1 .. k |-> x[i]],
             \A i \in 1 .. k : x[i] \in Answer,
             k = size => \A i \in 1 .. k : x[i].data \in {mem[m.lines[i]], -1}
      PROVE  Reply(x, m)
  <2>1. x \in Seq(Answer) /\ Len(x) = k
    BY <1>5
  <2> QED BY <1>5, <2>1 DEF Reply, size
<1>6. Reply(whole, m)
  <2>1. size <= size /\ \A i \in 1 .. size : whole[i].data \in {mem[m.lines[i]], -1}
    BY <1>2, <1>4
  <2> QED BY <1>2, <1>4, <1>5, <2>1
<1>7. ASSUME NEW n \in 0 .. Len(whole) - 1, NEW which \in [1 .. n -> 1 .. Len(whole)]
      PROVE  Reply([i \in 1 .. n |-> whole[which[i]]], m)
  <2>1. n \in Nat /\ n <= size /\ n # size
    BY <1>2, <1>4
  <2>2. \A i \in 1 .. n : which[i] \in 1 .. size
    BY <1>4
  <2> QED BY <1>4, <1>5, <2>1, <2>2
<1>8. ASSUME NEW i \in 1 .. Len(whole)
      PROVE  Reply([whole EXCEPT ![i] = [@ EXCEPT !.data = -1]], m)
  <2> DEFINE x == [whole EXCEPT ![i] = [@ EXCEPT !.data = -1]]
  <2>1. i \in 1 .. size /\ whole[i] \in Answer
    BY <1>4
  <2>2. [whole[i] EXCEPT !.data = -1] \in Answer /\ [whole[i] EXCEPT !.data = -1].data = -1
    BY <2>1 DEF Answer
  <2>3. x = [j \in 1 .. size |-> IF j = i THEN [whole[i] EXCEPT !.data = -1] ELSE whole[j]]
    BY <1>4
  <2> HIDE DEF x
  <2>4. \A j \in 1 .. size : x[j] \in Answer /\ x[j].data \in {mem[m.lines[j]], -1}
    BY <1>4, <2>2, <2>3
  <2>5. x = [j \in 1 .. size |-> x[j]]
    BY <2>3
  <2>6. size <= size
    BY <1>2
  <2> QED BY <1>2, <1>5, <2>4, <2>5, <2>6 DEF x
<1>9. \/ answers' = answers \o whole
      \/ \E n \in 0 .. Len(whole) - 1 : \E which \in [1 .. n -> 1 .. Len(whole)] :
            answers' = answers \o [i \in 1 .. n |-> whole[which[i]]]
      \/ \E i \in 1 .. Len(whole) :
            answers' = answers \o [whole EXCEPT ![i] = [@ EXCEPT !.data = -1]]
  <2>1. Answers(Head(wire)) = whole
    BY <1>1 DEF whole
  <2> QED BY <2>1 DEF BoardAnswers
<1>10. QED
  BY <1>1, <1>6, <1>7, <1>8, <1>9

LEMMA AnswersInitially == Init => AnswerTypes
<1> SUFFICES ASSUME Init PROVE AnswerTypes
  OBVIOUS
<1>1. /\ answers = <<>> /\ memBlock = <<>> /\ DMATransferID = 0 /\ rxMsgAvail = FALSE
      /\ rx = [at |-> "read", data |-> 0]
  BY DEF Init, Reading
<1>2. <<>> \in Seq(Answer) /\ <<>> \in Seq(Int) /\ 0 \in Int
  OBVIOUS
<1>3. rx = [at |-> rx.at, data |-> rx.data] /\ rx.at = "read" /\ rx.data = 0
  BY <1>1
<1>4. QED
  BY <1>1, <1>2, <1>3 DEF AnswerTypes

LEMMA AnswersStep == ASSUME MemInv, AnswerTypes, [Next]_vars PROVE AnswerTypes'
<1>1. CASE SendBlock
  <2>1. /\ memBlock' = <<>> /\ DMATransferID' = DMATransferID + LINES
        /\ UNCHANGED <<answers, rx, rxMsgAvail>>
    BY <1>1 DEF SendBlock, pio, board
  <2>2. DMATransferID' \in Int
    BY <2>1, CountsAre DEF AnswerTypes
  <2> QED BY <2>1, <2>2 DEF AnswerTypes
<1>2. CASE BoardAnswers
  <2>1. PICK x : answers' = answers \o x /\ Reply(x, wire[1])
    BY <1>2, BoardReplies
  <2>2. UNCHANGED <<memBlock, DMATransferID, rx, rxMsgAvail>>
    BY <1>2 DEF BoardAnswers, pio, dma
  <2>3. answers' \in Seq(Answer)
    BY <2>1 DEF Reply, AnswerTypes
  <2> QED BY <2>2, <2>3 DEF AnswerTypes
<1>3. CASE RxMatch
  <2>1. /\ answers # <<>> /\ answers' = Tail(answers)
        /\ \/ rx' = [at |-> "dma", data |-> Head(answers).data]
           \/ rx' = [at |-> "pio", data |-> Head(answers).data]
           \/ rx' = [at |-> "read", data |-> 0]
        /\ UNCHANGED <<memBlock, DMATransferID, rxMsgAvail>>
    BY <1>3 DEF RxMatch, Reading, pio, dma
  <2>2. answers \in Seq(Answer)
    BY DEF AnswerTypes
  <2>3. Tail(answers) \in Seq(Answer) /\ Head(answers) \in Answer
    BY <2>1, <2>2
  <2>4. PICK d \in Int : d = Head(answers).data
    BY <2>3 DEF Answer
  <2>5. \E at \in {"read", "pio", "dma"}, data \in Int : rx' = [at |-> at, data |-> data]
    BY <2>1, <2>4
  <2>6. rx' = [at |-> rx'.at, data |-> rx'.data] /\ rx'.at \in {"read", "pio", "dma"} /\ rx'.data \in Int
    BY <2>5
  <2> QED BY <2>1, <2>3, <2>6 DEF AnswerTypes
<1>4. CASE RxPio
  <2>1. /\ rx' = [at |-> "read", data |-> 0] /\ rxMsgAvail' = TRUE
        /\ UNCHANGED <<answers, memBlock, DMATransferID>>
    BY <1>4 DEF RxPio, Reading, dma, board
  <2> QED BY <2>1 DEF AnswerTypes
<1>5. CASE DmaReceive
  <2>1. /\ rx' = [at |-> "read", data |-> 0] /\ UNCHANGED <<answers, rxMsgAvail>>
        /\ memBlock' = memBlock \/ memBlock' = Append(memBlock, rx.data)
        /\ DMATransferID' = DMATransferID \/ DMATransferID' = DMATransferID - 1
    BY <1>5 DEF DmaReceive, Reading, pio, board
  <2>2. memBlock' \in Seq(Int) /\ DMATransferID' \in Int
    <3>1. PICK d \in Int : d = rx.data
      BY DEF AnswerTypes
    <3>2. memBlock \in Seq(Int) /\ DMATransferID \in Int
      BY DEF AnswerTypes
    <3>3. Append(memBlock, d) \in Seq(Int) /\ DMATransferID - 1 \in Int
      BY <3>2
    <3> QED BY <2>1, <3>1, <3>2, <3>3
  <2> QED BY <2>1, <2>2 DEF AnswerTypes
<1>6. CASE \/ \E kind \in {"read", "write", "post"}, line \in Lines : TransferPacket(kind, line)
           \/ \E kind \in {"block", "store"} : DmaPrepare(kind)
           \/ DmaTransfer \/ MessageSent \/ Returns \/ TxRun \/ BoardWrites \/ UNCHANGED vars
  <2>0. memBlock' = memBlock \/ memBlock' = <<>>
    BY <1>6 DEF TransferPacket, DmaPrepare, DmaTransfer, MessageSent, Returns, ReadReturns,
                WriteReturns, DmaComplete, PioTimesOut, DmaTimesOut, PioReturns, TxRun, TxLook,
                TxWrite, TxAdvance, BoardWrites, dma, vars
  <2>1. /\ UNCHANGED <<answers, rx>>
        /\ DMATransferID' = DMATransferID \/ DMATransferID' = 0
        /\ rxMsgAvail' = rxMsgAvail \/ rxMsgAvail' = FALSE
    BY <1>6 DEF TransferPacket, DmaPrepare, DmaTransfer, MessageSent, Returns, ReadReturns,
                WriteReturns, DmaComplete, PioTimesOut, DmaTimesOut, PioReturns, TxRun, TxLook,
                TxWrite, TxAdvance, BoardWrites, pio, dma, board, vars
  <2>2. DMATransferID \in Int /\ rxMsgAvail \in BOOLEAN /\ memBlock \in Seq(Int)
    BY DEF AnswerTypes
  <2>3. DMATransferID' \in Int
    BY <2>1, <2>2
  <2>4. rxMsgAvail' \in BOOLEAN
    BY <2>1, <2>2
  <2>5. memBlock' \in Seq(Int)
    <3>1. memBlock \in Seq(Int) /\ <<>> \in Seq(Int)
      BY <2>2
    <3> QED BY <2>0, <3>1
  <2> QED BY <2>1, <2>3, <2>4, <2>5 DEF AnswerTypes
<1>7. QED
  BY <1>1, <1>2, <1>3, <1>4, <1>5, <1>6 DEF Next, Program, Board, Receive

-----------------------------------------------------------------------------
(***************************************************************************)
(* The requests of reads, as long as no answer may come that no access     *)
(* waits for.                                                              *)
(***************************************************************************)
Asks(m)   == m.op = "read"
Asked(m)  == m.lines = IF call.kind = "read" THEN call.todo ELSE All
Expecting == call.kind \in {"read", "block"} /\ call.at \in {"full", "wait"} /\ call.ok
Unanswered == /\ answers = <<>> /\ rx.at = "read" /\ ~rxMsgAvail
              /\ call.kind = "block" => memBlock = <<>>

\* A request that the tx thread has not handed over yet.
ToGo(s) == InRing(s) /\ Asks(txQueue[s]) /\ txQueue[s].id > Upto
Settled == /\ \A s \in Slot : ~ToGo(s)
           /\ \A i \in 1 .. Len(wire) : ~Asks(wire[i])

\* The request of the access under way is the last message: it is in the ring,
\* or on its way to the board, but not both.  A part that is repeated has only it.
Underway ==
  /\ \A s \in Slot : ToGo(s) =>
       /\ txQueue[s].id = sent /\ Asked(txQueue[s])
       /\ \A i \in 1 .. Len(wire) : ~Asks(wire[i])
  /\ \A i \in 1 .. Len(wire) : Asks(wire[i]) =>
       /\ i = Len(wire) /\ Upto = sent /\ Asked(wire[i])
       /\ tx.at = "one part" => Filled = 1

\* Of a single part the first message only is a request that has been handed over.
FirstOnly == \A s \in Slot :
  InRing(s) /\ Asks(txQueue[s]) /\ txQueue[s].id <= Upto /\ tx.at = "one part" =>
    txQueue[s].id = sent - Filled + 1

Requests == FirstOnly /\ (Settled \/ (Expecting /\ Unanswered /\ Underway))

LEMMA RequestsInitially == Init => Requests
<1> SUFFICES ASSUME Init PROVE Requests
  OBVIOUS
<1>1. RingInv /\ MemInv
  BY Initially, MemInitially
<1>2. Filled = 0 /\ wire = <<>>
  BY DEF Init, Filled, Distance
<1>3. ASSUME NEW s \in Slot, InRing(s) PROVE FALSE
  BY <1>1, <1>2, <1>3, Numbers
<1>4. \A i \in 1 .. Len(wire) : ~Asks(wire[i])
  BY <1>2
<1>5. QED
  BY <1>3, <1>4 DEF Requests, FirstOnly, Settled, ToGo

\* Neither the ring nor what is on its way changes.
LEMMA RequestsRest ==
  ASSUME Requests, UNCHANGED <<txQueue, txQueueRead, txQueueWrite, sent, tx, wire>>,
         Settled \/ /\ call'.kind = call.kind /\ call'.todo = call.todo
                    /\ Expecting /\ Unanswered => Expecting' /\ Unanswered'
  PROVE  Requests' /\ (Settled => Settled')
<1>1. Filled' = Filled
  BY DEF Filled
<1>2. Upto' = Upto
  BY <1>1 DEF Upto
<1>3. \A s \in Slot : (InRing(s)' <=> InRing(s)) /\ (ToGo(s)' <=> ToGo(s))
  BY <1>1, <1>2 DEF InRing, ToGo, Asks
<1>4. FirstOnly'
  BY <1>1, <1>2, <1>3 DEF Requests, FirstOnly, Asks
<1>5. Settled => Settled'
  BY <1>3 DEF Settled, Asks
<1>6. ASSUME Underway, call'.kind = call.kind, call'.todo = call.todo PROVE Underway'
  BY <1>1, <1>2, <1>3, <1>6 DEF Underway, Asks, Asked
<1>7. QED
  BY <1>4, <1>5, <1>6 DEF Requests

LEMMA RequestsSend ==
  ASSUME RingInv, MemInv, FirstOnly, Settled, NEW op, NEW lines, SendMessage(op, lines),
         call.at # "full", UNCHANGED <<txQueueRead, tx, wire>>,
         op = "read" => /\ Expecting' /\ Unanswered'
                        /\ lines = IF call'.kind = "read" THEN call'.todo ELSE All
  PROVE  Requests'
<1> DEFINE w == txQueueWrite
           new == [op |-> op, tid |-> txTransid, lines |-> lines, id |-> sent + 1]
<1>1. /\ Upto' = Upto /\ sent' = sent + 1 /\ w \in Slot /\ Filled' = Filled + 1
      /\ \A s \in Slot : InRing(s)' => s = w \/ (InRing(s) /\ txQueue'[s] = txQueue[s])
      /\ txQueue'[w] = new
  BY RingGains
<1>2. /\ sent \in Nat /\ Upto \in Nat /\ Upto <= sent /\ Filled \in Nat
      /\ \A s \in Slot : InRing(s) => txQueue[s].id \in Nat
  BY Numbers, Basics DEF MemInv
<1>3. new.id = sent + 1 /\ new.lines = lines /\ (Asks(new) <=> op = "read")
  BY DEF Asks
<1> HIDE DEF new, w
<1>4. sent' - Filled' + 1 = sent - Filled + 1 /\ ~(sent + 1 <= Upto)
  BY <1>1, <1>2
<1>5. FirstOnly'
  <2> SUFFICES ASSUME NEW s \in Slot, InRing(s)', Asks(txQueue'[s]), txQueue'[s].id <= Upto,
                      tx.at = "one part"
               PROVE  txQueue'[s].id = sent - Filled + 1
    BY <1>1, <1>4 DEF FirstOnly, Asks
  <2>1. s # w
    BY <1>1, <1>3, <1>4
  <2> QED BY <1>1, <2>1 DEF FirstOnly
<1>6. ASSUME NEW s \in Slot, ToGo(s)' PROVE s = w /\ op = "read"
  <2>1. InRing(s)' /\ Asks(txQueue'[s]) /\ txQueue'[s].id > Upto
    BY <1>1, <1>6 DEF ToGo, Asks
  <2>2. ~ToGo(s)
    BY DEF Settled
  <2>3. s = w
    BY <1>1, <2>1, <2>2 DEF ToGo
  <2> QED BY <1>1, <1>3, <2>1, <2>3
<1>7. \A i \in 1 .. Len(wire') : ~Asks(wire'[i])
  BY DEF Settled
<1>8. CASE op = "read"
  <2>1. ASSUME NEW s \in Slot, ToGo(s)' PROVE txQueue'[s].id = sent' /\ Asked(txQueue[s])'
    <3>1. txQueue'[s] = new
      BY <1>1, <1>6, <2>1
    <3>2. txQueue'[s].lines = IF call'.kind = "read" THEN call'.todo ELSE All
      BY <1>3, <1>8, <3>1
    <3> QED BY <1>1, <1>3, <3>1, <3>2 DEF Asked
  <2>2. Underway'
    BY <1>7, <2>1 DEF Underway, Asks
  <2> QED BY <1>5, <1>8, <2>2 DEF Requests
<1>9. CASE op # "read"
  <2>1. Settled'
    BY <1>6, <1>7, <1>9 DEF Settled, Asks
  <2> QED BY <1>5, <2>1 DEF Requests
<1>10. QED
  BY <1>8, <1>9

\* What the tx thread does is none of the program's business.
LEMMA RequestsKept ==
  ASSUME Requests, UNCHANGED <<call, answers, rx, rxMsgAvail, memBlock>>, FirstOnly',
         Settled => Settled', Underway => Settled' \/ Underway'
  PROVE  Requests' /\ (Settled => Settled')
<1>1. Expecting /\ Unanswered => Expecting' /\ Unanswered'
  BY DEF Expecting, Unanswered
<1>2. QED
  BY <1>1 DEF Requests

LEMMA RequestsLook ==
  ASSUME RingInv, MemInv, Requests, TxLook
  PROVE  Requests' /\ (Settled => Settled')
<1>1. /\ UNCHANGED <<txQueue, txQueueRead, txQueueWrite, sent, wire>>
      /\ UNCHANGED <<call, answers, rx, rxMsgAvail, memBlock>>
  BY DEF TxLook, ring, board, pio, dma
<1>2. tx.done = 0 /\ tx'.done = 0
  BY DEF TxLook, MemInv
<1>3. Filled' = Filled
  BY <1>1 DEF Filled
<1>4. Upto' = Upto /\ \A s \in Slot : (InRing(s)' <=> InRing(s)) /\ (ToGo(s)' <=> ToGo(s))
  BY <1>1, <1>2, <1>3 DEF Upto, InRing, ToGo, Asks
<1>5. /\ sent \in Nat /\ Filled \in Nat /\ Filled # 0 /\ Upto = sent - Filled
      /\ \A s \in Slot : InRing(s) => txQueue[s].id \in Nat /\ sent - Filled < txQueue[s].id
  <2>1. txQueueRead # txQueueWrite
    BY DEF TxLook, isEmpty
  <2>2. /\ txQueueRead \in Nat /\ txQueueRead < QSIZE /\ txQueueWrite \in Nat /\ QSIZE \in Nat
        /\ sent \in Nat /\ Filled \in Nat
    BY Basics
  <2>3. Filled # 0
    BY <2>1, <2>2 DEF Filled, Distance
  <2>4. Upto = sent - Filled
    BY <1>2, <2>2 DEF Upto
  <2> QED BY <2>2, <2>3, <2>4, Numbers
<1>6. FirstOnly'
  <2>1. ASSUME NEW s \in Slot, InRing(s) PROVE ~(txQueue[s].id <= Upto)
    BY <1>5, <2>1
  <2> QED BY <1>1, <1>4, <2>1 DEF FirstOnly
<1>7. Settled => Settled'
  BY <1>1, <1>4 DEF Settled, Asks
<1>8. Underway => Underway'
  <2>1. Upto # sent
    BY <1>5
  <2> QED BY <1>1, <1>4, <2>1 DEF Underway, Asks, Asked
<1>9. QED
  BY <1>1, <1>6, <1>7, <1>8, RequestsKept

LEMMA RequestsAdvance ==
  ASSUME RingInv, Requests, TxAdvance
  PROVE  Requests' /\ (Settled => Settled')
<1>1. /\ UNCHANGED <<txQueue, sent, wire>>
      /\ UNCHANGED <<call, answers, rx, rxMsgAvail, memBlock>>
  BY DEF TxAdvance, ring, board, pio, dma
<1>2. /\ Upto' <= Upto /\ tx'.at # "one part"
      /\ tx.at = "one part" => Upto' = sent - Filled + 1
      /\ tx.at # "one part" => Upto' = Upto
      /\ \A s \in Slot : InRing(s)' => InRing(s)
  BY RingLoses
<1>3. /\ sent \in Nat /\ Filled \in Nat /\ Upto \in Nat
      /\ \A s \in Slot : InRing(s) => txQueue[s].id \in Nat
  BY Numbers
<1>4. FirstOnly'
  BY <1>2 DEF FirstOnly
<1>5. ASSUME NEW s \in Slot, ToGo(s)' PROVE ToGo(s)
  <2>1. InRing(s) /\ Asks(txQueue[s]) /\ txQueue[s].id > Upto' /\ txQueue[s].id \in Nat
    BY <1>1, <1>2, <1>3, <1>5 DEF ToGo, Asks
  <2>2. CASE tx.at = "one part"
    <3>1. txQueue[s].id # sent - Filled + 1
      <4>1. Upto' = sent - Filled + 1
        BY <1>2, <2>2
      <4> QED BY <1>3, <2>1, <4>1
    <3>2. ~(txQueue[s].id <= Upto)
      BY <2>1, <2>2, <3>1 DEF Requests, FirstOnly
    <3>3. txQueue[s].id > Upto
      BY <1>3, <2>1, <3>2
    <3> QED BY <2>1, <3>3 DEF ToGo
  <2>3. CASE tx.at # "one part"
    BY <1>2, <2>1, <2>3 DEF ToGo
  <2> QED BY <2>2, <2>3
<1>6. Settled => Settled'
  BY <1>1, <1>5 DEF Settled, Asks
<1>7. ASSUME Underway PROVE Underway'
  <2>1. ASSUME NEW s \in Slot, ToGo(s)'
        PROVE  /\ txQueue'[s].id = sent' /\ Asked(txQueue[s])'
               /\ \A i \in 1 .. Len(wire') : ~Asks(wire[i])'
    <3>1. ToGo(s)
      BY <1>5, <2>1
    <3> QED BY <1>1, <1>7, <3>1 DEF Underway, Asked, Asks
  <2>2. ASSUME NEW i \in 1 .. Len(wire), Asks(wire[i])
        PROVE  i = Len(wire) /\ Asked(wire[i])' /\ Upto' = sent
    <3>1. i = Len(wire) /\ Upto = sent /\ Asked(wire[i]) /\ (tx.at = "one part" => Filled = 1)
      BY <1>7, <2>2 DEF Underway
    <3>2. Filled = 1 => sent - Filled + 1 = sent
      BY <1>3
    <3>3. Upto' = sent
      BY <1>2, <3>1, <3>2
    <3> QED BY <1>1, <3>1, <3>3 DEF Asked
  <2> QED BY <1>1, <1>2, <2>1, <2>2 DEF Underway, Asks
<1>8. QED
  BY <1>1, <1>4, <1>6, <1>7, RequestsKept

LEMMA SameMessage ==
  ASSUME RingInv, NEW s \in Slot, NEW t \in Slot, InRing(s), InRing(t),
         txQueue[s].id = txQueue[t].id
  PROVE  s = t
<1>1. /\ QSIZE \in Nat /\ txQueueWrite \in Nat /\ txQueueWrite < QSIZE /\ sent \in Nat
      /\ s \in Nat /\ s < QSIZE /\ t \in Nat /\ t < QSIZE
  BY Basics, SizeIs
<1>2. /\ Distance(s, txQueueWrite) \in Nat /\ Distance(t, txQueueWrite) \in Nat
      /\ txQueue[s].id = sent + 1 - Distance(s, txQueueWrite)
      /\ txQueue[t].id = sent + 1 - Distance(t, txQueueWrite)
  BY Numbers, DistanceIs, Basics
<1>3. Distance(s, txQueueWrite) = Distance(t, txQueueWrite)
  <2>1. PICK a \in Nat, b \in Nat : a = Distance(s, txQueueWrite) /\ b = Distance(t, txQueueWrite)
    BY <1>2
  <2>2. sent + 1 - a = sent + 1 - b
    BY <1>2, <2>1
  <2>3. a = b
    BY <1>1, <2>2
  <2> QED BY <2>1, <2>3
<1>4. QED
  BY <1>1, <1>3 DEF Distance

LEMMA RequestsHanded ==
  ASSUME RingInv, MemInv, Requests, NEW n \in 1 .. QSIZE, TxWrite(n), ~stray'
  PROVE  Requests' /\ (Settled => Settled')
<1> DEFINE slot(i) == txQueueRead + tx.done + i - 1
           ms == [i \in 1 .. n |-> txQueue[slot(i)]]
<1>1. /\ tx'.at = tx.at /\ Upto' = Upto + n /\ Upto + n <= sent /\ Filled' = Filled
      /\ \A s \in Slot : InRing(s)' <=> InRing(s)
      /\ \A i \in 1 .. n : slot(i) \in Slot /\ InRing(slot(i)) /\ txQueue[slot(i)].id = Upto + i
  BY RingHanded
<1>2. /\ wire' = wire \o ms /\ ~Again(ms)
      /\ UNCHANGED <<txQueue, sent>>
      /\ UNCHANGED <<call, answers, rx, rxMsgAvail, memBlock>>
  BY DEF TxWrite, ring, pio, dma
<1>3. /\ n \in Nat /\ n >= 1 /\ Upto \in Nat /\ sent \in Nat /\ Filled \in Nat
      /\ \A s \in Slot : InRing(s) => txQueue[s].id \in Nat
  <2>1. QSIZE \in Nat
    BY SizeIs
  <2> QED BY <2>1, Numbers
<1>4. PICK done \in Nat : done = tx.done /\ Upto = sent - Filled + done
  BY Basics DEF Upto
<1>5. \A i \in 1 .. n : ms[i] = txQueue[slot(i)]
  OBVIOUS
<1>6. Len(ms) = n
  BY <1>3
<1>7. \A i \in 1 .. n : Asks(ms[i]) /\ tx.at = "one part" => i + done <= 1
  <2>1. \A i \in 1 .. n : i + tx.done <= 1 \/ i + tx.done > 1
    BY <1>3, <1>4
  <2>2. DOMAIN ms = 1 .. n
    OBVIOUS
  <2> QED BY <1>2, <1>4, <2>1, <2>2 DEF Again, Asks
<1> HIDE DEF ms, slot
\* What is on the wire afterwards.
<1>8. /\ wire \in Seq(Message) /\ Len(wire) \in Nat /\ Len(wire') = Len(wire) + n
      /\ \A i \in 1 .. Len(wire') :
           \/ i \in 1 .. Len(wire) /\ wire'[i] = wire[i]
           \/ i - Len(wire) \in 1 .. n /\ wire'[i] = ms[i - Len(wire)]
  <2>1. wire \in Seq(Message) /\ ms \in Seq(Message)
    <3>1. \A i \in 1 .. n : ms[i] \in Message
      BY <1>1, <1>5 DEF MemInv, WellFormed
    <3>2. ms = [i \in 1 .. n |-> ms[i]]
      BY DEF ms
    <3>3. ms \in Seq(Message)
      BY <1>3, <3>1, <3>2
    <3> QED BY <3>3 DEF MemInv
  <2>2. PICK w \in Seq(Message), u \in Seq(Message) : w = wire /\ u = ms
    BY <2>1
  <2>3. wire' = w \o u /\ Len(u) = n
    BY <1>2, <1>6, <2>2
  <2>4. /\ Len(w) \in Nat /\ Len(w \o u) = Len(w) + Len(u)
        /\ \A i \in 1 .. Len(w \o u) :
             \/ i \in 1 .. Len(w) /\ (w \o u)[i] = w[i]
             \/ i - Len(w) \in 1 .. Len(u) /\ (w \o u)[i] = u[i - Len(w)]
    OBVIOUS
  <2> QED BY <2>1, <2>2, <2>3, <2>4
<1>9. ASSUME NEW s \in Slot, ToGo(s)'
      PROVE  ToGo(s) /\ txQueue[s].id > Upto + n /\ txQueue[s].id \in Nat
  <2>1. InRing(s) /\ Asks(txQueue[s]) /\ txQueue[s].id > Upto + n /\ txQueue[s].id \in Nat
    BY <1>1, <1>2, <1>3, <1>9 DEF ToGo, Asks
  <2>2. txQueue[s].id > Upto
    BY <1>3, <2>1
  <2> QED BY <2>1, <2>2 DEF ToGo
<1>10. ASSUME NEW i \in 1 .. n, Asks(ms[i]) PROVE ToGo(slot(i)) /\ slot(i) \in Slot
  <2>1. Upto + i > Upto
    BY <1>3
  <2> QED BY <1>1, <1>5, <1>10, <2>1 DEF ToGo
<1>11. ASSUME Settled PROVE Settled'
  BY <1>2, <1>8, <1>9, <1>10, <1>11 DEF Settled, Asks
<1>12. ASSUME Underway, NEW i \in 1 .. n, Asks(ms[i])
       PROVE  i = n /\ Upto + n = sent /\ Asked(ms[i]) /\ (tx.at = "one part" => n = 1 /\ Filled = 1)
  <2>1. ToGo(slot(i)) /\ slot(i) \in Slot /\ txQueue[slot(i)].id = Upto + i
    BY <1>1, <1>10, <1>12
  <2>2. txQueue[slot(i)].id = sent /\ Asked(ms[i])
    BY <1>5, <1>12, <2>1 DEF Underway
  <2>3. i = n /\ Upto + n = sent
    <3>1. Upto + i = sent
      BY <2>1, <2>2
    <3> QED BY <1>1, <1>3, <3>1
  <2>4. i + done <= 1 => n = 1 /\ Filled = 1
    BY <1>3, <1>4, <2>3
  <2> QED BY <1>7, <1>12, <2>2, <2>3, <2>4
<1>13. FirstOnly'
  <2>1. ASSUME NEW s \in Slot, InRing(s), Asks(txQueue[s]), txQueue[s].id <= Upto + n,
               tx.at = "one part"
        PROVE  txQueue[s].id = sent - Filled + 1
    <3>1. CASE txQueue[s].id <= Upto
      BY <2>1, <3>1 DEF Requests, FirstOnly
    <3>2. CASE txQueue[s].id > Upto
      <4>1. PICK id \in Nat : id = txQueue[s].id /\ id > Upto /\ id <= Upto + n
        BY <1>3, <2>1, <3>2
      <4>2. PICK i \in 1 .. n : Upto + i = id
        <5>1. id - Upto \in 1 .. n /\ Upto + (id - Upto) = id
          BY <1>3, <4>1
        <5> QED BY <5>1
      <4>3. slot(i) = s
        <5>1. slot(i) \in Slot /\ InRing(slot(i)) /\ txQueue[slot(i)].id = txQueue[s].id
          BY <1>1, <4>1, <4>2
        <5> QED BY <2>1, <5>1, SameMessage
      <4>4. i + done <= 1
        BY <1>5, <1>7, <2>1, <4>3
      <4>5. Upto + i = sent - Filled + 1
        BY <1>3, <1>4, <4>4
      <4> QED BY <4>1, <4>2, <4>5
    <3>3. txQueue[s].id \in Nat
      BY <1>3, <2>1
    <3>4. txQueue[s].id <= Upto \/ txQueue[s].id > Upto
      BY <1>3, <3>3
    <3> QED BY <3>1, <3>2, <3>4
  <2> QED BY <1>1, <1>2, <2>1 DEF FirstOnly, Asks
<1>14. ASSUME Underway PROVE Underway'
  <2>1. ASSUME NEW s \in Slot, ToGo(s)'
        PROVE  /\ txQueue[s].id = sent /\ Asked(txQueue[s])
               /\ \A i \in 1 .. Len(wire') : ~Asks(wire'[i])
    <3>1. /\ ToGo(s) /\ txQueue[s].id = sent /\ Asked(txQueue[s]) /\ Upto + n # sent
          /\ \A i \in 1 .. Len(wire) : ~Asks(wire[i])
      <4>1. ToGo(s) /\ txQueue[s].id > Upto + n
        BY <1>9, <2>1
      <4>2. /\ txQueue[s].id = sent /\ Asked(txQueue[s])
            /\ \A i \in 1 .. Len(wire) : ~Asks(wire[i])
        BY <1>14, <4>1 DEF Underway
      <4> QED BY <1>3, <4>1, <4>2
    <3>2. \A i \in 1 .. n : ~Asks(ms[i])
      BY <1>12, <1>14, <3>1
    <3> QED BY <1>8, <3>1, <3>2
  <2>2. ASSUME NEW i \in 1 .. Len(wire'), Asks(wire'[i])
        PROVE  /\ i = Len(wire') /\ Upto + n = sent /\ Asked(wire'[i])
               /\ tx.at = "one part" => Filled = 1
    <3>1. CASE i \in 1 .. Len(wire) /\ wire'[i] = wire[i]
      <4>1. Upto = sent
        BY <1>14, <2>2, <3>1 DEF Underway
      <4>2. Upto + n <= sent
        BY <1>1
      <4>3. FALSE
        BY <1>3, <4>1, <4>2
      <4> QED BY <4>3
    <3>2. CASE i - Len(wire) \in 1 .. n /\ wire'[i] = ms[i - Len(wire)]
      <4>1. PICK k \in 1 .. n : k = i - Len(wire) /\ wire'[i] = ms[k]
        BY <3>2
      <4>2. /\ k = n /\ Upto + n = sent /\ Asked(wire'[i]) /\ (tx.at = "one part" => Filled = 1)
        BY <1>12, <1>14, <2>2, <4>1
      <4>3. i = Len(wire')
        <5>1. Len(wire') = Len(wire) + n /\ Len(wire) \in Nat /\ n = i - Len(wire)
          BY <1>8, <4>1, <4>2
        <5>2. i \in Int
          BY <1>3, <5>1
        <5> QED BY <1>3, <5>1, <5>2
      <4> QED BY <4>2, <4>3
    <3> QED BY <1>8, <3>1, <3>2
  <2> QED BY <1>1, <1>2, <2>1, <2>2 DEF Underway, Asked, Asks
<1>15. QED
  BY <1>2, <1>11, <1>13, <1>14, RequestsKept

\* A request that the board has answered is not waited for any more.
LEMMA RequestsBoard ==
  ASSUME RingInv, MemInv, Requests, Board
  PROVE  /\ FirstOnly'
         /\ BoardWrites => Requests' /\ (Settled => Settled')
         /\ BoardAnswers => /\ Settled' /\ Expecting /\ Unanswered
                            /\ Len(wire) = 1 /\ Upto = sent /\ Asked(wire[1])
<1>1. /\ wire # <<>> /\ wire' = Tail(wire)
      /\ UNCHANGED <<txQueue, txQueueRead, txQueueWrite, sent, tx>>
      /\ UNCHANGED <<call, rx, rxMsgAvail, memBlock>>
  BY DEF Board, BoardWrites, BoardAnswers, ring, pio, dma
<1>2. Filled' = Filled
  BY <1>1 DEF Filled
<1>3. Upto' = Upto /\ \A s \in Slot : (InRing(s)' <=> InRing(s)) /\ (ToGo(s)' <=> ToGo(s))
  BY <1>1, <1>2 DEF Upto, InRing, ToGo, Asks
<1>4. /\ Head(wire) = wire[1] /\ Len(wire') = Len(wire) - 1 /\ Len(wire) \in Nat /\ Len(wire) >= 1
      /\ \A i \in 1 .. Len(wire') : wire'[i] = wire[i + 1] /\ i + 1 \in 1 .. Len(wire)
  BY <1>1, TailMessages
<1>5. FirstOnly'
  BY <1>1, <1>2, <1>3 DEF Requests, FirstOnly, Asks
<1>6. Settled => Settled'
  BY <1>3, <1>4 DEF Settled, Asks
<1>7. ASSUME Underway PROVE Underway'
  <2>1. ASSUME NEW i \in 1 .. Len(wire'), Asks(wire'[i])
        PROVE  i = Len(wire') /\ Upto = sent /\ Asked(wire'[i]) /\ (tx.at = "one part" => Filled = 1)
    <3>1. i + 1 \in 1 .. Len(wire) /\ wire'[i] = wire[i + 1]
      BY <1>4, <2>1
    <3>2. i + 1 = Len(wire) /\ Upto = sent /\ Asked(wire'[i]) /\ (tx.at = "one part" => Filled = 1)
      BY <1>7, <2>1, <3>1 DEF Underway
    <3>3. i = Len(wire')
      <4>1. i + 1 = Len(wire) /\ Len(wire') = Len(wire) - 1 /\ Len(wire) \in Nat
        BY <1>4, <3>2
      <4>2. i \in Int
        BY <1>4
      <4> QED BY <4>1, <4>2
    <3> QED BY <3>2, <3>3
  <2>2. ASSUME NEW s \in Slot, ToGo(s)
        PROVE  /\ txQueue[s].id = sent /\ Asked(txQueue[s])
               /\ \A i \in 1 .. Len(wire') : ~Asks(wire'[i])
    BY <1>4, <1>7, <2>2 DEF Underway
  <2> QED BY <1>1, <1>2, <1>3, <2>1, <2>2 DEF Underway, Asked, Asks
<1>8. ASSUME BoardWrites PROVE Requests' /\ (Settled => Settled')
  <2>1. answers' = answers
    BY <1>8 DEF BoardWrites
  <2> QED BY <1>1, <1>5, <1>6, <1>7, <2>1, RequestsKept
<1>9. ASSUME BoardAnswers
      PROVE  /\ Settled' /\ Expecting /\ Unanswered
             /\ Len(wire) = 1 /\ Upto = sent /\ Asked(wire[1])
  <2>1. 1 \in 1 .. Len(wire) /\ Asks(wire[1])
    BY <1>4, <1>9 DEF BoardAnswers, Asks
  <2>2. Expecting /\ Unanswered /\ Underway
    BY <2>1 DEF Requests, Settled
  <2>3. 1 = Len(wire) /\ Upto = sent /\ Asked(wire[1])
    BY <2>1, <2>2 DEF Underway
  <2>4. \A s \in Slot : ~ToGo(s)
    BY <2>1, <2>2 DEF Underway
  <2>5. \A i \in 1 .. Len(wire') : FALSE
    <3>1. Len(wire') = Len(wire) - 1
      BY <1>4
    <3>2. Len(wire') = 0
      BY <2>3, <3>1
    <3> QED BY <3>2
  <2> QED BY <1>3, <2>2, <2>3, <2>4, <2>5 DEF Settled
<1>10. QED
  BY <1>5, <1>8, <1>9

-----------------------------------------------------------------------------
(***************************************************************************)
(* Where the answers of the access under way are.                          *)
(***************************************************************************)
Good(l, v) == v \in {expect[l], -1}

\* The answer of a read is not there yet, or still to be read, looked at or taken.
ReadPart ==
  LET l == call.todo[1] IN
  \/ Unanswered
  \/ Len(answers) = 1 /\ Good(l, answers[1].data) /\ rx.at = "read" /\ ~rxMsgAvail
  \/ answers = <<>> /\ rx.at = "pio" /\ Good(l, rx.data) /\ ~rxMsgAvail
  \/ answers = <<>> /\ rx.at = "read" /\ rxMsgAvail /\ Good(l, rxMsg)

\* What has come of a block and what is still to come: if it is all, it is right.
Fits(block, late) ==
  /\ Len(block) + Len(late) <= LINES
  /\ Len(block) + Len(late) = LINES =>
       /\ \A i \in 1 .. Len(block) : Good(i, block[i])
       /\ \A i \in 1 .. Len(late) : Good(Len(block) + i, late[i].data)

BlockPart ==
  /\ DMAData = "memBlock" /\ ~rxMsgAvail /\ DMATransferID = LINES - Len(memBlock)
  /\ \/ rx.at = "read" /\ Fits(memBlock, answers)
     \/ rx.at = "dma" /\ Fits(Append(memBlock, rx.data), answers)

Quiet == answers = <<>> /\ rx.at = "read" /\ ~rxMsgAvail

Expected == IF Expecting THEN IF call.kind = "read" THEN ReadPart ELSE BlockPart ELSE Quiet

Prepared == call.at = "prepared" /\ call.kind = "block" => DMATransferID = 0

Result == /\ Done("read") => call.data = <<expect[call.todo[1]]>>
          /\ Done("block") => /\ Len(call.data) = LINES
                              /\ \A l \in Lines : call.data[l] \in {expect[l], -1}

ReadsInv == RingInv /\ CallInv /\ MemInv /\ AnswerTypes
            /\ (~stray => Requests /\ Expected /\ Prepared /\ Result)

\* What a step has to show.
Goal == Requests' /\ Expected' /\ Prepared' /\ Result'

LEMMA FitsMoves ==
  ASSUME NEW block \in Seq(Int), NEW late \in Seq(Answer), late # <<>>, Fits(block, late)
  PROVE  Fits(Append(block, Head(late).data), Tail(late))
<1> DEFINE more == Append(block, Head(late).data)
           rest == Tail(late)
<1>1. /\ Len(more) = Len(block) + 1 /\ Len(block) \in Nat
      /\ Len(rest) = Len(late) - 1 /\ Len(late) \in Nat /\ Len(late) >= 1
      /\ \A i \in 1 .. Len(block) : more[i] = block[i]
      /\ more[Len(block) + 1] = late[1].data
      /\ \A i \in 1 .. Len(rest) : rest[i] = late[i + 1] /\ i + 1 \in 1 .. Len(late)
  <2>1. /\ Len(rest) = Len(late) - 1 /\ Len(late) \in Nat /\ Len(late) >= 1
        /\ \A i \in 1 .. Len(rest) : rest[i] = late[i + 1] /\ i + 1 \in 1 .. Len(late)
        /\ Head(late) = late[1] /\ late[1] \in Answer
    OBVIOUS
  <2>2. PICK d \in Int : d = late[1].data
    BY <2>1 DEF Answer
  <2>3. /\ Len(Append(block, d)) = Len(block) + 1 /\ Len(block) \in Nat
        /\ \A i \in 1 .. Len(block) : Append(block, d)[i] = block[i]
        /\ Append(block, d)[Len(block) + 1] = d
    OBVIOUS
  <2>4. more = Append(block, d)
    BY <2>1, <2>2
  <2> HIDE DEF more, rest
  <2> QED BY <2>1, <2>2, <2>3, <2>4
<1> HIDE DEF more, rest
<1>2. Len(more) + Len(rest) = Len(block) + Len(late)
  BY <1>1
<1>3. ASSUME Len(more) + Len(rest) = LINES
      PROVE  /\ \A i \in 1 .. Len(more) : Good(i, more[i])
             /\ \A i \in 1 .. Len(rest) : Good(Len(more) + i, rest[i].data)
  <2>1. /\ \A i \in 1 .. Len(block) : Good(i, block[i])
        /\ \A i \in 1 .. Len(late) : Good(Len(block) + i, late[i].data)
    BY <1>2, <1>3 DEF Fits
  <2>2. ASSUME NEW i \in 1 .. Len(more) PROVE Good(i, more[i])
    <3>1. CASE i = Len(block) + 1
      <4>1. 1 \in 1 .. Len(late)
        BY <1>1
      <4> QED BY <1>1, <2>1, <3>1, <4>1
    <3>2. CASE i # Len(block) + 1
      <4>1. i \in 1 .. Len(block)
        BY <1>1, <3>2
      <4> QED BY <1>1, <2>1, <4>1
    <3> QED BY <3>1, <3>2
  <2>3. ASSUME NEW i \in 1 .. Len(rest) PROVE Good(Len(more) + i, rest[i].data)
    <3>1. rest[i] = late[i + 1] /\ i + 1 \in 1 .. Len(late)
      BY <1>1
    <3>2. Len(block) + (i + 1) = Len(more) + i
      BY <1>1
    <3> QED BY <2>1, <3>1, <3>2
  <2> QED BY <2>2, <2>3
<1>4. Fits(more, rest)
  BY <1>2, <1>3 DEF Fits
<1>5. QED
  BY <1>4 DEF more, rest

LEMMA NothingToCome ==
  ASSUME RingInv, ~AnswerToCome
  PROVE  Settled /\ answers = <<>> /\ rx.at = "read"
<1>1. /\ answers = <<>> /\ rx.at = "read"
      /\ \A m \in Waiting \cup Range(wire) : ~Asks(m)
  BY DEF AnswerToCome, Asks
<1>2. ASSUME NEW s \in Slot, InRing(s) PROVE txQueue[s] \in Waiting
  <2>1. /\ txQueueRead \in Nat /\ txQueueRead < QSIZE /\ txQueueWrite \in Nat /\ txQueueWrite < QSIZE
        /\ s \in Nat /\ s < QSIZE /\ QSIZE \in Nat
    BY Basics, SizeIs
  <2>2. 1 <= Distance(s, txQueueWrite) /\ Distance(s, txQueueWrite) <= Distance(txQueueRead, txQueueWrite)
    BY <1>2 DEF InRing, Filled
  <2>3. IF txQueueRead <= txQueueWrite THEN txQueueRead <= s /\ s < txQueueWrite
                                       ELSE txQueueRead <= s \/ s < txQueueWrite
    BY <2>1, <2>2 DEF Distance
  <2> QED BY <2>3 DEF Waiting, Slot
<1>3. \A i \in 1 .. Len(wire) : ~Asks(wire[i])
  BY <1>1 DEF Range
<1>4. QED
  BY <1>1, <1>2, <1>3 DEF Settled, ToGo

LEMMA ResultKept ==
  ASSUME Result, \/ UNCHANGED <<call, expect>>
                 \/ call'.at # "idle"
                 \/ ~call'.ok
                 \/ call'.kind \notin {"read", "block"}
  PROVE  Result'
BY DEF Result, Done

\* A step with which no access ends or begins, and no answer moves.
LEMMA ExpectedKept ==
  ASSUME Expected, UNCHANGED <<answers, rx, rxMsg, rxMsgAvail, memBlock, DMAData, DMATransferID>>,
         UNCHANGED expect, call'.kind = call.kind, call'.todo = call.todo, Expecting' <=> Expecting
  PROVE  Expected'
<1>1. ReadPart' <=> ReadPart
  BY DEF ReadPart, Unanswered, Good
<1>2. BlockPart' <=> BlockPart
  BY DEF BlockPart, Fits, Good
<1>3. Quiet' <=> Quiet
  BY DEF Quiet
<1>4. QED
  BY <1>1, <1>2, <1>3 DEF Expected

LEMMA ReadsInitially == Init => ReadsInv
<1> SUFFICES ASSUME Init PROVE ReadsInv
  OBVIOUS
<1>1. RingInv /\ MemInv /\ AnswerTypes /\ Requests
  BY Initially, MemInitially, AnswersInitially, RequestsInitially
<1>2. /\ call.at = "idle" /\ call.kind = "none" /\ call.todo = <<>> /\ call.ok = FALSE
      /\ txTransid = 0 /\ DMATransferInProgress = FALSE
      /\ answers = <<>> /\ rx.at = "read" /\ rxMsgAvail = FALSE
  BY DEF Init, Reading
<1>3. CallInv
  <2>1. <<>> \in Seq(Lines) /\ txTransid \in Nat
    BY <1>2
  <2> QED BY <1>2, <2>1 DEF CallInv
<1>4. Expected /\ Prepared /\ Result
  BY <1>2 DEF Expected, Expecting, Quiet, Prepared, Result, Done
<1>5. QED
  BY <1>1, <1>3, <1>4 DEF ReadsInv

-----------------------------------------------------------------------------
\* The program begins an access, and sends its messages.
LEMMA ReadTransfer ==
  ASSUME ReadsInv, ~stray, NEW kind \in {"read", "write", "post"}, NEW line \in Lines,
         TransferPacket(kind, line)
  PROVE  Goal
<1>1. /\ call.at = "idle"
      /\ call' = [at |-> "full", kind |-> kind, todo |-> <<line>>, ok |-> TRUE, data |-> <<>>]
      /\ SendMessage(IF kind = "read" THEN "read" ELSE "write", <<line>>)
      /\ UNCHANGED <<txQueueRead, tx, wire, answers, rx, rxMsg, rxMsgAvail, memBlock>>
  BY DEF TransferPacket, Begin, pio, dma, board
<1>2. ~Expecting /\ Quiet /\ Settled /\ FirstOnly
  BY <1>1 DEF ReadsInv, Expected, Requests, Expecting
<1>3. /\ call'.at = "full" /\ call'.kind = kind /\ call'.todo = <<line>> /\ call'.ok
      /\ Quiet'
  BY <1>1, <1>2 DEF Quiet
<1>4. kind = "read" => Expecting' /\ Unanswered'
  BY <1>3 DEF Expecting, Unanswered, Quiet
<1>5. Requests'
  <2>1. PICK op : op = IF kind = "read" THEN "read" ELSE "write"
    OBVIOUS
  <2>2. SendMessage(op, <<line>>)
    BY <1>1, <2>1
  <2>3. op = "read" => kind = "read"
    BY <2>1
  <2>4. /\ op = "read" => /\ Expecting' /\ Unanswered'
                          /\ <<line>> = IF call'.kind = "read" THEN call'.todo ELSE All
    BY <1>3, <1>4, <2>3
  <2> QED BY <1>1, <1>2, <2>2, <2>4, RequestsSend DEF ReadsInv
<1>6. Expected'
  <2>1. CASE kind = "read"
    BY <1>3, <1>4, <2>1 DEF Expected, ReadPart
  <2>2. CASE kind # "read"
    BY <1>3, <2>2 DEF Expected, Expecting
  <2> QED BY <2>1, <2>2
<1>7. QED
  BY <1>3, <1>5, <1>6, ResultKept DEF ReadsInv, Goal, Prepared

LEMMA ReadPrepare ==
  ASSUME ReadsInv, ~stray, NEW kind \in {"block", "store"}, DmaPrepare(kind)
  PROVE  Goal
<1>1. /\ call.at = "idle" /\ DMATransferID' = 0
      /\ call' = [at |-> "prepared", kind |-> kind, todo |-> All, ok |-> TRUE, data |-> <<>>]
      /\ UNCHANGED <<txQueue, txQueueRead, txQueueWrite, sent, expect, tx, wire, answers, rx, rxMsgAvail>>
  BY DEF DmaPrepare, Begin, pio, ring, board
<1>2. ~Expecting /\ Quiet /\ Settled
  BY <1>1 DEF ReadsInv, Expected, Requests, Expecting
<1>3. call'.at = "prepared" /\ ~Expecting'
  BY <1>1 DEF Expecting
<1>4. Requests'
  BY <1>1, <1>2, RequestsRest DEF ReadsInv
<1>5. Expected'
  BY <1>1, <1>2, <1>3 DEF Expected, Quiet
<1>6. QED
  BY <1>1, <1>3, <1>4, <1>5, ResultKept DEF ReadsInv, Goal, Prepared

LEMMA ReadSendBlock == ASSUME ReadsInv, ~stray, SendBlock PROVE Goal
<1>0. call = [at |-> call.at, kind |-> call.kind, todo |-> call.todo, ok |-> call.ok,
              data |-> call.data]
  BY DEF ReadsInv, RingInv, Types, IsCall
<1>1. /\ call.at = "prepared" /\ call.kind = "block"
      /\ call' = [at |-> "full", kind |-> call.kind, todo |-> <<>>, ok |-> call.ok, data |-> call.data]
      /\ DMAData' = "memBlock" /\ memBlock' = <<>> /\ DMATransferID' = DMATransferID + LINES
      /\ SendMessage("read", All)
      /\ UNCHANGED <<txQueueRead, tx, wire, answers, rx, rxMsgAvail>>
  BY <1>0 DEF SendBlock, pio, board
<1>2. ~Expecting /\ Quiet /\ Settled /\ FirstOnly /\ DMATransferID = 0
  BY <1>1 DEF ReadsInv, Expected, Requests, Expecting, Prepared
<1>3. call'.at = "full" /\ call'.kind = "block" /\ call'.ok /\ Quiet'
  BY <1>1, <1>2 DEF ReadsInv, CallInv, Quiet
<1>4. Expecting' /\ Unanswered'
  BY <1>1, <1>3 DEF Expecting, Unanswered, Quiet
<1>5. Requests'
  <2>1. All = IF call'.kind = "read" THEN call'.todo ELSE All
    BY <1>3
  <2> QED BY <1>1, <1>2, <1>4, <2>1, RequestsSend DEF ReadsInv
<1>6. Expected'
  <2>1. Len(<<>>) = 0 /\ LINES \in Nat /\ LINES >= 1
    BY CountsAre
  <2>2. DMATransferID' = LINES - Len(memBlock')
    BY <1>1, <1>2, <2>1
  <2>3. Fits(<<>>, <<>>)'
    BY <2>1 DEF Fits
  <2>4. BlockPart'
    BY <1>1, <1>3, <2>2, <2>3 DEF BlockPart, Quiet
  <2> QED BY <1>3, <1>4, <2>4 DEF Expected
<1>7. QED
  BY <1>3, <1>5, <1>6, ResultKept DEF ReadsInv, Goal, Prepared

LEMMA ReadDmaTransfer == ASSUME ReadsInv, ~stray, DmaTransfer PROVE Goal
<1>0. call = [at |-> call.at, kind |-> call.kind, todo |-> call.todo, ok |-> call.ok,
              data |-> call.data]
  BY DEF ReadsInv, RingInv, Types, IsCall
<1>1. /\ call.at = "prepared" /\ call.kind = "store"
      /\ call' = [at |-> "full", kind |-> call.kind, todo |-> Tail(call.todo), ok |-> call.ok,
                  data |-> call.data]
      /\ SendMessage("write", <<Head(call.todo)>>)
      /\ UNCHANGED <<txQueueRead, tx, wire, answers, rx, rxMsgAvail>>
  BY <1>0 DEF DmaTransfer, pio, board
<1>2. ~Expecting /\ Quiet /\ Settled /\ FirstOnly
  BY <1>1 DEF ReadsInv, Expected, Requests, Expecting
<1>3. call'.at = "full" /\ call'.kind = "store" /\ Quiet' /\ ~Expecting'
  BY <1>1, <1>2 DEF Quiet, Expecting
<1>4. Requests'
  BY <1>1, <1>2, RequestsSend DEF ReadsInv
<1>5. QED
  BY <1>3, <1>4, ResultKept DEF ReadsInv, Goal, Prepared, Expected

LEMMA ReadMessageSent == ASSUME ReadsInv, ~stray, MessageSent PROVE Goal
<1>0. call = [at |-> call.at, kind |-> call.kind, todo |-> call.todo, ok |-> call.ok,
              data |-> call.data]
  BY DEF ReadsInv, RingInv, Types, IsCall
<1>1. PICK at : /\ at = (IF call.kind = "store" /\ call.todo # <<>> THEN "prepared" ELSE "wait")
                /\ call' = [call EXCEPT !.at = at]
  BY DEF MessageSent
<1>2. /\ call.at = "full"
      /\ call' = [at |-> at, kind |-> call.kind, todo |-> call.todo, ok |-> call.ok, data |-> call.data]
      /\ UNCHANGED <<txQueue, txQueueRead, txQueueWrite, sent, expect, tx, wire, answers, rx, rxMsg,
                     rxMsgAvail, memBlock, DMAData, DMATransferID>>
  BY <1>0, <1>1 DEF MessageSent, pio, dma, ring, board
<1>3. /\ call'.at = at /\ call'.kind = call.kind /\ call'.todo = call.todo /\ call'.ok = call.ok
      /\ at # "idle" /\ (at = "prepared" => call.kind = "store") /\ (at # "prepared" => at = "wait")
  BY <1>1, <1>2
<1>4. (Expecting' <=> Expecting) /\ (Unanswered' <=> Unanswered)
  BY <1>2, <1>3 DEF Expecting, Unanswered
<1>5. Requests'
  BY <1>2, <1>3, <1>4, RequestsRest DEF ReadsInv
<1>6. Expected'
  BY <1>2, <1>3, <1>4, ExpectedKept DEF ReadsInv
<1>7. QED
  BY <1>3, <1>5, <1>6, ResultKept DEF ReadsInv, Goal, Prepared

-----------------------------------------------------------------------------
\* An access ends.
LEMMA ReadEnds ==
  ASSUME ReadsInv, ~stray, NEW ok \in BOOLEAN, NEW data, PioReturns(ok, data), Settled,
         answers = <<>>, rx.at = "read", Result'
  PROVE  Goal
<1>0. call = [at |-> call.at, kind |-> call.kind, todo |-> call.todo, ok |-> call.ok,
              data |-> call.data]
  BY DEF ReadsInv, RingInv, Types, IsCall
<1>1. /\ call' = [at |-> "idle", kind |-> call.kind, todo |-> call.todo, ok |-> ok, data |-> data]
      /\ UNCHANGED <<txQueue, txQueueRead, txQueueWrite, sent, tx, wire, answers, rx>>
      /\ rxMsgAvail' = FALSE
  BY <1>0 DEF PioReturns, ring, board
<1>2. call'.at = "idle" /\ ~Expecting' /\ Quiet'
  BY <1>1 DEF Expecting, Quiet
<1>3. Requests'
  BY <1>1, RequestsRest DEF ReadsInv
<1>4. QED
  BY <1>2, <1>3 DEF Goal, Prepared, Expected

LEMMA ReadReads == ASSUME ReadsInv, ~stray, ReadReturns PROVE Goal
<1>0. call = [at |-> call.at, kind |-> call.kind, todo |-> call.todo, ok |-> call.ok,
              data |-> call.data]
  BY DEF ReadsInv, RingInv, Types, IsCall
<1>1. PICK ok \in BOOLEAN : ok = (rxMsg # -1) /\ PioReturns(ok, <<rxMsg>>)
  BY DEF ReadReturns
<1>2. /\ call.at = "wait" /\ call.kind = "read" /\ rxMsgAvail
      /\ call' = [at |-> "idle", kind |-> call.kind, todo |-> call.todo, ok |-> ok, data |-> <<rxMsg>>]
      /\ UNCHANGED expect
  BY <1>0, <1>1 DEF ReadReturns, PioReturns, ring
<1>3. Expecting /\ ReadPart
  BY <1>2 DEF ReadsInv, CallInv, Expecting, Expected
<1>4. answers = <<>> /\ rx.at = "read" /\ rxMsg \in {expect[call.todo[1]], -1} /\ ~Unanswered
  BY <1>2, <1>3 DEF ReadPart, Good, Unanswered
<1>5. Settled
  BY <1>4 DEF ReadsInv, Requests
<1>6. Result'
  <2>1. /\ call'.kind = "read" /\ call'.todo = call.todo /\ call'.ok = ok /\ call'.data = <<rxMsg>>
    BY <1>2
  <2>2. ok => rxMsg = expect[call.todo[1]]
    BY <1>1, <1>4
  <2>3. call'.ok => call'.data = <<expect'[call'.todo[1]]>>
    BY <1>2, <2>1, <2>2
  <2> QED BY <2>1, <2>3 DEF Result, Done
<1>7. QED
  BY <1>1, <1>4, <1>5, <1>6, ReadEnds

LEMMA ReadWrites == ASSUME ReadsInv, ~stray, WriteReturns PROVE Goal
<1>0. call = [at |-> call.at, kind |-> call.kind, todo |-> call.todo, ok |-> call.ok,
              data |-> call.data]
  BY DEF ReadsInv, RingInv, Types, IsCall
<1>1. /\ call.kind \in {"post", "write"} /\ PioReturns(TRUE, <<>>)
      /\ call' = [at |-> "idle", kind |-> call.kind, todo |-> call.todo, ok |-> TRUE, data |-> <<>>]
  BY <1>0 DEF WriteReturns, PioReturns
<1>2. ~Expecting /\ Quiet /\ Settled
  BY <1>1 DEF ReadsInv, Expected, Requests, Expecting
<1>3. Result'
  BY <1>1 DEF Result, Done
<1>4. QED
  BY <1>1, <1>2, <1>3, ReadEnds DEF Quiet

LEMMA ReadPioTimesOut == ASSUME ReadsInv, ~stray', PioTimesOut PROVE Goal
<1>0. call = [at |-> call.at, kind |-> call.kind, todo |-> call.todo, ok |-> call.ok,
              data |-> call.data]
  BY DEF ReadsInv, RingInv, Types, IsCall
<1>1. /\ ~stray /\ ~AnswerToCome /\ PioReturns(FALSE, <<>>)
      /\ call' = [at |-> "idle", kind |-> call.kind, todo |-> call.todo, ok |-> FALSE, data |-> <<>>]
  BY <1>0 DEF PioTimesOut, PioReturns
<1>2. Settled /\ answers = <<>> /\ rx.at = "read"
  BY <1>1, NothingToCome DEF ReadsInv
<1>3. Result'
  BY <1>1 DEF Result, Done
<1>4. QED
  BY <1>1, <1>2, <1>3, ReadEnds

LEMMA ReadCompletes == ASSUME ReadsInv, ~stray, DmaComplete PROVE Goal
<1>0. call = [at |-> call.at, kind |-> call.kind, todo |-> call.todo, ok |-> call.ok,
              data |-> call.data]
  BY DEF ReadsInv, RingInv, Types, IsCall
<1>1. /\ call.at = "wait" /\ call.kind \in {"block", "store"}
      /\ call.kind = "block" => DMATransferID = 0
      /\ call' = [at |-> "idle", kind |-> call.kind, todo |-> call.todo, ok |-> call.ok, data |-> memBlock]
      /\ UNCHANGED <<txQueue, txQueueRead, txQueueWrite, sent, expect, tx, wire, answers, rx, rxMsgAvail>>
  BY <1>0 DEF DmaComplete, pio, ring, board
<1>2. call'.at = "idle" /\ call'.kind = call.kind /\ call'.ok = call.ok /\ call'.data = memBlock
      /\ ~Expecting'
  BY <1>1 DEF Expecting
<1>3. Expecting => /\ call.kind = "block" /\ BlockPart /\ DMATransferID = 0
  BY <1>1 DEF ReadsInv, Expecting, Expected
<1>4. ASSUME BlockPart, DMATransferID = 0
      PROVE  /\ Len(memBlock) = LINES /\ memBlock # <<>> /\ Quiet
             /\ \A l \in Lines : memBlock[l] \in {expect[l], -1}
  <2>0. LINES \in Nat /\ LINES >= 1
    BY CountsAre
  <2>1. memBlock \in Seq(Int) /\ answers \in Seq(Answer)
    BY DEF ReadsInv, AnswerTypes
  <2>2. DMATransferID = LINES - Len(memBlock)
    BY <1>4 DEF BlockPart
  <2>3. Len(memBlock) = LINES /\ memBlock # <<>>
    BY <1>4, <2>0, <2>1, <2>2
  <2>4. PICK d \in Int : d = rx.data
    BY DEF ReadsInv, AnswerTypes
  <2>5. ~Fits(Append(memBlock, d), answers)
    <3>1. Len(Append(memBlock, d)) = LINES + 1 /\ Len(answers) \in Nat
      BY <2>1, <2>3
    <3>2. ~(Len(Append(memBlock, d)) + Len(answers) <= LINES)
      BY <2>0, <3>1
    <3> QED BY <3>2 DEF Fits
  <2>6. rx.at = "read" /\ Fits(memBlock, answers) /\ ~rxMsgAvail
    BY <1>4, <2>4, <2>5 DEF BlockPart
  <2>7. Len(answers) = 0 /\ Len(memBlock) + Len(answers) = LINES
    BY <2>0, <2>1, <2>3, <2>6 DEF Fits
  <2>8. answers = <<>>
    BY <2>1, <2>7
  <2>9. \A l \in Lines : memBlock[l] \in {expect[l], -1}
    BY <2>3, <2>6, <2>7 DEF Fits, Good, Lines
  <2> QED BY <2>3, <2>6, <2>8, <2>9 DEF Quiet
<1>5. Settled /\ Quiet
  <2>1. CASE Expecting
    <3>1. ~Unanswered /\ Quiet
      BY <1>3, <1>4, <2>1 DEF Unanswered
    <3> QED BY <3>1 DEF ReadsInv, Requests
  <2>2. CASE ~Expecting
    BY <2>2 DEF ReadsInv, Requests, Expected
  <2> QED BY <2>1, <2>2
<1>6. Requests'
  BY <1>1, <1>5, RequestsRest DEF ReadsInv
<1>7. Expected'
  BY <1>1, <1>2, <1>5 DEF Expected, Quiet
<1>8. Result'
  <2>1. call.kind = "block" /\ call.ok => Expecting
    BY <1>1 DEF Expecting
  <2>2. Done("block")' => /\ Len(memBlock) = LINES
                          /\ \A l \in Lines : memBlock[l] \in {expect[l], -1}
    BY <1>2, <1>3, <1>4, <2>1 DEF Done
  <2>3. ~Done("read")'
    BY <1>1, <1>2 DEF Done
  <2> QED BY <1>1, <1>2, <2>2, <2>3 DEF Result
<1>9. QED
  BY <1>2, <1>6, <1>7, <1>8 DEF Goal, Prepared

LEMMA ReadDmaTimesOut == ASSUME ReadsInv, ~stray', DmaTimesOut PROVE Goal
<1>0. call = [at |-> call.at, kind |-> call.kind, todo |-> call.todo, ok |-> call.ok,
              data |-> call.data]
  BY DEF ReadsInv, RingInv, Types, IsCall
<1>1. /\ call.at = "wait" /\ call.kind = "block" /\ ~stray /\ ~AnswerToCome
      /\ call' = [at |-> "wait", kind |-> call.kind, todo |-> call.todo, ok |-> FALSE, data |-> call.data]
      /\ UNCHANGED <<txQueue, txQueueRead, txQueueWrite, sent, expect, tx, wire, answers, rx, rxMsgAvail>>
  BY <1>0 DEF DmaTimesOut, pio, ring, board
<1>2. Settled /\ answers = <<>> /\ rx.at = "read"
  BY <1>1, NothingToCome DEF ReadsInv
<1>3. ~rxMsgAvail
  BY <1>1 DEF ReadsInv, Expected, Expecting, BlockPart, Quiet
<1>4. call'.at = "wait" /\ ~Expecting' /\ Quiet'
  BY <1>1, <1>2, <1>3 DEF Expecting, Quiet
<1>5. Requests'
  BY <1>1, <1>2, RequestsRest DEF ReadsInv
<1>6. QED
  BY <1>1, <1>4, <1>5, ResultKept DEF ReadsInv, Goal, Prepared, Expected

-----------------------------------------------------------------------------
\* The tx thread, and a write that the board executes.
LEMMA ReadElsewhere ==
  ASSUME ReadsInv, ~stray', TxRun \/ BoardWrites \/ UNCHANGED vars
  PROVE  Goal
<1>1. UNCHANGED <<call, answers, rx, rxMsg, rxMsgAvail, memBlock, DMAData, DMATransferID, expect>>
  BY DEF TxRun, TxLook, TxAdvance, TxWrite, BoardWrites, pio, dma, ring, board, vars
<1>2. ~stray
  BY DEF TxRun, TxLook, TxAdvance, TxWrite, BoardWrites, vars
<1>3. Requests'
  <2>1. CASE UNCHANGED vars
    <3>1. /\ UNCHANGED <<txQueue, txQueueRead, txQueueWrite, sent, tx, wire, call>>
      BY <2>1 DEF vars, ring, board
    <3>2. Expecting /\ Unanswered => Expecting' /\ Unanswered'
      BY <1>1, <3>1 DEF Expecting, Unanswered
    <3> QED BY <1>2, <3>1, <3>2, RequestsRest DEF ReadsInv
  <2>2. CASE TxLook
    BY <1>2, <2>2, RequestsLook DEF ReadsInv
  <2>3. CASE TxAdvance
    BY <1>2, <2>3, RequestsAdvance DEF ReadsInv
  <2>4. ASSUME NEW n \in 1 .. QSIZE, TxWrite(n) PROVE Requests'
    BY <1>2, <2>4, RequestsHanded DEF ReadsInv
  <2>5. CASE BoardWrites
    BY <1>2, <2>5, RequestsBoard DEF ReadsInv, Board
  <2> QED BY <2>1, <2>2, <2>3, <2>4, <2>5 DEF TxRun
<1>4. Expected'
  <2>1. Expecting' <=> Expecting
    BY <1>1 DEF Expecting
  <2> QED BY <1>1, <1>2, <2>1, ExpectedKept DEF ReadsInv
<1>5. Prepared' /\ Result'
  BY <1>1, <1>2, ResultKept DEF ReadsInv, Prepared
<1>6. QED
  BY <1>3, <1>4, <1>5 DEF Goal

\* The board answers: everything that was written has been stored.
LEMMA ReadAnswered == ASSUME ReadsInv, ~stray, BoardAnswers PROVE Goal
<1>1. /\ UNCHANGED <<call, rx, rxMsg, rxMsgAvail, memBlock, DMAData, DMATransferID, expect>>
      /\ wire # <<>>
  BY DEF BoardAnswers, pio, dma, ring
<1>2. /\ FirstOnly' /\ Settled' /\ Expecting /\ Unanswered
      /\ Len(wire) = 1 /\ Upto = sent /\ Asked(wire[1])
  BY RequestsBoard DEF ReadsInv, Board
<1>3. PICK x : answers' = answers \o x /\ Reply(x, wire[1])
  BY BoardReplies DEF ReadsInv
<1>4. answers' = x /\ x \in Seq(Answer)
  BY <1>2, <1>3 DEF Unanswered, Reply
<1>5. PICK m : m = wire[1] /\ ~Writes(m, 1) /\ m.op = "read"
  BY <1>1, TailMessages DEF ReadsInv, BoardAnswers, Writes
<1>6. ASSUME NEW l \in Lines PROVE mem[l] = expect[l]
  <2>1. LineInv(l) /\ expect[l] \in Nat /\ sent \in Nat
    BY Numbers DEF ReadsInv, MemInv
  <2>2. ~(expect[l] > Upto)
    <3>1. expect[l] <= sent
      BY <2>1 DEF LineInv
    <3> QED BY <1>2, <2>1, <3>1
  <2>3. Stored(wire, l, mem[l], expect[l])
    BY <2>1, <2>2 DEF LineInv
  <2>4. \A i \in 1 .. Len(wire) : ~Writes(wire[i], l)
    <3>1. \A i \in 1 .. Len(wire) : i = 1
      BY <1>2
    <3> QED BY <1>5, <3>1 DEF Writes
  <2> QED BY <2>3, <2>4 DEF Stored, LastWrite
<1>7. Requests'
  BY <1>2 DEF Requests
<1>8. m.lines = IF call.kind = "read" THEN call.todo ELSE All
  BY <1>2, <1>5 DEF Asked
<1>9. Reply(x, m) /\ (Expecting' <=> Expecting)
  BY <1>1, <1>3, <1>5 DEF Expecting
<1>10. Expected'
  <2>1. CASE call.kind = "read"
    <3>1. PICK l \in Lines : call.todo = <<l>>
      BY <2>1 DEF ReadsInv, CallInv
    <3>2. m.lines = <<l>> /\ Len(m.lines) = 1 /\ m.lines[1] = l /\ call.todo[1] = l
      BY <1>8, <2>1, <3>1
    <3>3. Len(x) \in Nat /\ Len(x) <= 1
      BY <1>4, <1>9, <3>2 DEF Reply
    <3>4. CASE Len(x) = 0
      <4>1. answers' = <<>>
        BY <1>4, <3>4
      <4>2. Unanswered'
        BY <1>1, <1>2, <2>1, <4>1 DEF Unanswered
      <4> QED BY <1>1, <1>2, <1>9, <2>1, <4>2 DEF Expected, ReadPart
    <3>5. CASE Len(x) = 1
      <4>1. x[1].data \in {mem[l], -1}
        <5>1. 1 \in 1 .. Len(x)
          BY <3>5
        <5> QED BY <1>9, <3>2, <3>5, <5>1 DEF Reply
      <4>2. Len(answers') = 1 /\ Good(l, answers[1].data)'
        BY <1>1, <1>4, <1>6, <3>5, <4>1 DEF Good
      <4>3. Good(call.todo[1], answers[1].data)' /\ rx'.at = "read" /\ ~rxMsgAvail'
        BY <1>1, <1>2, <3>2, <4>2 DEF Good, Unanswered
      <4>4. ReadPart'
        BY <4>2, <4>3 DEF ReadPart
      <4> QED BY <1>1, <1>2, <1>9, <2>1, <4>4 DEF Expected
    <3>6. Len(x) = 0 \/ Len(x) = 1
      BY <3>3
    <3> QED BY <3>4, <3>5, <3>6
  <2>2. CASE call.kind # "read"
    <3>1. /\ call.kind = "block" /\ BlockPart /\ memBlock = <<>> /\ rx.at = "read" /\ m.lines = All
      BY <1>2, <1>8, <2>2 DEF ReadsInv, Expected, Expecting, Unanswered
    <3>2. Len(x) \in Nat /\ Len(x) <= LINES /\ Len(<<>>) = 0 /\ LINES \in Nat
      BY <1>4, <1>9, <3>1, CountsAre DEF Reply
    <3>3. ASSUME Len(x) = LINES PROVE \A i \in 1 .. Len(x) : x[i].data \in {expect[i], -1}
      <4>1. \A i \in 1 .. Len(x) : x[i].data \in {mem[All[i]], -1}
        BY <1>9, <3>1, <3>3, CountsAre DEF Reply
      <4>2. \A i \in 1 .. Len(x) : i \in Lines /\ All[i] = i
        BY <3>3, CountsAre DEF Lines
      <4> QED BY <1>6, <4>1, <4>2
    <3>4. Fits(<<>>, x)
      <4>1. Len(<<>>) + Len(x) = Len(x)
        BY <3>2
      <4>2. \A i \in 1 .. Len(x) : Len(<<>>) + i = i
        BY <3>2
      <4>3. Len(x) = LINES => /\ \A i \in 1 .. Len(<<>>) : Good(i, <<>>[i])
                              /\ \A i \in 1 .. Len(x) : Good(Len(<<>>) + i, x[i].data)
        <5>1. \A i \in 1 .. Len(<<>>) : FALSE
          BY <3>2
        <5>2. Len(x) = LINES => \A i \in 1 .. Len(x) : Good(i, x[i].data)
          BY <3>3 DEF Good
        <5> QED BY <4>2, <5>1, <5>2
      <4> QED BY <3>2, <4>1, <4>3 DEF Fits
    <3>5. Fits(memBlock, answers)'
      BY <1>1, <1>4, <3>1, <3>4 DEF Fits, Good
    <3>6. BlockPart'
      BY <1>1, <3>1, <3>5 DEF BlockPart
    <3> QED BY <1>1, <1>2, <1>9, <2>2, <3>6 DEF Expected
  <2> QED BY <2>1, <2>2
<1>11. Prepared' /\ Result'
  BY <1>1, ResultKept DEF ReadsInv, Prepared
<1>12. QED
  BY <1>7, <1>10, <1>11 DEF Goal

-----------------------------------------------------------------------------
\* The rx thread.  It has something to do only if the request has been answered.
LEMMA ReadReceive ==
  ASSUME ReadsInv, ~stray, ~Unanswered, Receive
  PROVE  Requests' /\ Prepared' /\ Result' /\ (Expecting' <=> Expecting)
<1>1. UNCHANGED <<txQueue, txQueueRead, txQueueWrite, sent, expect, tx, wire, call>>
  BY DEF Receive, RxMatch, RxPio, DmaReceive, ring, board
<1>2. Settled
  BY DEF ReadsInv, Requests
<1>3. Requests'
  BY <1>1, <1>2, RequestsRest DEF ReadsInv
<1>4. Result' /\ (Expecting' <=> Expecting)
  BY <1>1, ResultKept DEF ReadsInv, Expecting
<1>5. Prepared'
  <2>1. CASE call.at = "prepared"
    <3>1. Quiet
      BY <2>1 DEF ReadsInv, Expected, Expecting
    <3> QED BY <3>1 DEF Quiet, Receive, RxMatch, RxPio, DmaReceive
  <2>2. CASE call.at # "prepared"
    BY <1>1, <2>2 DEF Prepared
  <2> QED BY <2>1, <2>2
<1>6. QED
  BY <1>3, <1>4, <1>5

LEMMA ReadMatch == ASSUME ReadsInv, ~stray, RxMatch PROVE Goal
<1>1. /\ rx.at = "read" /\ answers # <<>> /\ answers' = Tail(answers)
      /\ DMATransferInProgress => rx' = [at |-> "dma", data |-> Head(answers).data]
      /\ ~DMATransferInProgress => \/ rx' = [at |-> "pio", data |-> Head(answers).data]
                                   \/ rx' = [at |-> "read", data |-> 0]
      /\ UNCHANGED <<call, rxMsgAvail, rxMsg, memBlock, DMAData, DMATransferID, expect>>
  BY DEF RxMatch, Reading, pio, dma, ring
<1>2. ~Unanswered /\ ~Quiet
  BY <1>1 DEF Unanswered, Quiet
<1>3. Requests' /\ Prepared' /\ Result' /\ (Expecting' <=> Expecting)
  BY <1>2, ReadReceive DEF Receive
<1>4. Expecting /\ DMATransferInProgress = (call.kind # "read")
  BY <1>2 DEF ReadsInv, Expected, CallInv, Expecting
<1>5. answers \in Seq(Answer) /\ memBlock \in Seq(Int)
  BY DEF ReadsInv, AnswerTypes
<1>6. Expected'
  <2>1. CASE call.kind = "read"
    <3>1. ReadPart
      BY <1>4, <2>1 DEF ReadsInv, Expected
    <3>2. Len(answers) = 1 /\ Good(call.todo[1], answers[1].data) /\ ~rxMsgAvail
      BY <1>1, <1>2, <3>1 DEF ReadPart
    <3>3. answers' = <<>> /\ Head(answers) = answers[1]
      BY <1>1, <1>5, <3>2
    <3>4. CASE rx' = [at |-> "pio", data |-> Head(answers).data]
      <4>1. rx'.at = "pio" /\ rx'.data = answers[1].data
        BY <3>3, <3>4
      <4>2. ReadPart'
        BY <1>1, <3>2, <3>3, <4>1 DEF ReadPart, Good
      <4> QED BY <1>1, <1>3, <1>4, <2>1, <4>2 DEF Expected
    <3>5. CASE rx' = [at |-> "read", data |-> 0]
      <4>1. ReadPart'
        BY <1>1, <2>1, <3>2, <3>3, <3>5 DEF ReadPart, Unanswered
      <4> QED BY <1>1, <1>3, <1>4, <2>1, <4>1 DEF Expected
    <3> QED BY <1>1, <1>4, <2>1, <3>4, <3>5
  <2>2. CASE call.kind # "read"
    <3>1. BlockPart /\ rx' = [at |-> "dma", data |-> Head(answers).data]
      BY <1>1, <1>4, <2>2 DEF ReadsInv, Expected
    <3>2. Fits(memBlock, answers)
      BY <1>1, <3>1 DEF BlockPart
    <3>3. Fits(Append(memBlock, Head(answers).data), Tail(answers))
      BY <1>1, <1>5, <3>2, FitsMoves
    <3>4. rx'.at = "dma" /\ Fits(Append(memBlock, rx.data), answers)'
      BY <1>1, <3>1, <3>3 DEF Fits, Good
    <3>5. BlockPart'
      BY <1>1, <3>1, <3>4 DEF BlockPart
    <3> QED BY <1>1, <1>3, <1>4, <2>2, <3>5 DEF Expected
  <2> QED BY <2>1, <2>2
<1>7. QED
  BY <1>3, <1>6 DEF Goal

LEMMA ReadPio == ASSUME ReadsInv, ~stray, RxPio PROVE Goal
<1>1. /\ rx.at = "pio" /\ rx' = [at |-> "read", data |-> 0]
      /\ rxMsg' = rx.data /\ rxMsgAvail' = TRUE
      /\ UNCHANGED <<call, answers, memBlock, DMAData, DMATransferID, expect>>
  BY DEF RxPio, Reading, dma, ring, board
<1>2. ~Unanswered /\ ~Quiet /\ ~BlockPart
  BY <1>1 DEF Unanswered, Quiet, BlockPart
<1>3. Requests' /\ Prepared' /\ Result' /\ (Expecting' <=> Expecting)
  BY <1>2, ReadReceive DEF Receive
<1>4. Expecting /\ call.kind = "read" /\ ReadPart
  BY <1>2 DEF ReadsInv, Expected
<1>5. answers = <<>> /\ Good(call.todo[1], rx.data)
  BY <1>1, <1>2, <1>4 DEF ReadPart
<1>6. ReadPart'
  BY <1>1, <1>5 DEF ReadPart, Good
<1>7. Expected'
  BY <1>1, <1>3, <1>4, <1>6 DEF Expected
<1>8. QED
  BY <1>3, <1>7 DEF Goal

LEMMA ReadDmaReceive == ASSUME ReadsInv, ~stray, DmaReceive PROVE Goal
<1>1. rx.at = "dma" /\ rx' = [at |-> "read", data |-> 0]
      /\ UNCHANGED <<call, answers, rxMsgAvail, DMAData, expect>>
  BY DEF DmaReceive, Reading, pio, ring, board
<1>2. ~Unanswered /\ ~Quiet /\ ~ReadPart
  BY <1>1 DEF Unanswered, Quiet, ReadPart
<1>3. Requests' /\ Prepared' /\ Result' /\ (Expecting' <=> Expecting)
  BY <1>2, ReadReceive DEF Receive
<1>4. Expecting /\ call.kind # "read" /\ BlockPart
  BY <1>2 DEF ReadsInv, Expected
<1>5. PICK d \in Int : d = rx.data
  BY DEF ReadsInv, AnswerTypes
<1>6. /\ DMAData = "memBlock" /\ ~rxMsgAvail /\ DMATransferID = LINES - Len(memBlock)
      /\ Fits(Append(memBlock, d), answers)
  BY <1>1, <1>4, <1>5 DEF BlockPart
<1>7. memBlock' = Append(memBlock, d) /\ DMATransferID' = DMATransferID - 1
  BY <1>5, <1>6 DEF DmaReceive
<1>8. DMATransferID' = LINES - Len(memBlock')
  <2>1. memBlock \in Seq(Int) /\ LINES \in Nat
    BY CountsAre DEF ReadsInv, AnswerTypes
  <2>2. Len(Append(memBlock, d)) = Len(memBlock) + 1 /\ Len(memBlock) \in Nat
    BY <2>1
  <2> QED BY <1>6, <1>7, <2>1, <2>2
<1>9. Fits(memBlock, answers)'
  BY <1>1, <1>6, <1>7 DEF Fits, Good
<1>10. BlockPart'
  BY <1>1, <1>6, <1>8, <1>9 DEF BlockPart
<1>11. Expected'
  BY <1>1, <1>3, <1>4, <1>10 DEF Expected
<1>12. QED
  BY <1>3, <1>11 DEF Goal

-----------------------------------------------------------------------------
LEMMA ReadsStep == ASSUME ReadsInv, [Next]_vars PROVE ReadsInv'
<1>1. RingInv' /\ CallInv' /\ MemInv' /\ AnswerTypes'
  BY StepKeeps, CallInvStep, MemStep, AnswersStep DEF ReadsInv
<1>2. ASSUME ~stray' PROVE Goal
  <2>1. CASE PioTimesOut
    BY <1>2, <2>1, ReadPioTimesOut
  <2>2. CASE DmaTimesOut
    BY <1>2, <2>2, ReadDmaTimesOut
  <2>3. CASE TxRun \/ BoardWrites \/ UNCHANGED vars
    BY <1>2, <2>3, ReadElsewhere
  <2>4. ASSUME NEW kind \in {"read", "write", "post"}, NEW line \in Lines, TransferPacket(kind, line)
        PROVE  Goal
    BY <1>2, <2>4, ReadTransfer DEF TransferPacket
  <2>5. ASSUME NEW kind \in {"block", "store"}, DmaPrepare(kind) PROVE Goal
    BY <1>2, <2>5, ReadPrepare DEF DmaPrepare
  <2>6. CASE SendBlock
    BY <1>2, <2>6, ReadSendBlock DEF SendBlock
  <2>7. CASE DmaTransfer
    BY <1>2, <2>7, ReadDmaTransfer DEF DmaTransfer
  <2>8. CASE MessageSent
    BY <1>2, <2>8, ReadMessageSent DEF MessageSent
  <2>9. CASE ReadReturns
    BY <1>2, <2>9, ReadReads DEF ReadReturns
  <2>10. CASE WriteReturns
    BY <1>2, <2>10, ReadWrites DEF WriteReturns
  <2>11. CASE DmaComplete
    BY <1>2, <2>11, ReadCompletes DEF DmaComplete
  <2>12. CASE BoardAnswers
    BY <1>2, <2>12, ReadAnswered DEF BoardAnswers
  <2>13. CASE RxMatch
    BY <1>2, <2>13, ReadMatch DEF RxMatch
  <2>14. CASE RxPio
    BY <1>2, <2>14, ReadPio DEF RxPio
  <2>15. CASE DmaReceive
    BY <1>2, <2>15, ReadDmaReceive DEF DmaReceive
  <2> QED
    BY <2>1, <2>2, <2>3, <2>4, <2>5, <2>6, <2>7, <2>8, <2>9, <2>10, <2>11, <2>12, <2>13, <2>14,
       <2>15 DEF Next, Program, Returns, Board, Receive
<1>3. QED
  BY <1>1, <1>2 DEF ReadsInv, Goal

(***************************************************************************)
(* A read (transferPacket) and a read32 that succeed return the last       *)
(* values written before, in whatever pieces the tx thread hands over the  *)
(* messages and whichever answers fail to come or are ABORT_MESH, as long  *)
(* as no answer may come that no access waits for.                         *)
(***************************************************************************)
THEOREM LastWriteRead == Spec => []ReadsLastWrite
<1>1. ReadsInv /\ [Next]_vars => ReadsInv'
  BY ReadsStep
<1>2. ReadsInv => ReadsLastWrite
  BY DEF ReadsInv, Result, ReadsLastWrite
<1>3. QED
  BY ReadsInitially, <1>1, <1>2, PTL DEF Spec
=============================================================================
