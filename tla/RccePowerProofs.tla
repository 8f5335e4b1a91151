-------------------------- MODULE RccePowerProofs --------------------------
(***************************************************************************)
(* Theorems about RCCE_power_management.c: about RccePower, for any table  *)
(* that satisfies PowerAssumption and any number of request variables; and *)
(* about RcceRpcQueue, for any set of cores that has no more members than  *)
(* the queue has slots, and any number of calls.                           *)
(***************************************************************************)
EXTENDS RccePower, RcceRpcQueue, FiniteSetTheorems, TLAPS

\* Type correctness needs no assumption on what the program does.
THEOREM PowerTypeCorrect == PowerSpec => []PowerTypeOK
  <1> USE PowerAssumption
  <1>1. PowerInit => PowerTypeOK
    <2>1. Unused \in Contents
      BY DEF Unused, Contents
    <2> QED BY <2>1 DEF PowerInit, PowerTypeOK
  <1>2. PowerTypeOK /\ [PowerNext]_powerVars => PowerTypeOK'
    <2> SUFFICES ASSUME PowerTypeOK, [PowerNext]_powerVars
                 PROVE  PowerTypeOK'
      OBVIOUS
    <2>1. ASSUME NEW f \in Divider, SetFrequencyDivider(f)
          PROVE  PowerTypeOK'
      BY <2>1 DEF SetFrequencyDivider, Divided, PowerTypeOK, software
    <2>2. ASSUME NEW r \in Request, NEW f \in Divider, IsetPower(r, f)
          PROVE  PowerTypeOK'
      BY <2>2 DEF IsetPower, Divided, PowerTypeOK, Contents
    <2>3. ASSUME NEW r \in Request, WaitPower(r)
          PROVE  PowerTypeOK'
      BY <2>3 DEF WaitPower, PowerTypeOK, hardware
    <2>4. CASE SetVoltage
      BY <2>4 DEF SetVoltage, PowerTypeOK, Contents, software
    <2>5. CASE Reissue
      BY <2>5 DEF Reissue, PowerTypeOK, Contents, software
    <2>6. CASE WaitPowerReturn
      BY <2>6 DEF WaitPowerReturn, Divided, PowerTypeOK, Contents
    <2>7. CASE VoltageReached
      BY <2>7 DEF VoltageReached, PowerTypeOK, software
    <2>8. CASE Restart
      BY <2>8 DEF Restart, PowerTypeOK, Contents, Unused, hardware
    <2>9. CASE UNCHANGED powerVars
      BY <2>9 DEF powerVars, hardware, software, PowerTypeOK
    <2> QED BY <2>1, <2>2, <2>3, <2>4, <2>5, <2>6, <2>7, <2>8, <2>9 DEF PowerNext
  <1> QED BY <1>1, <1>2, PTL DEF PowerSpec

\* A program that waits for what it has requested, and is started again only
\* in the default state of the hardware.
Careful == "stale" \notin Uses /\ "restart" \notin Uses

LEMMA PowerInitially == PowerInit => PowerInv
  BY PowerAssumption DEF PowerInit, PowerInv, InFlight, RestInv, Unused

LEMMA PowerStep ==
  ASSUME Careful, PowerTypeOK, PowerInv, [PowerNext]_powerVars
  PROVE  PowerInv'
  <1> USE PowerAssumption
  <1>1. ASSUME NEW f \in Divider, SetFrequencyDivider(f)
        PROVE  PowerInv'
    BY <1>1 DEF SetFrequencyDivider, Divided, PowerTypeOK, software, PowerInv, InFlight,
       RestInv, FlightInv
  <1>2. ASSUME NEW r \in Request, NEW f \in Divider, IsetPower(r, f)
        PROVE  PowerInv'
    <2>1. RestInv /\ ~active
      BY <1>2 DEF IsetPower, PowerInv, InFlight, FlightInv
    <2>2. /\ req'[r].state = "open" /\ req'[r].newV = VoltageLevel[f]
          /\ req'[r].newF = f /\ req'[r].oldF = fdiv
          /\ \A s \in Request \ {r} : req'[s].state # "open"
      BY <1>2, <2>1 DEF IsetPower, RestInv, PowerTypeOK
    <2>3. CASE f >= fdiv
      <3>1. VoltageLevel[f] <= VoltageLevel[fdiv]
        BY <2>3 DEF PowerTypeOK
      <3>2. VoltageLevel[f] <= level
        <4>1. VoltageLevel[f] \in Int /\ VoltageLevel[fdiv] \in Int /\ level \in Int
          BY DEF PowerTypeOK
        <4> QED BY <2>1, <3>1, <4>1 DEF RestInv
      <3>3. divider' = f /\ fdiv' = f
        BY <1>2, <2>3, <3>2 DEF IsetPower, Divided
      <3> QED BY <1>2, <2>1, <2>2, <3>2, <3>3 DEF IsetPower, PowerInv, InFlight, RestInv,
              FlightInv, PowerTypeOK
    <2>4. CASE ~(f >= fdiv)
      <3>1. level <= VoltageLevel[f]
        BY <2>1, <2>4 DEF RestInv, PowerTypeOK
      <3>2. VoltageLevel[divider] <= VoltageLevel[f]
        <4>1. VoltageLevel[f] \in Int /\ VoltageLevel[divider] \in Int /\ level \in Int
          BY DEF PowerTypeOK
        <4> QED BY <2>1, <3>1, <4>1 DEF RestInv
      <3>3. divider' = divider /\ fdiv' = fdiv
        BY <1>2, <2>4 DEF IsetPower
      <3> QED BY <1>2, <2>1, <2>2, <2>4, <3>2, <3>3 DEF IsetPower, PowerInv, InFlight,
              RestInv, FlightInv, PowerTypeOK
    <2> QED BY <2>3, <2>4
  <1>3. ASSUME NEW r \in Request, WaitPower(r)
        PROVE  PowerInv'
    <2>1. FlightInv /\ req[r].state = "open"
      BY <1>3 DEF WaitPower, WaitedFor, Careful, PowerInv, InFlight
    <2>2. r = cur
      BY <2>1 DEF FlightInv
    <2> QED BY <1>3, <2>1, <2>2 DEF WaitPower, PowerInv, InFlight, FlightInv, hardware
  <1>4. CASE SetVoltage
    BY <1>4 DEF SetVoltage, PowerInv, InFlight, RestInv, FlightInv, software, PowerTypeOK
  <1>5. CASE Reissue
    BY <1>5 DEF Reissue, PowerInv, InFlight, RestInv, FlightInv, software, PowerTypeOK
  <1>6. CASE WaitPowerReturn
    <2> DEFINE q == req[cur]
    <2>1. FlightInv /\ volt = target /\ target = q.newV /\ q \in Contents /\ ~active
      BY <1>6 DEF WaitPowerReturn, PowerInv, InFlight, FlightInv, RestInv, PowerTypeOK
    <2>2. \A s \in Request : req'[s].state # "open"
      BY <1>6, <2>1 DEF WaitPowerReturn, FlightInv, PowerTypeOK, Contents
    <2>3. level' = q.newV /\ volt' = q.newV /\ target' = q.newV
      BY <1>6, <2>1 DEF WaitPowerReturn
    <2>4. divider' = q.newF /\ fdiv' = q.newF
      BY <1>6, <2>1 DEF WaitPowerReturn, Divided, FlightInv, Contents
    <2>5. q.newV = VoltageLevel[q.newF] /\ q.newF \in Divider
      BY <2>1 DEF FlightInv, Contents
    <2>6. \A f \in Divider : f < q.newF => VoltageLevel[q.newF] <= VoltageLevel[f]
      <3>1. \A f, g \in Divider : f < g => f <= g
        OBVIOUS
      <3>2. \A f, g \in Divider : f < g => VoltageLevel[g] <= VoltageLevel[f]
        BY <3>1
      <3> QED BY <2>5, <3>2
    <2> QED BY <1>6, <2>1, <2>2, <2>3, <2>4, <2>5, <2>6 DEF WaitPowerReturn, PowerInv,
            InFlight, RestInv
  <1>7. CASE VoltageReached
    BY <1>7 DEF VoltageReached, PowerInv, InFlight, RestInv, FlightInv, software, PowerTypeOK
  <1>8. CASE Restart
    BY <1>8 DEF Restart, Careful, Default, Unused, PowerInv, InFlight, RestInv, hardware
  <1>9. CASE UNCHANGED powerVars
    BY <1>9 DEF powerVars, hardware, software, PowerInv, InFlight, RestInv, FlightInv
  <1> QED BY <1>1, <1>2, <1>3, <1>4, <1>5, <1>6, <1>7, <1>8, <1>9 DEF PowerNext

\* The inductive invariant of iset_power and wait_power.
THEOREM PowerInvariant == ASSUME Careful
                          PROVE  PowerSpec => []PowerInv
  <1>1. PowerTypeOK /\ PowerInv /\ [PowerNext]_powerVars => PowerInv'
    BY PowerStep
  <1> QED BY <1>1, PowerInitially, PowerTypeCorrect, PTL DEF PowerSpec

\* The tiles never run faster than the voltage allows, neither at rest nor
\* while the voltage rises or falls.
THEOREM PowerSafe == ASSUME Careful
                     PROVE  PowerSpec => []FrequencySupported
  <1>1. PowerTypeOK /\ PowerInv => FrequencySupported
    BY PowerAssumption DEF PowerTypeOK, PowerInv, InFlight, RestInv, FlightInv, FrequencySupported
  <1> QED BY <1>1, PowerInvariant, PowerTypeCorrect, PTL

\* iset_power never finds the regulator busy with its own domain.
THEOREM OneAtATime == ASSUME Careful
                      PROVE  PowerSpec => []OneChangeAtATime
  <1>1. PowerInv => OneChangeAtATime
    BY DEF PowerInv, InFlight, RestInv, FlightInv, OneChangeAtATime
  <1> QED BY <1>1, PowerInvariant, PTL

\* A request that wait_power releases has been carried out.
THEOREM RequestsAreHonoured == ASSUME Careful
                               PROVE  PowerSpec => RequestHonoured
  <1> DEFINE Kept == \A r \in Request :
               req[r].state = "open" /\ req'[r].state = "released" =>
                  divider' = req[r].newF /\ volt' = req[r].newV
  <1>1. ASSUME PowerTypeOK, PowerInv, [PowerNext]_powerVars
        PROVE  Kept
    <2> SUFFICES ASSUME NEW r \in Request, req[r].state = "open", req'[r].state = "released"
                 PROVE  divider' = req[r].newF /\ volt' = req[r].newV
      OBVIOUS
    <2>1. CASE WaitPowerReturn
      BY <1>1, <2>1, PowerAssumption DEF WaitPowerReturn, Divided, PowerInv, InFlight,
         RestInv, FlightInv, PowerTypeOK, Contents
    <2>2. CASE \E s \in Request, f \in Divider : IsetPower(s, f)
      BY <1>1, <2>2 DEF IsetPower, PowerTypeOK
    <2>3. CASE Restart
      BY <2>3 DEF Restart, Unused
    <2> QED BY <1>1, <2>1, <2>2, <2>3 DEF PowerNext, SetFrequencyDivider, WaitPower, SetVoltage,
            Reissue, VoltageReached, powerVars, software
  <1>2. PowerTypeOK /\ PowerInv /\ [PowerNext]_powerVars => [Kept]_powerVars
    BY <1>1
  <1> QED BY <1>2, PowerInvariant, PowerTypeCorrect, PTL DEF PowerSpec, RequestHonoured

-----------------------------------------------------------------------------
(***************************************************************************)
(* The queue of voltage requests.                                          *)
(***************************************************************************)
\* The array q holds the sequence w from slot h on: its first core negative, the
\* slots behind the last one free.
Place(h, i) == (h + i) % SLOTS
Entry(w, i) == IF i >= Len(w) THEN 0 ELSE IF i = 0 THEN -(w[1] + 1) ELSE w[i + 1] + 1
Layout(q, h, w) == \A i \in Slot : q[Place(h, i)] = Entry(w, i)

\* A core in one of these states holds the lock,
Inside == {"locked", "adding", "added", "confirm", "checked", "removing", "removed"}
\* and in one of these it is in the queue.
Queued == {"added", "spin", "looked", "confirm", "checked", "removing"}

Members(w) == /\ \A i, j \in 1 .. Len(w) : w[i] = w[j] => i = j
              /\ \A c \in Core : pc[c] \in Queued <=> \E i \in 1 .. Len(w) : w[i] = c

Types ==
  /\ queue \in [Slot -> Int] /\ late \in BOOLEAN /\ writing \in BOOLEAN
  /\ pc \in [Core -> {"idle"} \cup Inside \cup Queued]
  /\ calls \in [Core -> 0 .. MaxCalls]

LockHeld ==
  /\ lock = {} \/ \E c \in Core : lock = {c}
  /\ \A c \in Core : pc[c] \in Inside <=> lock = {c}

QueueHeld == \E h \in Slot, w \in Seq(Core) : Layout(queue, h, w) /\ Members(w)

\* What a core has found with the lock stays as it is until it gives it back.
HeadFound == \A c \in Core : pc[c] = "removing" => late /\ \E s \in Slot : queue[s] = -(c + 1)

QueueInv == Types /\ LockHeld /\ QueueHeld /\ HeadFound

-----------------------------------------------------------------------------
(***************************************************************************)
(* The circular array.                                                     *)
(***************************************************************************)
LEMMA Around ==
  ASSUME NEW h \in Slot, NEW i \in Nat, i <= SLOTS
  PROVE  Place(h, i) = IF h + i < SLOTS THEN h + i ELSE h + i - SLOTS
<1>1. SLOTS \in Nat /\ SLOTS > 0 /\ h \in Nat /\ h < SLOTS
  BY RpcQueueAssumption DEF Slot
<1>2. CASE h + i < SLOTS
  BY <1>1, <1>2 DEF Place
<1>3. CASE h + i >= SLOTS
  <2>1. h + i - SLOTS \in 0 .. SLOTS - 1
    BY <1>1, <1>3
  <2>2. (h + i) % SLOTS = h + i - SLOTS
    BY <1>1, <1>3, <2>1
  <2> QED BY <1>1, <1>3, <2>2 DEF Place
<1>4. QED
  BY <1>1, <1>2, <1>3

\* Every slot is at one distance from h.
LEMMA Everywhere ==
  ASSUME NEW h \in Slot
  PROVE  /\ \A i \in Slot : Place(h, i) \in Slot
         /\ \A s \in Slot : \E i \in Slot : s = Place(h, i)
         /\ \A i, j \in Slot : Place(h, i) = Place(h, j) => i = j
<1>1. SLOTS \in Nat /\ SLOTS > 0 /\ h \in Nat /\ h < SLOTS
  BY RpcQueueAssumption DEF Slot
<1>2. \A i \in Slot : i \in Nat /\ i < SLOTS
                      /\ Place(h, i) = IF h + i < SLOTS THEN h + i ELSE h + i - SLOTS
  BY <1>1, Around DEF Slot
<1>3. \A i \in Slot : Place(h, i) \in Slot
  BY <1>1, <1>2 DEF Slot
<1>4. \A i, j \in Slot : Place(h, i) = Place(h, j) => i = j
  BY <1>1, <1>2
<1>5. ASSUME NEW s \in Slot PROVE \E i \in Slot : s = Place(h, i)
  <2> DEFINE i == IF s >= h THEN s - h ELSE s - h + SLOTS
  <2>1. i \in Slot /\ s = (IF h + i < SLOTS THEN h + i ELSE h + i - SLOTS)
    BY <1>1 DEF Slot
  <2> QED BY <2>1, <1>2
<1>6. QED
  BY <1>3, <1>4, <1>5
LEMMA Begins == ASSUME NEW h \in Slot PROVE Place(h, 0) = h
<1>1. SLOTS \in Nat /\ h \in Nat /\ h < SLOTS
  BY RpcQueueAssumption DEF Slot
<1>2. QED
  BY <1>1, Around

LEMMA MovesOn ==
  ASSUME NEW h \in Slot, NEW i \in Slot
  PROVE  /\ Place(h, 1) \in Slot
         /\ i + 1 < SLOTS => i + 1 \in Slot /\ Place(Place(h, 1), i) = Place(h, i + 1)
         /\ i + 1 = SLOTS => Place(Place(h, 1), i) = h
<1>1. SLOTS \in Nat /\ SLOTS > 0 /\ h \in Nat /\ h < SLOTS /\ i \in Nat /\ i < SLOTS
  BY RpcQueueAssumption DEF Slot
<1>2. Place(h, 1) = IF h + 1 < SLOTS THEN h + 1 ELSE h + 1 - SLOTS
  BY <1>1, Around
<1>3. Place(h, 1) \in Slot
  BY <1>1, <1>2 DEF Slot
<1>4. Place(h, i + 1) = IF h + (i + 1) < SLOTS THEN h + (i + 1) ELSE h + (i + 1) - SLOTS
  BY <1>1, Around
<1>5. Place(Place(h, 1), i) =
        IF Place(h, 1) + i < SLOTS THEN Place(h, 1) + i ELSE Place(h, 1) + i - SLOTS
  BY <1>1, <1>3, Around
<1>6. QED
  BY <1>1, <1>2, <1>3, <1>4, <1>5 DEF Slot

LEMMA CoresAreNat ==
  ASSUME NEW w \in Seq(Core)
  PROVE  \A k \in 1 .. Len(w) : w[k] \in Core /\ w[k] \in Nat
<1>1. \A k \in 1 .. Len(w) : w[k] \in Core
  OBVIOUS
<1>2. Core \subseteq Nat
  BY RpcQueueAssumption
<1>3. QED
  BY <1>1, <1>2

LEMMA Entries ==
  ASSUME NEW w \in Seq(Core), NEW i \in Slot
  PROVE  /\ Entry(w, i) \in Int
         /\ Entry(w, i) = 0 <=> i >= Len(w)
         /\ Entry(w, i) < 0 <=> i = 0 /\ w # <<>>
<1>1. i \in Nat /\ Core \subseteq Nat
  BY RpcQueueAssumption DEF Slot
<1>2. Len(w) \in Nat /\ (w = <<>> <=> Len(w) = 0)
  OBVIOUS
<1>3. \A k \in 1 .. Len(w) : w[k] \in Nat
  BY CoresAreNat
<1>4. i < Len(w) => i + 1 \in 1 .. Len(w) /\ 1 \in 1 .. Len(w)
  BY <1>1, <1>2
<1>5. QED
  BY <1>1, <1>2, <1>3, <1>4 DEF Entry

\* The head is where the sequence begins.
LEMMA HeadIs ==
  ASSUME NEW h \in Slot, NEW w \in Seq(Core), Layout(queue, h, w)
  PROVE  /\ w = <<>> => Heads = {} /\ \A s \in Slot : queue[s] = 0
         /\ w # <<>> => Heads = {h} /\ head = h /\ queue[h] = -(w[1] + 1)
<1>0. 0 \in Slot
  BY RpcQueueAssumption DEF Slot
<1>1. \A s \in Slot : \E i \in Slot : s = Place(h, i) /\ queue[s] = Entry(w, i)
  <2> SUFFICES ASSUME NEW s \in Slot
               PROVE  \E i \in Slot : s = Place(h, i) /\ queue[s] = Entry(w, i)
    OBVIOUS
  <2>1. PICK i \in Slot : s = Place(h, i)
    BY Everywhere
  <2> QED BY <2>1 DEF Layout
<1>2. CASE w = <<>>
  <2>1. \A i \in Slot : i \in Nat /\ i >= Len(w)
    BY <1>2 DEF Slot
  <2>2. \A s \in Slot : queue[s] = 0
    BY <1>1, <2>1 DEF Entry
  <2> QED BY <2>2, <1>2 DEF Heads
<1>3. CASE w # <<>>
  <2>1. queue[h] = Entry(w, 0) /\ Entry(w, 0) < 0
    BY <1>0, <1>3, Entries, Begins DEF Layout
  <2>2. Len(w) # 0 /\ Len(w) \in Nat
    BY <1>3
  <2>3. Entry(w, 0) = -(w[1] + 1)
    BY <2>2 DEF Entry
  <2>4. Heads = {h}
    <3>1. \A s \in Slot : queue[s] < 0 => s = h
      BY <1>1, Entries, Begins
    <3> QED BY <2>1, <3>1 DEF Heads
  <2>5. head = h
    BY <2>4 DEF head, Slot
  <2> QED BY <1>3, <2>1, <2>3, <2>4, <2>5
<1>4. QED
  BY <1>2, <1>3

\* A core that queues up comes behind the others.
LEMMA EnqueuedIs ==
  ASSUME NEW h \in Slot, NEW w \in Seq(Core), NEW c \in Core, Layout(queue, h, w),
         queue \in [Slot -> Int], Len(w) < SLOTS
  PROVE  \E k \in Slot : Layout(Enqueued(c), k, Append(w, c))
<1> DEFINE v == Append(w, c)
<1>0. SLOTS \in Nat /\ SLOTS > 0 /\ 0 \in Slot /\ Slot \subseteq Nat /\ \A i \in Slot : i < SLOTS
  BY RpcQueueAssumption DEF Slot
<1>1. /\ v \in Seq(Core) /\ Len(v) = Len(w) + 1 /\ v[Len(w) + 1] = c
      /\ \A k \in 1 .. Len(w) : v[k] = w[k]
      /\ Len(w) \in Nat /\ (w = <<>> <=> Len(w) = 0)
  OBVIOUS
<1> HIDE DEF v
<1>2. CASE w = <<>>
  <2>1. Enqueued(c) = [queue EXCEPT ![0] = -(c + 1)]
    BY <1>2, HeadIs DEF Enqueued
  <2>2. \A i \in Slot : Place(0, i) = i
    BY <1>0, Around
  <2>3. Entry(v, 0) = -(c + 1) /\ \A i \in Slot : i # 0 => Entry(v, i) = 0
    BY <1>0, <1>1, <1>2 DEF Entry
  <2>4. \A s \in Slot : queue[s] = 0
    BY <1>2, HeadIs
  <2>5. Layout(Enqueued(c), 0, v)
    BY <1>0, <2>1, <2>2, <2>3, <2>4 DEF Layout
  <2> QED BY <1>0, <2>5 DEF v
<1>3. CASE w # <<>>
  <2> DEFINE free == {i \in 1 .. SLOTS - 1 : queue[After(i)] = 0}
  <2>1. head = h /\ Heads # {}
    BY <1>3, HeadIs
  <2>2. \A i \in 1 .. SLOTS - 1 : i \in Slot /\ After(i) = Place(h, i)
    BY <1>0, <2>1 DEF After, Place, Slot
  <2>3. free = {i \in 1 .. SLOTS - 1 : i >= Len(w)}
    BY <2>2, Entries DEF Layout
  <2>4. Len(w) \in 1 .. SLOTS - 1
    BY <1>0, <1>1, <1>3
  <2>5. free # {} /\ (CHOOSE i \in free : \A j \in free : i <= j) = Len(w)
    BY <1>0, <1>1, <2>3, <2>4
  <2>6. Enqueued(c) = [queue EXCEPT ![Place(h, Len(w))] = c + 1]
    BY <2>1, <2>2, <2>4, <2>5 DEF Enqueued
  <2>7. ASSUME NEW i \in Slot PROVE Enqueued(c)[Place(h, i)] = Entry(v, i)
    <3>1. Len(w) \in Slot /\ Place(h, i) \in Slot /\ Place(h, Len(w)) \in Slot
          /\ (Place(h, i) = Place(h, Len(w)) => i = Len(w))
      BY <2>2, <2>4, Everywhere
    <3>2. CASE i = Len(w)
      BY <1>0, <1>1, <2>4, <2>6, <3>1, <3>2 DEF Entry
    <3>3. CASE i # Len(w)
      <4>1. Enqueued(c)[Place(h, i)] = Entry(w, i)
        BY <2>6, <3>1, <3>3 DEF Layout
      <4>2. Entry(v, i) = Entry(w, i)
        BY <1>0, <1>1, <3>3, <2>4 DEF Entry
      <4> QED BY <4>1, <4>2
    <3> QED BY <3>2, <3>3
  <2>8. Layout(Enqueued(c), h, v)
    BY <2>7 DEF Layout
  <2> QED BY <2>8 DEF v
<1>4. QED
  BY <1>2, <1>3

\* When the head is removed the next core is the head.
LEMMA DequeuedIs ==
  ASSUME NEW h \in Slot, NEW w \in Seq(Core), NEW c \in Core, Layout(queue, h, w),
         queue \in [Slot -> Int], w # <<>>, Len(w) <= SLOTS
  PROVE  Layout(Dequeued(c), Place(h, 1), Tail(w))
<1> DEFINE v == Tail(w)
<1>0. SLOTS \in Nat /\ SLOTS > 0 /\ 0 \in Slot /\ Slot \subseteq Nat /\ \A i \in Slot : i < SLOTS
  BY RpcQueueAssumption DEF Slot
<1>1. /\ v \in Seq(Core) /\ Len(v) = Len(w) - 1 /\ Len(w) \in Nat
      /\ \A k \in 1 .. Len(v) : v[k] = w[k + 1]
  OBVIOUS
<1> HIDE DEF v
<1>2. head = h
  BY HeadIs
<1>3. After(1) = Place(h, 1) /\ Place(h, 1) \in Slot
  BY <1>0, <1>2, MovesOn DEF After, Place
<1>4. ASSUME NEW i \in Slot PROVE Dequeued(c)[Place(Place(h, 1), i)] = Entry(v, i)
  <2>1. CASE i + 1 = SLOTS
    <3>1. Place(Place(h, 1), i) = h
      BY <2>1, MovesOn
    <3>2. Dequeued(c)[h] = 0
      BY <1>2 DEF Dequeued
    <3>3. Entry(v, i) = 0
      BY <1>0, <1>1, <2>1 DEF Entry
    <3> QED BY <3>1, <3>2, <3>3
  <2>2. CASE i + 1 # SLOTS
    <3>0. i + 1 < SLOTS
      BY <1>0, <2>2
    <3>1. i + 1 \in Slot /\ Place(Place(h, 1), i) = Place(h, i + 1)
      BY <3>0, MovesOn
    <3>2. Place(h, i + 1) \in Slot /\ Place(h, i + 1) # h
          /\ (Place(h, i + 1) = Place(h, 1) <=> i = 0)
      <4>1. 1 \in Slot /\ i \in Nat
        BY <1>0, <3>0 DEF Slot
      <4>2. \A k \in Slot : Place(h, k) \in Slot /\ (Place(h, i + 1) = Place(h, k) <=> i + 1 = k)
        BY <3>1, Everywhere
      <4>3. Place(h, 0) = h
        BY Begins
      <4> HIDE DEF v
      <4> QED BY <1>0, <3>1, <4>1, <4>2, <4>3
    <3>3. queue[Place(h, i + 1)] = Entry(w, i + 1)
      BY <3>1 DEF Layout
    <3>4. CASE i = 0
      <4>1. Dequeued(c)[Place(h, 1)] = IF Entry(w, 1) > 0 THEN -Entry(w, 1) ELSE Entry(w, 1)
        BY <1>2, <1>3, <3>2, <3>3, <3>4 DEF Dequeued
      <4>2. CASE Len(w) = 1
        BY <1>1, <3>1, <3>4, <4>1, <4>2 DEF Entry
      <4>3. CASE Len(w) > 1
        <5>1. w[2] \in Nat /\ v[1] = w[2] /\ Entry(w, 1) = w[2] + 1
          <6>1. w[2] \in Nat
            BY <1>1, <4>3, CoresAreNat
          <6>2. v[1] = w[2]
            BY <1>1, <4>3
          <6>3. Entry(w, 1) = w[2] + 1
            BY <1>1, <4>3 DEF Entry
          <6> QED BY <6>1, <6>2, <6>3
        <5>2. Entry(v, 0) = -(w[2] + 1)
          BY <1>1, <4>3, <5>1 DEF Entry
        <5> QED BY <3>1, <3>4, <4>1, <5>1, <5>2
      <4> QED BY <1>1, <4>2, <4>3
    <3>5. CASE i # 0
      <4>1. Dequeued(c)[Place(h, i + 1)] = Entry(w, i + 1)
        BY <1>2, <1>3, <3>2, <3>3, <3>5 DEF Dequeued
      <4>2. Entry(w, i + 1) = Entry(v, i)
        <5>1. i \in Nat /\ i # 0 /\ (i + 1 >= Len(w) <=> i >= Len(v))
          BY <1>0, <1>1, <3>5
        <5>2. i < Len(v) => v[i + 1] = w[(i + 1) + 1]
          BY <1>1, <5>1
        <5> QED BY <5>1, <5>2 DEF Entry
      <4> QED BY <3>1, <4>1, <4>2
    <3> QED BY <3>4, <3>5
  <2> QED BY <2>1, <2>2
<1>5. QED
  BY <1>4 DEF Layout, v

\* What the abstract service calls the waiting masters is the sequence.
LEMMA WaitingIs ==
  ASSUME NEW h \in Slot, NEW w \in Seq(Core), Layout(queue, h, w),
         queue \in [Slot -> Int], Len(w) <= SLOTS
  PROVE  Waiting = w
<1> DEFINE used == {s \in Slot : queue[s] # 0}
           f == [i \in 1 .. Len(w) |-> Place(h, i - 1)]
<1>0. /\ SLOTS \in Nat /\ Len(w) \in Nat
      /\ \A i \in 1 .. Len(w) : i - 1 \in Slot /\ i - 1 < Len(w)
      /\ \A i \in Slot : i \in Nat /\ (i < Len(w) => i + 1 \in 1 .. Len(w))
  BY RpcQueueAssumption DEF Slot
<1>1. \A i \in Slot : queue[Place(h, i)] # 0 <=> i < Len(w)
  BY <1>0, Entries DEF Layout
<1>2. f \in Bijection(1 .. Len(w), used)
  <2>1. \A i \in 1 .. Len(w) : f[i] \in used
    BY <1>0, <1>1, Everywhere
  <2>2. \A i, j \in 1 .. Len(w) : f[i] = f[j] => i = j
    <3>1. \A i, j \in 1 .. Len(w) : f[i] = f[j] => i - 1 = j - 1
      BY <1>0, Everywhere
    <3> QED BY <3>1
  <2>3. \A s \in used : \E i \in 1 .. Len(w) : f[i] = s
    <3> SUFFICES ASSUME NEW s \in used PROVE \E i \in 1 .. Len(w) : f[i] = s
      OBVIOUS
    <3>1. PICK i \in Slot : s = Place(h, i)
      BY Everywhere
    <3>2. i + 1 \in 1 .. Len(w) /\ (i + 1) - 1 = i
      BY <1>0, <1>1, <3>1
    <3> QED BY <3>1, <3>2
  <2> QED BY <2>1, <2>2, <2>3 DEF Bijection, Injection, Surjection, IsInjective
<1>3. Cardinality(used) = Len(w)
  <2>1. IsFiniteSet(1 .. Len(w)) /\ Cardinality(1 .. Len(w)) = Len(w)
    <3>1. 1 \in Int /\ Len(w) \in Int /\ (1 > Len(w) => Len(w) = 0) /\ Len(w) - 1 + 1 = Len(w)
      BY <1>0
    <3>2. /\ IsFiniteSet(1 .. Len(w))
          /\ Cardinality(1 .. Len(w)) = IF 1 > Len(w) THEN 0 ELSE Len(w) - 1 + 1
      BY <3>1, FS_Interval
    <3> QED BY <3>1, <3>2
  <2>2. ExistsBijection(1 .. Len(w), used)
    BY <1>2 DEF ExistsBijection
  <2> HIDE DEF used, f
  <2> QED BY <2>1, <2>2, FS_Bijection
<1>4. CASE w = <<>>
  BY <1>4, HeadIs DEF Waiting
<1>5. CASE w # <<>>
  <2>1. Heads # {} /\ head = h /\ queue[h] = -(w[1] + 1)
    BY <1>5, HeadIs
  <2>2. Waiting = [i \in 1 .. Len(w) |->
                     IF i = 1 THEN -queue[head] - 1 ELSE queue[After(i - 1)] - 1]
    BY <1>3, <2>1 DEF Waiting
  <2>3. \A i \in 1 .. Len(w) : w[i] \in Nat
    BY CoresAreNat
  <2>4. \A i \in 1 .. Len(w) : i # 1 => queue[After(i - 1)] = w[i] + 1
    <3>1. \A i \in 1 .. Len(w) : queue[After(i - 1)] = Entry(w, i - 1)
      BY <1>0, <2>1 DEF Layout, After, Place
    <3>2. \A i \in 1 .. Len(w) : i # 1 => Entry(w, i - 1) = w[i] + 1
      BY <1>0 DEF Entry
    <3> QED BY <3>1, <3>2
  <2>5. Len(w) # 0 /\ 1 \in 1 .. Len(w)
    BY <1>5, <1>0
  <2>6. \A i \in 1 .. Len(w) :
          (IF i = 1 THEN -queue[head] - 1 ELSE queue[After(i - 1)] - 1) = w[i]
    BY <2>1, <2>3, <2>4, <2>5, CoresAreNat
  <2>7. Waiting = [i \in 1 .. Len(w) |-> w[i]]
    BY <2>2, <2>6
  <2> QED BY <2>7
<1>6. QED
  BY <1>4, <1>5
-----------------------------------------------------------------------------
(***************************************************************************)
(* The cores.                                                              *)
(***************************************************************************)
\* There is a slot for every core.
LEMMA Room ==
  ASSUME NEW w \in Seq(Core), Members(w)
  PROVE  /\ Len(w) <= SLOTS
         /\ \A c \in Core : pc[c] \notin Queued => Len(w) < SLOTS
<1>1. /\ IsFiniteSet(1 .. Len(w)) /\ Cardinality(1 .. Len(w)) = Len(w)
      /\ Len(w) \in Nat
  <2>1. 1 \in Int /\ Len(w) \in Int /\ (1 > Len(w) => Len(w) = 0) /\ Len(w) - 1 + 1 = Len(w)
        /\ Len(w) \in Nat
    OBVIOUS
  <2>2. /\ IsFiniteSet(1 .. Len(w))
        /\ Cardinality(1 .. Len(w)) = IF 1 > Len(w) THEN 0 ELSE Len(w) - 1 + 1
    BY <2>1, FS_Interval
  <2> QED BY <2>1, <2>2
<1>2. SLOTS \in Nat /\ IsFiniteSet(Core) /\ Cardinality(Core) <= SLOTS /\ Cardinality(Core) \in Nat
  BY RpcQueueAssumption, FS_CardinalityType
<1>3. \A i, j \in 1 .. Len(w) : w[i] = w[j] => i = j
  BY DEF Members
<1>4. Len(w) <= SLOTS
  <2>1. w \in Injection(1 .. Len(w), Core)
    BY <1>3 DEF Injection, IsInjective
  <2>2. Cardinality(1 .. Len(w)) <= Cardinality(Core)
    BY <1>2, <2>1, FS_Injection
  <2> QED BY <1>1, <1>2, <2>2
<1>5. ASSUME NEW c \in Core, pc[c] \notin Queued PROVE Len(w) < SLOTS
  <2>1. \A i \in 1 .. Len(w) : w[i] \in Core \ {c}
    BY <1>5, CoresAreNat DEF Members
  <2>2. w \in Injection(1 .. Len(w), Core \ {c})
    BY <1>3, <2>1 DEF Injection, IsInjective
  <2>3. IsFiniteSet(Core \ {c}) /\ Cardinality(Core \ {c}) = Cardinality(Core) - 1
    BY <1>2, FS_RemoveElement
  <2>4. Cardinality(1 .. Len(w)) <= Cardinality(Core \ {c})
    BY <2>2, <2>3, FS_Injection
  <2> QED BY <1>1, <1>2, <2>3, <2>4
<1>6. QED
  BY <1>4, <1>5

\* A step of core c from one state to another.
Moves(c, from, to) == pc[c] = from /\ pc' = [pc EXCEPT ![c] = to]

LEMMA LockStep ==
  ASSUME NEW c \in Core, NEW from, NEW to, Types, LockHeld, Moves(c, from, to),
         \/ lock = {} /\ lock' = lock \cup {c} /\ to \in Inside
         \/ lock' = lock \ {c} /\ from \in Inside /\ to \notin Inside
         \/ lock' = lock /\ (from \in Inside <=> to \in Inside)
  PROVE  LockHeld'
  BY DEF Moves, LockHeld, Types

LEMMA QueueStep ==
  ASSUME QueueHeld, queue' = queue,
         \A c \in Core : pc'[c] \in Queued <=> pc[c] \in Queued
  PROVE  QueueHeld'
  BY DEF QueueHeld, Members

LEMMA HeadStep ==
  ASSUME NEW c \in Core, NEW from, NEW to, Types, HeadFound, Moves(c, from, to),
         queue' = queue, late' = late, to # "removing"
  PROVE  HeadFound'
  BY DEF Moves, HeadFound, Types

\* All steps that do not change the queue, but the second look.
LEMMA OtherSteps ==
  ASSUME NEW c \in Core, NEW from, NEW to, QueueInv, Moves(c, from, to),
         queue' = queue, late' = late, writing' \in BOOLEAN, calls' \in [Core -> 0 .. MaxCalls],
         to \in {"idle"} \cup Inside \cup Queued, to # "removing",
         from \in Queued <=> to \in Queued,
         \/ lock = {} /\ lock' = lock \cup {c} /\ to \in Inside
         \/ lock' = lock \ {c} /\ from \in Inside /\ to \notin Inside
         \/ lock' = lock /\ (from \in Inside <=> to \in Inside)
  PROVE  QueueInv'
<1>1. Types'
  BY DEF QueueInv, Types, Moves
<1>2. LockHeld'
  BY LockStep DEF QueueInv
<1>3. \A d \in Core : pc'[d] \in Queued <=> pc[d] \in Queued
  BY DEF QueueInv, Types, Moves
<1>4. QueueHeld'
  BY <1>3, QueueStep DEF QueueInv
<1>5. HeadFound'
  BY HeadStep DEF QueueInv
<1>6. QED
  BY <1>1, <1>2, <1>4, <1>5 DEF QueueInv

LEMMA Initially == Init => QueueInv
<1> SUFFICES ASSUME Init PROVE QueueInv
  OBVIOUS
<1>1. Types /\ LockHeld /\ HeadFound
  <2>1. MaxCalls \in Nat
    BY RpcQueueAssumption
  <2>2. Types
    <3>1. queue \in [Slot -> Int]
      BY DEF Init
    <3>4. late \in BOOLEAN /\ writing \in BOOLEAN
      BY Zenon DEF Init
    <3>2. pc \in [Core -> {"idle"} \cup Inside \cup Queued]
      BY DEF Init
    <3>3. calls \in [Core -> 0 .. MaxCalls]
      BY <2>1 DEF Init
    <3> QED BY <3>1, <3>2, <3>3, <3>4 DEF Types
  <2>3. LockHeld
    BY DEF Init, LockHeld, Inside
  <2>4. HeadFound
    BY DEF Init, HeadFound
  <2> QED BY <2>2, <2>3, <2>4
<1>2. QueueHeld
  <2>1. 0 \in Slot /\ SLOTS \in Nat
    BY RpcQueueAssumption DEF Slot
  <2>2. \A i \in Slot : Entry(<<>>, i) = 0
    BY <2>1 DEF Entry, Slot
  <2>3. Layout(queue, 0, <<>>)
    BY <2>1, <2>2, Everywhere DEF Init, Layout
  <2>4. Members(<<>>)
    BY DEF Members, Init, Queued
  <2>5. <<>> \in Seq(Core)
    OBVIOUS
  <2> QED BY <2>1, <2>3, <2>4, <2>5 DEF QueueHeld
<1>3. QED
  BY <1>1, <1>2 DEF QueueInv

\* RCCE_RPC_add_self_to_queue.
LEMMA AddKeeps == ASSUME NEW c \in Core, QueueInv, AddEnd(c) PROVE QueueInv'
<1>1. PICK h \in Slot, w \in Seq(Core) : Layout(queue, h, w) /\ Members(w)
  BY DEF QueueInv, QueueHeld
<1>2. /\ Moves(c, "adding", "added") /\ queue' = Enqueued(c) /\ queue \in [Slot -> Int]
      /\ pc[c] \notin Queued /\ c \in Nat
  BY RpcQueueAssumption DEF AddEnd, Goto, Moves, Queued, QueueInv, Types
<1>3. Len(w) < SLOTS
  BY <1>1, <1>2, Room
<1>4. PICK k \in Slot : Layout(queue', k, Append(w, c))
  BY <1>1, <1>2, <1>3, EnqueuedIs
<1>5. Types'
  <2>1. queue' \in [Slot -> Int]
    <3>1. \A s, x : x \in Int => [queue EXCEPT ![s] = x] \in [Slot -> Int]
      BY <1>2
    <3>2. c + 1 \in Int /\ -(c + 1) \in Int
      BY <1>2
    <3> QED BY <1>2, <3>1, <3>2 DEF Enqueued
  <2> QED BY <1>2, <2>1 DEF AddEnd, Types, QueueInv, Moves, Inside
<1>6. LockHeld'
  BY <1>2, LockStep DEF AddEnd, QueueInv, Inside
<1>7. QueueHeld'
  <2> DEFINE v == Append(w, c)
  <2>1. /\ v \in Seq(Core) /\ Len(v) = Len(w) + 1 /\ Len(w) \in Nat /\ v[Len(w) + 1] = c
        /\ \A i \in 1 .. Len(w) : v[i] = w[i]
    OBVIOUS
  <2>2. \A i \in 1 .. Len(w) : w[i] # c
    BY <1>1, <1>2 DEF Members
  <2> HIDE DEF v
  <2>3. \A i, j \in 1 .. Len(v) : v[i] = v[j] => i = j
    <3>1. \A i, j \in 1 .. Len(w) : w[i] = w[j] => i = j
      BY <1>1 DEF Members
    <3>2. \A i \in 1 .. Len(v) : i \in 1 .. Len(w) \/ i = Len(w) + 1
      BY <2>1
    <3> QED BY <2>1, <2>2, <3>1, <3>2
  <2>4. ASSUME NEW d \in Core PROVE pc'[d] \in Queued <=> \E i \in 1 .. Len(v) : v[i] = d
    <3>1. pc'[d] \in Queued <=> pc[d] \in Queued \/ d = c
      BY <1>2 DEF Moves, Queued, QueueInv, Types
    <3>2. pc[d] \in Queued <=> \E i \in 1 .. Len(w) : w[i] = d
      BY <1>1 DEF Members
    <3>3. (\E i \in 1 .. Len(v) : v[i] = d) <=> (\E i \in 1 .. Len(w) : w[i] = d) \/ d = c
      BY <2>1
    <3> QED BY <3>1, <3>2, <3>3
  <2>5. Members(v)'
    BY <2>3, <2>4 DEF Members
  <2> QED BY <1>4, <2>1, <2>5 DEF QueueHeld, v
<1>8. HeadFound'
  <2>1. ASSUME NEW d \in Core PROVE pc'[d] # "removing"
    <3>1. pc[c] \in Inside /\ "removing" \in Inside
      BY <1>2 DEF Moves, Inside
    <3>2. d # c => pc[d] # "removing"
      BY <3>1 DEF QueueInv, LockHeld
    <3> QED BY <1>2, <3>2 DEF Moves, QueueInv, Types
  <2> QED BY <2>1 DEF HeadFound
<1>9. QED
  BY <1>5, <1>6, <1>7, <1>8 DEF QueueInv

\* A negative entry is the first of the sequence.
LEMMA HeadIsFirst ==
  ASSUME NEW h \in Slot, NEW w \in Seq(Core), Layout(queue, h, w), NEW c \in Core,
         \E s \in Slot : queue[s] = -(c + 1)
  PROVE  w # <<>> /\ w[1] = c /\ head = h /\ Heads # {} /\ queue[head] = -(c + 1)
<1>0. c \in Nat
  BY RpcQueueAssumption
<1>1. PICK s \in Slot : queue[s] = -(c + 1)
  OBVIOUS
<1>2. s \in Heads
  BY <1>0, <1>1 DEF Heads
<1>3. w # <<>>
  BY <1>2, HeadIs
<1>4. Heads = {h} /\ head = h /\ queue[h] = -(w[1] + 1)
  BY <1>3, HeadIs
<1>5. s = h
  BY <1>2, <1>4
<1>6. w[1] \in Nat
  BY <1>3, CoresAreNat
<1>7. QED
  BY <1>0, <1>1, <1>3, <1>4, <1>5, <1>6

\* RCCE_RPC_remove_self_from_queue_and_reset_start.
LEMMA RemoveKeeps == ASSUME NEW c \in Core, QueueInv, RemoveEnd(c) PROVE QueueInv'
<1>1. PICK h \in Slot, w \in Seq(Core) : Layout(queue, h, w) /\ Members(w)
  BY DEF QueueInv, QueueHeld
<1>2. /\ Moves(c, "removing", "removed") /\ queue' = Dequeued(c) /\ queue \in [Slot -> Int]
  BY DEF RemoveEnd, Goto, Moves, QueueInv, Types
<1>3. w # <<>> /\ w[1] = c
  BY <1>1, <1>2, HeadIsFirst DEF Moves, QueueInv, HeadFound
<1>4. Len(w) <= SLOTS
  BY <1>1, Room
<1>5. Layout(queue', Place(h, 1), Tail(w)) /\ Place(h, 1) \in Slot
  BY <1>1, <1>2, <1>3, <1>4, DequeuedIs, MovesOn
<1>6. Types'
  <2>1. queue' \in [Slot -> Int]
    BY <1>2 DEF Dequeued
  <2> QED BY <1>2, <2>1 DEF RemoveEnd, Types, QueueInv, Moves, Inside
<1>7. LockHeld'
  BY <1>2, LockStep DEF RemoveEnd, QueueInv, Inside
<1>8. QueueHeld'
  <2> DEFINE v == Tail(w)
  <2>1. /\ v \in Seq(Core) /\ Len(v) = Len(w) - 1 /\ Len(w) \in Nat /\ Len(w) >= 1
        /\ \A i \in 1 .. Len(v) : v[i] = w[i + 1] /\ i + 1 \in 1 .. Len(w)
    BY <1>3
  <2>2. \A i, j \in 1 .. Len(w) : w[i] = w[j] => i = j
    BY <1>1 DEF Members
  <2> HIDE DEF v
  <2>3. \A i, j \in 1 .. Len(v) : v[i] = v[j] => i = j
    BY <2>1, <2>2
  <2>4. ASSUME NEW d \in Core PROVE pc'[d] \in Queued <=> \E i \in 1 .. Len(v) : v[i] = d
    <3>1. pc'[d] \in Queued <=> pc[d] \in Queued /\ d # c
      BY <1>2 DEF Moves, Queued, QueueInv, Types
    <3>2. pc[d] \in Queued <=> \E i \in 1 .. Len(w) : w[i] = d
      BY <1>1 DEF Members
    <3>3. (\E i \in 1 .. Len(v) : v[i] = d) <=> (\E i \in 1 .. Len(w) : w[i] = d) /\ d # c
      <4>1. ASSUME NEW i \in 1 .. Len(v), v[i] = d PROVE (\E j \in 1 .. Len(w) : w[j] = d) /\ d # c
        BY <1>3, <2>1, <2>2, <4>1
      <4>2. ASSUME NEW i \in 1 .. Len(w), w[i] = d, d # c PROVE \E j \in 1 .. Len(v) : v[j] = d
        <5>1. i # 1 /\ i - 1 \in 1 .. Len(v) /\ (i - 1) + 1 = i
          BY <1>3, <2>1, <4>2
        <5>2. v[i - 1] = w[(i - 1) + 1]
          BY <2>1, <5>1
        <5> QED BY <4>2, <5>1, <5>2
      <4> QED BY <4>1, <4>2
    <3> QED BY <3>1, <3>2, <3>3
  <2>5. Members(v)'
    BY <2>3, <2>4 DEF Members
  <2> QED BY <1>5, <2>1, <2>5 DEF QueueHeld, v
<1>9. HeadFound'
  <2>1. ASSUME NEW d \in Core PROVE pc'[d] # "removing"
    <3>1. pc[c] \in Inside /\ "removing" \in Inside
      BY <1>2 DEF Moves, Inside
    <3>2. d # c => pc[d] # "removing"
      BY <3>1 DEF QueueInv, LockHeld
    <3> QED BY <1>2, <3>2 DEF Moves, QueueInv, Types
  <2> QED BY <2>1 DEF HeadFound
<1>10. QED
  BY <1>6, <1>7, <1>8, <1>9 DEF QueueInv

\* The second look.
LEMMA ConfirmKeeps == ASSUME NEW c \in Core, QueueInv, Confirm(c) PROVE QueueInv'
<1>1. CASE MyTurn(c)
  <2>1. Moves(c, "confirm", "removing") /\ UNCHANGED <<queue, late, lock, calls>> /\ writing'
    BY <1>1 DEF Confirm, Goto, Moves
  <2>2. Types'
    BY <2>1 DEF QueueInv, Types, Moves, Inside
  <2>3. LockHeld'
    BY <2>1, LockStep DEF QueueInv, Inside
  <2>4. \A d \in Core : pc'[d] \in Queued <=> pc[d] \in Queued
    BY <2>1 DEF QueueInv, Types, Moves, Queued
  <2>5. QueueHeld'
    BY <2>1, <2>4, QueueStep DEF QueueInv
  <2>6. late /\ \E s \in Slot : queue[s] = -(c + 1)
    <3>1. PICK h \in Slot, w \in Seq(Core) : Layout(queue, h, w)
      BY DEF QueueInv, QueueHeld
    <3>2. head = h
      BY <1>1, <3>1, HeadIs DEF MyTurn
    <3> QED BY <1>1, <3>1, <3>2 DEF MyTurn
  <2>7. HeadFound'
    BY <2>1, <2>6 DEF QueueInv, HeadFound, Moves, Types
  <2> QED BY <2>2, <2>3, <2>5, <2>7 DEF QueueInv
<1>2. CASE ~MyTurn(c)
  <2>1. Moves(c, "confirm", "checked") /\ UNCHANGED <<queue, late, lock, calls, writing>>
    BY <1>2 DEF Confirm, Goto, Moves
  <2> QED BY <2>1, OtherSteps DEF QueueInv, Types, Inside, Queued
<1>3. QED
  BY <1>1, <1>2

LEMMA Always == QueueInv /\ [Next]_vars => QueueInv'
<1> SUFFICES ASSUME QueueInv, [Next]_vars PROVE QueueInv'
  OBVIOUS
<1>0. writing \in BOOLEAN /\ calls \in [Core -> 0 .. MaxCalls] /\ MaxCalls \in Nat
  BY RpcQueueAssumption DEF QueueInv, Types
<1>1. ASSUME NEW c \in Core, Call(c) PROVE QueueInv'
  <2>1. Moves(c, "idle", "locked") /\ calls' \in [Core -> 0 .. MaxCalls]
    BY <1>0, <1>1 DEF Call, Acquire, Goto, Moves
  <2> QED BY <1>0, <1>1, <2>1, OtherSteps DEF Call, Acquire, Inside, Queued
<1>2. ASSUME NEW c \in Core, AddBegin(c) PROVE QueueInv'
  <2>1. Moves(c, "locked", "adding")
    BY <1>2 DEF AddBegin, Goto, Moves
  <2> QED BY <1>0, <1>2, <2>1, OtherSteps DEF AddBegin, Inside, Queued
<1>3. ASSUME NEW c \in Core, AddRelease(c) PROVE QueueInv'
  <2>1. Moves(c, "added", "spin")
    BY <1>3 DEF AddRelease, Release, Goto, Moves
  <2> QED BY <1>0, <1>3, <2>1, OtherSteps DEF AddRelease, Release, Inside, Queued
<1>4. ASSUME NEW c \in Core, SpinEnd(c) PROVE QueueInv'
  <2>1. Moves(c, "spin", "looked")
    BY <1>4 DEF SpinEnd, Goto, Moves
  <2> QED BY <1>0, <1>4, <2>1, OtherSteps DEF SpinEnd, Inside, Queued
<1>5. ASSUME NEW c \in Core, LockAgain(c) PROVE QueueInv'
  <2>1. Moves(c, "looked", "confirm")
    BY <1>5 DEF LockAgain, Acquire, Goto, Moves
  <2> QED BY <1>0, <1>5, <2>1, OtherSteps DEF LockAgain, Acquire, Inside, Queued
<1>6. ASSUME NEW c \in Core, NotYet(c) PROVE QueueInv'
  <2>1. Moves(c, "checked", "spin")
    BY <1>6 DEF NotYet, Release, Goto, Moves
  <2> QED BY <1>0, <1>6, <2>1, OtherSteps DEF NotYet, Release, Inside, Queued
<1>7. ASSUME NEW c \in Core, RemoveRelease(c) PROVE QueueInv'
  <2>1. Moves(c, "removed", "idle")
    BY <1>7 DEF RemoveRelease, Release, Goto, Moves
  <2> QED BY <1>0, <1>7, <2>1, OtherSteps DEF RemoveRelease, Release, Inside, Queued
<1>8. CASE TimePasses
  BY <1>8, QueueStep DEF TimePasses, QueueInv, Types, LockHeld, HeadFound
<1>9. CASE UNCHANGED vars
  BY <1>9, QueueStep DEF vars, QueueInv, Types, LockHeld, HeadFound
<1>10. QED
  BY <1>1, <1>2, <1>3, <1>4, <1>5, <1>6, <1>7, <1>8, <1>9, AddKeeps, ConfirmKeeps, RemoveKeeps
  DEF Next, Step
-----------------------------------------------------------------------------
(***************************************************************************)
(* Type correctness, and with it that the lock of RPC_ROOT excludes.       *)
(***************************************************************************)
LEMMA EntriesAreCores ==
  ASSUME QueueInv
  PROVE  queue \in [Slot -> {0} \cup {c + 1 : c \in Core} \cup {-(c + 1) : c \in Core}]
<1>1. PICK h \in Slot, w \in Seq(Core) : Layout(queue, h, w)
  BY DEF QueueInv, QueueHeld
<1>2. ASSUME NEW s \in Slot
      PROVE  queue[s] \in {0} \cup {c + 1 : c \in Core} \cup {-(c + 1) : c \in Core}
  <2>1. PICK i \in Slot : s = Place(h, i)
    BY Everywhere
  <2>2. queue[s] = Entry(w, i) /\ i \in Nat /\ Len(w) \in Nat
    BY <1>1, <2>1 DEF Layout, Slot
  <2>3. i < Len(w) => w[i + 1] \in Core /\ (i = 0 => w[1] \in Core)
    BY <2>2, CoresAreNat
  <2> QED BY <2>2, <2>3 DEF Entry
<1>3. QED
  BY <1>2 DEF QueueInv, Types

\* The state of the queue functions is of the right type, and RCCE_acquire_lock
\* lets in one core at a time.
THEOREM TypeCorrect == Spec => []TypeOK
<1>1. QueueInv => TypeOK
  <2> SUFFICES ASSUME QueueInv PROVE TypeOK
    OBVIOUS
  <2>1. lock \subseteq Core
    BY DEF QueueInv, LockHeld
  <2>2. Cardinality(lock) <= 1
    <3>1. CASE lock = {}
      BY <3>1, FS_EmptySet
    <3>2. CASE \E c \in Core : lock = {c}
      BY <3>2, FS_Singleton
    <3> QED BY <3>1, <3>2 DEF QueueInv, LockHeld
  <2>3. pc \in [Core -> {"idle", "locked", "adding", "added", "spin", "looked",
                         "confirm", "checked", "removing", "removed"}]
    BY DEF QueueInv, Types, Inside, Queued
  <2> QED BY <2>1, <2>2, <2>3, EntriesAreCores DEF TypeOK, QueueInv, Types
<1>2. QED
  BY <1>1, Initially, Always, PTL DEF Spec

(***************************************************************************)
(* RCCE_RPC_add_self_to_queue finds a slot, RCCE_RPC_remove_self_... finds *)
(* its caller at the head, and who waits is in the queue.                  *)
(***************************************************************************)
THEOREM ErrorsNeverOccur == Spec => []NoInternalError
<1>1. QueueInv => NoInternalError
  <2> SUFFICES ASSUME QueueInv, NEW c \in Core
               PROVE  /\ pc[c] = "adding" => \E s \in Slot : queue[s] = 0
                      /\ pc[c] = "removing" => Heads # {} /\ queue[head] = -(c + 1)
                      /\ pc[c] \in {"spin", "looked"} =>
                           \E s \in Slot : queue[s] \in {c + 1, -(c + 1)}
    BY DEF NoInternalError
  <2>1. PICK h \in Slot, w \in Seq(Core) : Layout(queue, h, w) /\ Members(w)
    BY DEF QueueInv, QueueHeld
  <2>2. Len(w) \in Nat /\ Len(w) <= SLOTS /\ SLOTS \in Nat
    BY <2>1, Room, RpcQueueAssumption
  <2>3. ASSUME pc[c] = "adding" PROVE \E s \in Slot : queue[s] = 0
    <3>1. Len(w) < SLOTS
      BY <2>1, <2>3, Room DEF Queued
    <3>2. Len(w) \in Slot
      BY <2>2, <3>1 DEF Slot
    <3>3. queue[Place(h, Len(w))] = 0 /\ Place(h, Len(w)) \in Slot
      <4>1. Entry(w, Len(w)) = 0
        BY <2>2 DEF Entry
      <4>2. queue[Place(h, Len(w))] = Entry(w, Len(w))
        BY <2>1, <3>2 DEF Layout
      <4> QED BY <3>2, <4>1, <4>2, Everywhere
    <3> QED BY <3>3
  <2>4. ASSUME pc[c] = "removing" PROVE Heads # {} /\ queue[head] = -(c + 1)
    BY <2>1, <2>4, HeadIsFirst DEF QueueInv, HeadFound
  <2>5. ASSUME pc[c] \in {"spin", "looked"}
        PROVE  \E s \in Slot : queue[s] \in {c + 1, -(c + 1)}
    <3>1. PICK i \in 1 .. Len(w) : w[i] = c
      BY <2>1, <2>5 DEF Members, Queued
    <3>2. i - 1 \in Slot /\ i - 1 \in Nat /\ ~(i - 1 >= Len(w)) /\ (i - 1) + 1 = i
      BY <2>2, <3>1 DEF Slot
    <3>3. Entry(w, i - 1) \in {c + 1, -(c + 1)}
      BY <3>1, <3>2 DEF Entry
    <3>4. queue[Place(h, i - 1)] = Entry(w, i - 1) /\ Place(h, i - 1) \in Slot
      BY <2>1, <3>2, Everywhere DEF Layout
    <3> QED BY <3>3, <3>4
  <2> QED BY <2>3, <2>4, <2>5
<1>2. QED
  BY <1>1, Initially, Always, PTL DEF Spec

(***************************************************************************)
(* The array in shared memory implements a first-in first-out queue:       *)
(* AddEnd is Request, RemoveEnd is Serve, TimePasses is Rest.              *)
(***************************************************************************)
\* WaitingIs as a formula, which holds in the next state as well.
Reads ==
  \A h \in Slot, w \in Seq(Core) :
    Layout(queue, h, w) /\ queue \in [Slot -> Int] /\ Len(w) <= SLOTS => Waiting = w
LEMMA WaitingAlways == Reads
BY WaitingIs DEF Reads

LEMMA Queues ==
  ASSUME NEW c \in Core, QueueInv, AddEnd(c)
  PROVE  Service!Request(c)
<1>1. PICK h \in Slot, w \in Seq(Core) : Layout(queue, h, w) /\ Members(w)
  BY DEF QueueInv, QueueHeld
<1>2. /\ pc[c] \notin Queued /\ queue' = Enqueued(c) /\ late' = late
      /\ queue \in [Slot -> Int]
  BY DEF AddEnd, Queued, QueueInv, Types
<1>3. Len(w) < SLOTS /\ Len(w) <= SLOTS /\ Waiting = w
  BY <1>1, <1>2, Room, WaitingIs
<1>4. PICK k \in Slot : Layout(queue', k, Append(w, c))
  BY <1>1, <1>2, <1>3, EnqueuedIs
<1>5. QueueInv'
  BY AddKeeps
<1>6. Waiting' = Append(w, c)
  <2>1. Append(w, c) \in Seq(Core) /\ Len(Append(w, c)) <= SLOTS
    BY <1>3, RpcQueueAssumption
  <2>2. queue' \in [Slot -> Int] /\ Layout(queue, k, Append(w, c))'
    BY <1>4, <1>5 DEF QueueInv, Types
  <2>3. Reads'
    BY WaitingAlways, PTL
  <2> QED BY <2>1, <2>2, <2>3 DEF Reads
<1>7. \A i \in 1 .. Len(w) : w[i] # c
  BY <1>1, <1>2 DEF Members
<1>8. QED
  BY <1>2, <1>3, <1>6, <1>7 DEF Service!Request

LEMMA Serves ==
  ASSUME NEW c \in Core, QueueInv, RemoveEnd(c)
  PROVE  Service!Serve
<1>1. PICK h \in Slot, w \in Seq(Core) : Layout(queue, h, w) /\ Members(w)
  BY DEF QueueInv, QueueHeld
<1>2. /\ pc[c] = "removing" /\ queue' = Dequeued(c) /\ late' = FALSE
      /\ queue \in [Slot -> Int]
  BY DEF RemoveEnd, QueueInv, Types
<1>3. late /\ w # <<>> /\ Len(w) <= SLOTS
  BY <1>1, <1>2, HeadIsFirst, Room DEF QueueInv, HeadFound
<1>4. Waiting = w
  BY <1>1, <1>2, <1>3, WaitingIs
<1>5. Layout(queue', Place(h, 1), Tail(w)) /\ Place(h, 1) \in Slot
  BY <1>1, <1>2, <1>3, DequeuedIs, MovesOn
<1>6. Waiting' = Tail(w)
  <2>1. Tail(w) \in Seq(Core) /\ Len(Tail(w)) <= SLOTS
    BY <1>3, RpcQueueAssumption
  <2>2. queue' \in [Slot -> Int]
    BY RemoveKeeps DEF QueueInv, Types
  <2>3. Reads'
    BY WaitingAlways, PTL
  <2>4. Layout(queue, Place(h, 1), Tail(w))'
    <3> DEFINE k == Place(h, 1)
    <3>1. Layout(queue', k, Tail(w))
      BY <1>5
    <3> QED BY <3>1
  <2> QED BY <1>5, <2>1, <2>2, <2>3, <2>4 DEF Reads
<1>7. QED
  BY <1>2, <1>3, <1>4, <1>6 DEF Service!Serve

(***************************************************************************)
(* The queue functions implement a first-in first-out queue: a step of     *)
(* theirs is a request, a service, a rest, or leaves the queue alone.      *)
(***************************************************************************)
THEOREM QueueRefines == Spec => ServiceSpec
<1>1. Init => Service!Init
  <2> SUFFICES ASSUME Init PROVE Service!Init
    OBVIOUS
  <2>1. Heads = {}
    BY DEF Init, Heads
  <2> QED BY <2>1 DEF Init, Service!Init, Waiting
<1>2. QueueInv /\ [Next]_vars => [Service!Next]_<<Waiting, late>>
  <2> SUFFICES ASSUME QueueInv, [Next]_vars PROVE [Service!Next]_<<Waiting, late>>
    OBVIOUS
  <2>1. ASSUME UNCHANGED <<queue, late>> PROVE UNCHANGED <<Waiting, late>>
    BY <2>1 DEF Waiting, After, head, Heads
  <2>2. CASE TimePasses
    <3>1. Waiting' = Waiting
      BY <2>2 DEF TimePasses, Waiting, After, head, Heads
    <3> QED BY <2>2, <3>1 DEF TimePasses, Service!Rest, Service!Next
  <2>3. ASSUME NEW c \in Core, AddEnd(c) PROVE Service!Next
    BY <2>3, Queues DEF Service!Next
  <2>4. ASSUME NEW c \in Core, RemoveEnd(c) PROVE Service!Next
    BY <2>4, Serves DEF Service!Next
  <2>5. ASSUME NEW c \in Core, \/ Call(c) \/ AddBegin(c) \/ AddRelease(c) \/ SpinEnd(c)
                               \/ LockAgain(c) \/ Confirm(c) \/ NotYet(c) \/ RemoveRelease(c)
        PROVE  UNCHANGED <<queue, late>>
    BY <2>5 DEF Call, AddBegin, AddRelease, SpinEnd, LockAgain, Confirm, NotYet, RemoveRelease,
                Release
  <2>6. CASE UNCHANGED vars
    <3>1. UNCHANGED <<queue, late>>
      BY <2>6 DEF vars
    <3> QED BY <2>1, <3>1
  <2>7. ASSUME NEW c \in Core, Call(c) \/ Step(c) PROVE [Service!Next]_<<Waiting, late>>
    <3>1. CASE AddEnd(c) \/ RemoveEnd(c)
      BY <2>3, <2>4, <3>1
    <3>2. CASE ~(AddEnd(c) \/ RemoveEnd(c))
      <4>1. UNCHANGED <<queue, late>>
        BY <2>5, <2>7, <3>2 DEF Step
      <4> QED BY <2>1, <4>1
    <3> QED BY <3>1, <3>2
  <2> QED BY <2>2, <2>6, <2>7 DEF Next
<1>3. QED
  BY <1>1, <1>2, Initially, Always, PTL DEF Spec, ServiceSpec, Service!Spec
=============================================================================
