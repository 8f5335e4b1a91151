---------------------------- MODULE RcceRpcQueue ----------------------------
(***************************************************************************)
(* The queue of voltage requests that the emulator keeps in RPC_ROOT's MPB *)
(* (RC_set_voltage and the RCCE_RPC_... functions of                       *)
(* src/rcce/src/RCCE_power_management.c).                                  *)
(*                                                                         *)
(* The queue is a circular array with one slot per voltage domain: 0 is a  *)
(* free slot, m+1 a waiting core m, -(m+1) the core at the head.  It is    *)
(* copied out, changed and copied back under the lock of RPC_ROOT; whether *)
(* its turn has come, a core first looks up without the lock, possibly in  *)
(* the middle of an update, and then once more with it.                    *)
(***************************************************************************)
EXTENDS Integers, Sequences, FiniteSets

CONSTANTS Core,      \* the masters of the voltage domains
          SLOTS,     \* RC_NUM_VOLTAGE_DOMAINS
          MaxCalls   \* bound on the requests of one core (model bound)

ASSUME RpcQueueAssumption ==
  /\ Core \subseteq Nat /\ IsFiniteSet(Core)
  /\ SLOTS \in Nat \ {0} /\ Cardinality(Core) <= SLOTS /\ MaxCalls \in Nat

Slot == 0 .. SLOTS - 1

VARIABLES queue,    \* the regulator's queue array
          late,     \* RC_global_clock() >= start_time + RC_WAIT_CYCLES
          writing,  \* an update of the queue is being copied back
          lock,     \* the cores that hold the lock of RPC_ROOT
          pc, calls

vars == <<queue, late, writing, lock, pc, calls>>

TypeOK ==
  /\ queue \in [Slot -> {0} \cup {c + 1 : c \in Core} \cup {-(c + 1) : c \in Core}]
  /\ late \in BOOLEAN /\ writing \in BOOLEAN
  /\ lock \subseteq Core /\ Cardinality(lock) <= 1
  /\ pc \in [Core -> {"idle", "locked", "adding", "added", "spin", "looked",
                      "confirm", "checked", "removing", "removed"}]
  /\ calls \in [Core -> 0 .. MaxCalls]

\* All memory is zero at the start.
Init ==
  /\ queue = [s \in Slot |-> 0] /\ late = FALSE /\ writing = FALSE
  /\ lock = {} /\ pc = [c \in Core |-> "idle"] /\ calls = [c \in Core |-> 0]

-----------------------------------------------------------------------------
Heads == {s \in Slot : queue[s] < 0}
head  == CHOOSE s \in Heads : \A t \in Heads : s <= t

After(i) == (head + i) % SLOTS

\* Mutation: the search for a free slot starts at slot 0, not behind the head.
Enqueued_AnyFree(c) ==
  IF Heads = {} THEN [queue EXCEPT ![0] = -(c + 1)]
  ELSE LET free == {s \in Slot : queue[s] = 0}
       IN  IF free = {} THEN queue
           ELSE [queue EXCEPT ![CHOOSE s \in free : \A t \in free : s <= t] = c + 1]

\* RCCE_RPC_add_self_to_queue: the slot 0 of an empty queue, or the first
\* free one behind the head.
Enqueued(c) ==
  IF Heads = {} THEN [queue EXCEPT ![0] = -(c + 1)]
  ELSE LET free == {i \in 1 .. SLOTS - 1 : queue[After(i)] = 0}
       IN  IF free = {} THEN queue
           ELSE [queue EXCEPT ![After(CHOOSE i \in free : \A j \in free : i <= j)] = c + 1]

\* Mutation: the next in the queue is not marked as its head.
Dequeued_NoHead(c) == [queue EXCEPT ![head] = 0]

\* RCCE_RPC_remove_self_from_queue_and_reset_start.
Dequeued(c) ==
  [s \in Slot |-> IF s = head THEN 0
                  ELSE IF s = After(1) /\ queue[s] > 0 THEN -queue[s] ELSE queue[s]]

\* RCCE_RPC_my_turn.
MyTurn(c) == Heads # {} /\ queue[head] = -(c + 1) /\ late

Goto(c, p) == pc' = [pc EXCEPT ![c] = p]

\* RCCE_acquire_lock(RPC_ROOT).
Acquire(c, from, to) ==
  /\ pc[c] = from /\ lock = {}
  /\ lock' = lock \cup {c} /\ Goto(c, to)

Release(c, from, to) ==
  /\ pc[c] = from
  /\ lock' = lock \ {c} /\ Goto(c, to)
  /\ UNCHANGED <<queue, late, writing, calls>>

\* RC_set_voltage: queue up.
Call(c) ==
  /\ calls[c] < MaxCalls
  /\ Acquire(c, "idle", "locked")
  /\ calls' = [calls EXCEPT ![c] = @ + 1]
  /\ UNCHANGED <<queue, late, writing>>

AddBegin(c) ==
  /\ pc[c] = "locked" /\ Goto(c, "adding")
  /\ writing' = TRUE
  /\ UNCHANGED <<queue, late, lock, calls>>

AddEnd(c) ==
  /\ pc[c] = "adding" /\ Goto(c, "added")
  /\ queue' = Enqueued(c) /\ writing' = FALSE
  /\ UNCHANGED <<late, lock, calls>>

AddRelease(c) == Release(c, "added", "spin")

\* A look without the lock: it may see anything while the queue is written.
LooksLikeMyTurn(c) == writing \/ MyTurn(c)

SpinEnd(c) ==
  /\ pc[c] = "spin" /\ LooksLikeMyTurn(c)
  /\ Goto(c, "looked")
  /\ UNCHANGED <<queue, late, writing, lock, calls>>

LockAgain(c) == Acquire(c, "looked", "confirm") /\ UNCHANGED <<queue, late, writing, calls>>

\* Mutation: the second look is left out.
Confirm_Trusting(c) ==
  /\ pc[c] = "confirm"
  /\ Goto(c, "removing") /\ writing' = TRUE
  /\ UNCHANGED <<queue, late, lock, calls>>

\* The second look, with the lock.
Confirm(c) ==
  /\ pc[c] = "confirm"
  /\ IF MyTurn(c) THEN Goto(c, "removing") /\ writing' = TRUE
                  ELSE Goto(c, "checked") /\ UNCHANGED writing
  /\ UNCHANGED <<queue, late, lock, calls>>

NotYet(c) == Release(c, "checked", "spin")

RemoveEnd(c) ==
  /\ pc[c] = "removing" /\ Goto(c, "removed")
  /\ queue' = Dequeued(c) /\ writing' = FALSE
  /\ late' = FALSE
  /\ UNCHANGED <<lock, calls>>

RemoveRelease(c) == Release(c, "removed", "idle")

\* RC_WAIT_CYCLES have passed since the last request.
TimePasses == ~late /\ late' = TRUE /\ UNCHANGED <<queue, writing, lock, pc, calls>>

Step(c) == \/ AddBegin(c) \/ AddEnd(c) \/ AddRelease(c) \/ SpinEnd(c)
           \/ LockAgain(c) \/ Confirm(c) \/ NotYet(c) \/ RemoveEnd(c) \/ RemoveRelease(c)

Next == (\E c \in Core : Call(c) \/ Step(c)) \/ TimePasses

Spec == Init /\ [][Next]_vars

\* Every core and the clock go on.
FairSpec == Spec /\ (\A c \in Core : WF_vars(Step(c))) /\ WF_vars(TimePasses)

-----------------------------------------------------------------------------
(***************************************************************************)
(* Properties                                                              *)
(***************************************************************************)

\* The occupied slots, read from the head on, are the waiting cores.
Waiting ==
  LET n == Cardinality({s \in Slot : queue[s] # 0})
  IN  IF Heads = {} THEN <<>>
      ELSE [i \in 1 .. n |-> IF i = 1 THEN -queue[head] - 1 ELSE queue[After(i - 1)] - 1]

\* The array in shared memory, updated by read and write, behaves like one
\* first-in first-out queue with one request served per latency.
Service == INSTANCE RpcService WITH Master <- Core, waiting <- Waiting, rested <- late
ServiceSpec == Service!Spec

\* The internal errors of the queue functions never occur: there is a slot
\* for everybody, and who removes the head is the head.
NoInternalError ==
  \A c \in Core :
     /\ pc[c] = "adding" => \E s \in Slot : queue[s] = 0
     /\ pc[c] = "removing" => Heads # {} /\ queue[head] = -(c + 1)
     /\ pc[c] \in {"spin", "looked"} => \E s \in Slot : queue[s] \in {c + 1, -(c + 1)}

\* Every request is served and the call returns.
EveryCallReturns == \A c \in Core : pc[c] # "idle" ~> pc[c] = "idle"
=============================================================================
