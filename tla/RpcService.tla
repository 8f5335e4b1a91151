----------------------------- MODULE RpcService -----------------------------
(***************************************************************************)
(* What the emulator's queue for the voltage regulator promises: requests  *)
(* are served in the order in which they were queued, one at a time, and   *)
(* the regulator rests for its latency after each.                         *)
(***************************************************************************)
EXTENDS Naturals, Sequences

CONSTANT Master   \* the masters of the voltage domains

VARIABLES waiting,  \* the masters whose requests are queued, in order
          rested    \* the latency of the request served last has passed

Init == waiting = <<>> /\ rested = FALSE

\* A master queues up, at most once at a time.
Request(m) ==
  /\ \A i \in 1 .. Len(waiting) : waiting[i] # m
  /\ waiting' = Append(waiting, m)
  /\ UNCHANGED rested

\* The request of the master at the head is served.
Serve ==
  /\ waiting # <<>> /\ rested
  /\ waiting' = Tail(waiting)
  /\ rested' = FALSE

Rest == ~rested /\ rested' = TRUE /\ UNCHANGED waiting

Next == (\E m \in Master : Request(m)) \/ Serve \/ Rest

Spec == Init /\ [][Next]_<<waiting, rested>>
=============================================================================
