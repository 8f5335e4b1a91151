---------------------------- MODULE BarrierSync ----------------------------
(***************************************************************************)
(* What a barrier promises its callers, independently of how it is built.  *)
(* Every member arrives at round after round and departs from each round   *)
(* at most once.  Nobody departs from a round that some member has not     *)
(* reached, and a member does not arrive again before it has departed.     *)
(***************************************************************************)
EXTENDS Naturals

CONSTANTS Members,    \* the UEs of the communicator
          MaxRounds   \* bound on the barriers one UE passes (model bound)

VARIABLES arrived,    \* arrived[m]: rounds that m has entered
          departed    \* departed[m]: rounds that m has left

syncVars == <<arrived, departed>>

SyncInit ==
  /\ arrived  = [m \in Members |-> 0]
  /\ departed = [m \in Members |-> 0]

Arrive(m) ==
  /\ arrived[m] = departed[m]
  /\ arrived[m] < MaxRounds
  /\ arrived' = [arrived EXCEPT ![m] = @ + 1]
  /\ UNCHANGED departed

\* The promise: the round being left has been entered by everybody.
Depart(m) ==
  /\ departed[m] < arrived[m]
  /\ \A q \in Members : arrived[q] >= arrived[m]
  /\ departed' = [departed EXCEPT ![m] = @ + 1]
  /\ UNCHANGED arrived

SyncNext == \E m \in Members : Arrive(m) \/ Depart(m)

SyncSpec == SyncInit /\ [][SyncNext]_syncVars

\* A round that everybody has entered is eventually left by everybody.
SyncFairSpec == SyncSpec /\ \A m \in Members : WF_syncVars(Depart(m))
=============================================================================
