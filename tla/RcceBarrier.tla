---------------------------- MODULE RcceBarrier ----------------------------
(***************************************************************************)
(* RCCE_barrier (src/rcce/src/RCCE_synch.c) on one communicator, in the    *)
(* build with one byte per flag, executed by N UEs concurrently.           *)
(*                                                                         *)
(* Ranks 0..N-1 stand for comm->member[0..size-1]; rank 0 is the ROOT.     *)
(* Each UE has one gather flag and one release flag in its own MPB.  A UE  *)
(* flips its own gather flag and keeps the new value in the local          *)
(* variable cycle.  The root polls the gather flags of the others, one     *)
(* remote read per step, restarting whenever a pass did not find all of    *)
(* them equal to its cycle; then it writes cycle into the release flags,   *)
(* one remote write per step.  The others spin on their release flag.      *)
(*                                                                         *)
(* entered and left count, per UE, the barriers it has begun and finished; *)
(* they are history variables that no guard but MaxRounds reads.           *)
(***************************************************************************)
EXTENDS Naturals

CONSTANTS N,          \* comm->size
          MaxRounds   \* bound on the barriers one UE calls (model bound)

ASSUME SizeAssumption == N \in Nat \ {0} /\ MaxRounds \in Nat

Ranks  == 0 .. N-1
ROOT   == 0
Others == Ranks \ {ROOT}

FlagValue == {0, 1}                       \* RCCE_FLAG_UNSET, RCCE_FLAG_SET

VARIABLES gather,     \* gather[r]: byte of comm->gather in r's MPB
          release,    \* release[r]: byte of comm->release in r's MPB
          cycle,      \* cycle[r]: local variable of RCCE_barrier
          pc,         \* pc[r]: where r is
          i,          \* the root's loop index
          counter,    \* the root's count of matching gather flags
          entered,    \* history: barriers begun by r
          left        \* history: barriers finished by r

vars == <<gather, release, cycle, pc, i, counter, entered, left>>

TypeOK ==
  /\ gather  \in [Ranks -> FlagValue]
  /\ release \in [Ranks -> FlagValue]
  /\ cycle   \in [Ranks -> FlagValue]
  /\ pc \in [Ranks -> {"out", "poll", "release", "wait"}]
  /\ \A r \in Others : pc[r] \in {"out", "wait"}
  /\ pc[ROOT] \in {"out", "poll", "release"}
  /\ i \in 1 .. N
  /\ counter \in 1 .. N
  /\ entered \in [Ranks -> 0 .. MaxRounds]
  /\ left    \in [Ranks -> 0 .. MaxRounds]

\* Flags are UNSET at program start (the MPB has been cleared).
Init ==
  /\ gather  = [r \in Ranks |-> 0]
  /\ release = [r \in Ranks |-> 0]
  /\ cycle   = [r \in Ranks |-> 0]
  /\ pc      = [r \in Ranks |-> "out"]
  /\ i = 1
  /\ counter = 1
  /\ entered = [r \in Ranks |-> 0]
  /\ left    = [r \in Ranks |-> 0]

\* The UE flips its own gather flag.  Nobody else writes that byte, so the
\* get_char and the put_char around the flip act as one step.
Enter(r) ==
  /\ pc[r] = "out"
  /\ entered[r] < MaxRounds
  /\ gather'  = [gather  EXCEPT ![r] = 1 - @]
  /\ cycle'   = [cycle   EXCEPT ![r] = 1 - gather[r]]
  /\ pc'      = [pc EXCEPT ![r] = IF r = ROOT THEN "poll" ELSE "wait"]
  /\ entered' = [entered EXCEPT ![r] = @ + 1]
  /\ i' = IF r = ROOT THEN 1 ELSE i
  /\ counter' = IF r = ROOT THEN 1 ELSE counter
  /\ UNCHANGED <<release, left>>

\* One remote read of the polling pass.
PollRead ==
  /\ pc[ROOT] = "poll"
  /\ i < N
  /\ counter' = IF gather[i] = cycle[ROOT] THEN counter + 1 ELSE counter
  /\ i' = i + 1
  /\ UNCHANGED <<gather, release, cycle, pc, entered, left>>

\* Mutation: the pass is content with all but one of the UEs.
PollPassEnd_OneShort ==
  /\ pc[ROOT] = "poll"
  /\ i = N
  /\ IF counter + 1 >= N
     THEN pc' = [pc EXCEPT ![ROOT] = "release"] /\ counter' = counter
     ELSE pc' = pc /\ counter' = 1
  /\ i' = 1
  /\ UNCHANGED <<gather, release, cycle, entered, left>>

\* End of a pass: while (counter != comm->size) decides.
PollPassEnd ==
  /\ pc[ROOT] = "poll"
  /\ i = N
  /\ IF counter = N
     THEN pc' = [pc EXCEPT ![ROOT] = "release"] /\ counter' = counter
     ELSE pc' = pc /\ counter' = 1
  /\ i' = 1
  /\ UNCHANGED <<gather, release, cycle, entered, left>>

\* Mutation: the release flag is always SET instead of following the phase.
ReleaseWrite_AlwaysSet ==
  /\ pc[ROOT] = "release"
  /\ i < N
  /\ release' = [release EXCEPT ![i] = 1]
  /\ i' = i + 1
  /\ UNCHANGED <<gather, cycle, pc, counter, entered, left>>

\* RCCE_flag_write(&(comm->release), cycle, comm->member[i]).
ReleaseWrite ==
  /\ pc[ROOT] = "release"
  /\ i < N
  /\ release' = [release EXCEPT ![i] = cycle[ROOT]]
  /\ i' = i + 1
  /\ UNCHANGED <<gather, cycle, pc, counter, entered, left>>

RootLeave ==
  /\ pc[ROOT] = "release"
  /\ i = N
  /\ pc'   = [pc EXCEPT ![ROOT] = "out"]
  /\ left' = [left EXCEPT ![ROOT] = @ + 1]
  /\ UNCHANGED <<gather, release, cycle, i, counter, entered>>

\* RCCE_wait_until(comm->release, cycle) returns.
WaitLeave(r) ==
  /\ pc[r] = "wait"
  /\ release[r] = cycle[r]
  /\ pc'   = [pc EXCEPT ![r] = "out"]
  /\ left' = [left EXCEPT ![r] = @ + 1]
  /\ UNCHANGED <<gather, release, cycle, i, counter, entered>>

\* Every UE has called MaxRounds barriers.
AllDone ==
  /\ \A r \in Ranks : left[r] = MaxRounds
  /\ UNCHANGED vars

RootStep == PollRead \/ PollPassEnd \/ ReleaseWrite \/ RootLeave

Next ==
  \/ \E r \in Ranks : Enter(r) \/ WaitLeave(r)
  \/ RootStep
  \/ AllDone

Spec == Init /\ [][Next]_vars

\* A UE inside the barrier keeps executing; when, or whether, it calls the
\* barrier is its program's business.
BarrierFairness ==
  /\ WF_vars(RootStep)
  /\ \A r \in Others : WF_vars(WaitLeave(r))

FairSpec == Spec /\ BarrierFairness

-----------------------------------------------------------------------------
(***************************************************************************)
(* Properties                                                              *)
(***************************************************************************)

\* A UE that has finished k barriers knows that every UE has begun k of
\* them: the root's polling loop and the release flags let nobody through
\* early, although flags are reused from one barrier to the next with
\* nothing but their phase telling the rounds apart.
NobodyLeavesEarly ==
  \A r, q \in Ranks : left[r] <= entered[q]

\* The number of releases r has been granted.
Released(r) ==
  IF pc[ROOT] = "release" /\ r < i THEN entered[ROOT] ELSE left[ROOT]

\* The flags are the parities of the round counters.
FlagsArePhases ==
  /\ \A r \in Ranks  : gather[r] = entered[r] % 2 /\ cycle[r] = gather[r]
  /\ \A r \in Others : release[r] = Released(r) % 2

\* A UE is inside the barrier exactly when it has begun one more than it has
\* finished.
InsideIsOneAhead ==
  \A r \in Ranks : entered[r] = IF pc[r] = "out" THEN left[r] ELSE left[r] + 1

\* No UE is more than one phase away from the last release granted to it, so
\* that a parity identifies a round.
OnePhaseApart ==
  \A r \in Others : /\ left[r] <= Released(r)
                    /\ Released(r) <= entered[r]
                    /\ entered[r] <= Released(r) + 1

\* What the root knows from the reads of the current pass, and, after the
\* polling loop, about everybody.
RootKnows ==
  /\ pc[ROOT] = "poll" =>
       /\ counter <= i
       /\ counter = i => \A r \in 1 .. i-1 : entered[r] >= entered[ROOT]
  /\ pc[ROOT] = "release" => \A r \in Ranks : entered[r] >= entered[ROOT]

\* Why the barrier works: the flags of a communicator carry only a parity,
\* and the protocol keeps every UE close enough for the parity to be
\* unambiguous.  This is the inductive invariant of the proofs.
PhaseInv ==
  /\ TypeOK
  /\ FlagsArePhases
  /\ InsideIsOneAhead
  /\ OnePhaseApart
  /\ RootKnows

\* The implementation refines the abstract barrier: begun is arrived,
\* finished is departed.  SyncFairSpec adds that a round everybody has begun
\* is finished by everybody: no lost release, no endless polling.
Sync == INSTANCE BarrierSync WITH Members <- Ranks,
                                  arrived <- entered, departed <- left
SyncSpec     == Sync!SyncSpec
SyncFairSpec == Sync!SyncFairSpec
=============================================================================
