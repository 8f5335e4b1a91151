------------------------- MODULE RcceBarrierProofs -------------------------
(***************************************************************************)
(* Proofs about RcceBarrier, for every number of UEs and of rounds.        *)
(* The inductive invariant is PhaseInv.                                    *)
(***************************************************************************)
EXTENDS RcceBarrier, TLAPS

\* Adding one flips a parity, and parities of neighbours differ: the facts
\* about the one-bit phases of RCCE_barrier that all steps rest on.
LEMMA Parity ==
  ASSUME NEW a \in Nat
  PROVE  /\ a % 2 \in {0, 1}
         /\ (a + 1) % 2 = 1 - (a % 2)
  OBVIOUS

\* Two numbers at most one apart are equal when their parities are.
LEMMA SameParity ==
  ASSUME NEW a \in Nat, NEW b \in Nat, a <= b, b <= a + 1, a % 2 = b % 2
  PROVE  a = b
  <1>1. CASE b = a + 1
    BY <1>1, Parity
  <1>2. CASE b # a + 1
    BY <1>2
  <1> QED BY <1>1, <1>2

LEMMA InitPhase == Init => PhaseInv
  BY SizeAssumption DEF Init, PhaseInv, TypeOK, FlagsArePhases, Released,
     InsideIsOneAhead, OnePhaseApart, RootKnows, Ranks, Others, ROOT, FlagValue

\* Which numbers are ranks.
LEMMA RankFacts ==
  /\ ROOT \in Ranks /\ ROOT \notin Others
  /\ \A r : r \in Ranks <=> r = ROOT \/ r \in Others
  /\ \A r : r \in Others <=> r \in 1 .. N-1
  /\ N \in Nat /\ N >= 1
  BY SizeAssumption DEF Ranks, Others, ROOT

\* Every step of a UE preserves the inductive invariant.
LEMMA NextPhase == PhaseInv /\ [Next]_vars => PhaseInv'
  <1> SUFFICES ASSUME PhaseInv, [Next]_vars
               PROVE  PhaseInv'
    OBVIOUS
  <1> USE SizeAssumption, RankFacts DEF FlagValue
  <1>0. /\ TypeOK /\ FlagsArePhases /\ InsideIsOneAhead
        /\ OnePhaseApart /\ RootKnows
    BY DEF PhaseInv
  <1>1. ASSUME NEW r \in Ranks, Enter(r)
        PROVE  PhaseInv'
    <2>1. TypeOK'
      <3>1. 1 - gather[r] \in FlagValue /\ entered[r] + 1 \in 0 .. MaxRounds
        BY <1>0, <1>1 DEF TypeOK, Enter
      <3>2. gather' \in [Ranks -> FlagValue] /\ cycle' \in [Ranks -> FlagValue]
        BY <1>0, <1>1, <3>1 DEF TypeOK, Enter
      <3>3. entered' \in [Ranks -> 0 .. MaxRounds]
        BY <1>0, <1>1, <3>1 DEF TypeOK, Enter
      <3>4. /\ pc' \in [Ranks -> {"out", "poll", "release", "wait"}]
            /\ \A q \in Others : pc'[q] \in {"out", "wait"}
            /\ pc'[ROOT] \in {"out", "poll", "release"}
        BY <1>0, <1>1 DEF TypeOK, Enter
      <3>5. i' \in 1 .. N /\ counter' \in 1 .. N
        BY <1>0, <1>1 DEF TypeOK, Enter
      <3> QED
        BY <1>0, <1>1, <3>2, <3>3, <3>4, <3>5 DEF TypeOK, Enter
    <2>2. entered'[r] = entered[r] + 1 /\ gather'[r] = 1 - gather[r]
      BY <1>0, <1>1 DEF TypeOK, Enter
    <2>3. gather'[r] = entered'[r] % 2
      <3>1. entered[r] \in Nat /\ gather[r] = entered[r] % 2
        BY <1>0 DEF TypeOK, FlagsArePhases
      <3>2. (entered[r] + 1) % 2 = 1 - (entered[r] % 2)
        BY <3>1, Parity
      <3> QED BY <2>2, <3>1, <3>2
    <2>4. \A q \in Others : Released(q)' = Released(q)
      BY <1>0, <1>1 DEF TypeOK, Enter, Released
    <2>5. FlagsArePhases'
      BY <1>0, <1>1, <2>3, <2>4 DEF TypeOK, Enter, FlagsArePhases
    <2>6. InsideIsOneAhead'
      BY <1>0, <1>1 DEF TypeOK, Enter, InsideIsOneAhead
    <2>7. OnePhaseApart'
      <3>1. \A q \in Others : Released(q) \in Nat
        BY <1>0 DEF TypeOK, Released
      <3> QED
        BY <1>0, <1>1, <2>4, <3>1
           DEF TypeOK, Enter, OnePhaseApart, InsideIsOneAhead
    <2>8. RootKnows'
      BY <1>0, <1>1 DEF TypeOK, Enter, RootKnows, InsideIsOneAhead
    <2> QED BY <2>1, <2>5, <2>6, <2>7, <2>8 DEF PhaseInv
  <1>2. ASSUME NEW r \in Ranks, WaitLeave(r)
        PROVE  PhaseInv'
    <2>1. TypeOK'
      <3>1. left[r] + 1 <= MaxRounds
        BY <1>0, <1>2 DEF TypeOK, WaitLeave, InsideIsOneAhead
      <3> QED BY <1>0, <1>2, <3>1 DEF TypeOK, WaitLeave
    <2>2. r \in Others
      BY <1>0, <1>2 DEF TypeOK, WaitLeave
    <2>3. \A q \in Others : Released(q)' = Released(q)
      BY <1>0, <1>2, <2>2 DEF TypeOK, WaitLeave, Released
    <2>4. Released(r) \in Nat /\ entered[r] \in Nat
      BY <1>0, <2>2 DEF TypeOK, Released
    <2>5. Released(r) = entered[r]
      <3>1. Released(r) % 2 = entered[r] % 2
        BY <1>0, <1>2, <2>2 DEF FlagsArePhases, WaitLeave
      <3>2. Released(r) <= entered[r] /\ entered[r] <= Released(r) + 1
        BY <1>0, <2>2 DEF OnePhaseApart
      <3> QED BY <2>4, <3>1, <3>2, SameParity
    <2>6. FlagsArePhases'
      BY <1>0, <1>2, <2>3 DEF TypeOK, WaitLeave, FlagsArePhases
    <2>7. InsideIsOneAhead'
      BY <1>0, <1>2 DEF TypeOK, WaitLeave, InsideIsOneAhead
    <2>8. OnePhaseApart'
      BY <1>0, <1>2, <2>3, <2>5 DEF TypeOK, WaitLeave, OnePhaseApart, InsideIsOneAhead
    <2>9. RootKnows'
      BY <1>0, <1>2, <2>2 DEF TypeOK, WaitLeave, RootKnows
    <2> QED BY <2>1, <2>6, <2>7, <2>8, <2>9 DEF PhaseInv
  <1>3. CASE PollRead
    <2>1. TypeOK'
      BY <1>0, <1>3 DEF TypeOK, PollRead, RootKnows
    <2>2. \A q \in Others : Released(q)' = Released(q)
      BY <1>0, <1>3 DEF TypeOK, PollRead, Released
    <2>3. FlagsArePhases' /\ InsideIsOneAhead' /\ OnePhaseApart'
      BY <1>0, <1>3, <2>2
         DEF TypeOK, PollRead, FlagsArePhases, InsideIsOneAhead, OnePhaseApart
    <2>4. gather[i] = cycle[ROOT] => entered[i] = entered[ROOT]
      <3>1. i \in Others /\ entered[i] \in Nat /\ entered[ROOT] \in Nat /\ left[ROOT] \in Nat
        BY <1>0, <1>3 DEF TypeOK, PollRead
      <3>2. entered[ROOT] = left[ROOT] + 1
        BY <1>0, <1>3 DEF TypeOK, PollRead, InsideIsOneAhead
      <3>3. left[ROOT] <= entered[i] /\ entered[i] <= entered[ROOT]
        BY <1>0, <1>3, <3>1, <3>2 DEF PollRead, OnePhaseApart, Released
      <3>4. SUFFICES ASSUME gather[i] = cycle[ROOT] PROVE entered[i] = entered[ROOT]
        OBVIOUS
      <3>5. entered[i] % 2 = entered[ROOT] % 2
        BY <1>0, <3>1, <3>4 DEF FlagsArePhases
      <3> QED BY <3>1, <3>2, <3>3, <3>5, SameParity
    <2>5. RootKnows'
      BY <1>0, <1>3, <2>4 DEF TypeOK, PollRead, RootKnows
    <2> QED BY <2>1, <2>3, <2>5 DEF PhaseInv
  <1>4. CASE PollPassEnd
    <2>1. TypeOK'
      BY <1>0, <1>4 DEF TypeOK, PollPassEnd
    <2>2. \A q \in Others : Released(q)' = Released(q)
      BY <1>0, <1>4 DEF TypeOK, PollPassEnd, Released
    <2>3. FlagsArePhases' /\ OnePhaseApart'
      BY <1>0, <1>4, <2>2 DEF TypeOK, PollPassEnd, FlagsArePhases, OnePhaseApart
    <2>4. InsideIsOneAhead'
      BY <1>0, <1>4 DEF TypeOK, PollPassEnd, InsideIsOneAhead
    <2>5. RootKnows'
      BY <1>0, <1>4 DEF TypeOK, PollPassEnd, RootKnows
    <2> QED BY <2>1, <2>3, <2>4, <2>5 DEF PhaseInv
  <1>5. CASE ReleaseWrite
    <2>1. TypeOK'
      BY <1>0, <1>5 DEF TypeOK, ReleaseWrite
    <2>2. PICK k \in Others : k = i
      BY <1>0, <1>5 DEF TypeOK, ReleaseWrite
    <2>3. /\ \A q \in Others : q # k => Released(q)' = Released(q)
          /\ Released(k)' = entered[ROOT]
          /\ Released(k) = left[ROOT]
      BY <1>0, <1>5, <2>2 DEF TypeOK, ReleaseWrite, Released
    <2>4. FlagsArePhases'
      <3>1. release' = [release EXCEPT ![k] = entered[ROOT] % 2]
        BY <1>0, <1>5, <2>2 DEF ReleaseWrite, FlagsArePhases
      <3> QED
        BY <1>0, <1>5, <2>3, <3>1 DEF TypeOK, ReleaseWrite, FlagsArePhases
    <2>5. InsideIsOneAhead'
      BY <1>0, <1>5 DEF TypeOK, ReleaseWrite, InsideIsOneAhead
    <2>6. OnePhaseApart'
      <3>1. entered[ROOT] = left[ROOT] + 1 /\ entered[k] >= entered[ROOT]
        BY <1>0, <1>5, <2>2 DEF ReleaseWrite, InsideIsOneAhead, RootKnows
      <3>2. /\ left[ROOT] \in Nat
            /\ \A q \in Ranks : left[q] \in Nat /\ entered[q] \in Nat
        BY <1>0 DEF TypeOK
      <3>3. /\ left[k] <= entered[ROOT]
            /\ entered[k] <= entered[ROOT] + 1
        BY <1>0, <2>3, <3>1, <3>2 DEF OnePhaseApart
      <3>4. UNCHANGED <<entered, left>>
        BY <1>5 DEF ReleaseWrite
      <3>5. ASSUME NEW q \in Others
            PROVE  /\ left'[q] <= Released(q)'
                   /\ Released(q)' <= entered'[q]
                   /\ entered'[q] <= Released(q)' + 1
        <4>1. CASE q = k
          BY <2>3, <3>1, <3>2, <3>3, <3>4, <4>1
        <4>2. CASE q # k
          BY <1>0, <2>3, <3>4, <4>2 DEF OnePhaseApart
        <4> QED BY <4>1, <4>2
      <3> QED BY <3>5 DEF OnePhaseApart
    <2>7. RootKnows'
      BY <1>0, <1>5 DEF TypeOK, ReleaseWrite, RootKnows
    <2> QED BY <2>1, <2>4, <2>5, <2>6, <2>7 DEF PhaseInv
  <1>6. CASE RootLeave
    <2>1. entered[ROOT] = left[ROOT] + 1
      BY <1>0, <1>6 DEF TypeOK, RootLeave, InsideIsOneAhead
    <2>2. TypeOK'
      BY <1>0, <1>6, <2>1 DEF TypeOK, RootLeave
    <2>3. \A q \in Others : Released(q)' = Released(q)
      BY <1>0, <1>6, <2>1 DEF TypeOK, RootLeave, Released
    <2>4. FlagsArePhases' /\ OnePhaseApart'
      BY <1>0, <1>6, <2>3 DEF TypeOK, RootLeave, FlagsArePhases, OnePhaseApart
    <2>5. InsideIsOneAhead'
      BY <1>0, <1>6, <2>1 DEF TypeOK, RootLeave, InsideIsOneAhead
    <2>6. RootKnows'
      BY <1>0, <1>6 DEF TypeOK, RootLeave, RootKnows
    <2> QED BY <2>2, <2>4, <2>5, <2>6 DEF PhaseInv
  <1>7. CASE UNCHANGED vars
    BY <1>0, <1>7 DEF vars, PhaseInv, TypeOK, FlagsArePhases, Released,
       InsideIsOneAhead, OnePhaseApart, RootKnows
  <1> QED
    BY <1>1, <1>2, <1>3, <1>4, <1>5, <1>6, <1>7 DEF Next, RootStep, AllDone

\* RCCE_barrier keeps its flags, its counters and the root's knowledge in
\* step: PhaseInv holds for any number of UEs and any number of barriers.
THEOREM PhasesStayInStep == Spec => []PhaseInv
  BY InitPhase, NextPhase, PTL DEF Spec

\* In particular every variable keeps its type, the root's counter among
\* them: it never exceeds comm->size.
THEOREM TypeCorrect == Spec => []TypeOK
  <1>1. PhaseInv => TypeOK
    BY DEF PhaseInv
  <1> QED BY <1>1, PhasesStayInStep, PTL

LEMMA PhaseImpliesSafe == PhaseInv => NobodyLeavesEarly
  <1> SUFFICES ASSUME PhaseInv, NEW r \in Ranks, NEW q \in Ranks
               PROVE  left[r] <= entered[q]
    BY DEF NobodyLeavesEarly
  <1> USE SizeAssumption DEF Ranks, Others, ROOT
  <1>1. \A p \in Ranks : left[p] \in Nat /\ entered[p] \in Nat
    BY DEF PhaseInv, TypeOK
  <1>2. left[ROOT] <= entered[q]
    BY <1>1 DEF PhaseInv, InsideIsOneAhead, OnePhaseApart, Released, TypeOK, RootKnows
  <1>3. CASE r = ROOT
    BY <1>2, <1>3
  <1>4. CASE r # ROOT
    <2>1. left[r] <= Released(r) /\ Released(r) \in Nat
      BY <1>1, <1>4 DEF PhaseInv, OnePhaseApart, Released
    <2>2. Released(r) <= entered[q]
      BY <1>1, <1>2, <1>4 DEF PhaseInv, Released, RootKnows
    <2> QED BY <1>1, <2>1, <2>2
  <1> QED BY <1>3, <1>4

\* No UE ever leaves the k-th barrier before all UEs have entered it.
THEOREM BarrierSafe == Spec => []NobodyLeavesEarly
  BY PhasesStayInStep, PhaseImpliesSafe, PTL

\* RCCE_barrier implements the abstract barrier: each step arrives, departs
\* or leaves the abstract state alone.
THEOREM BarrierRefines == Spec => SyncSpec
  <1>1. Init => Sync!SyncInit
    BY DEF Init, Sync!SyncInit
  <1>2. PhaseInv' => NobodyLeavesEarly'
    BY PhaseImpliesSafe, PTL
  <1>3. PhaseInv /\ PhaseInv' /\ [Next]_vars => [Sync!SyncNext]_(Sync!syncVars)
    <2> SUFFICES ASSUME PhaseInv, PhaseInv', [Next]_vars
                 PROVE  [Sync!SyncNext]_(Sync!syncVars)
      OBVIOUS
    <2> USE SizeAssumption, RankFacts
    <2>0. /\ \A r, q \in Ranks : left'[r] <= entered'[q]
          /\ \A r \in Ranks : left[r] \in Nat /\ entered[r] \in Nat
      <3>1. NobodyLeavesEarly'
        BY <1>2
      <3>2. \A r, q \in Ranks : left'[r] <= entered'[q]
        BY <3>1 DEF NobodyLeavesEarly, Ranks
      <3>3. TypeOK
        BY DEF PhaseInv
      <3> QED BY <3>2, <3>3 DEF TypeOK
    <2>1. ASSUME NEW r \in Ranks, Enter(r)
          PROVE  Sync!Arrive(r)
      BY <2>1 DEF Enter, Sync!Arrive, PhaseInv, InsideIsOneAhead
    <2>2. ASSUME NEW r \in Ranks, pc[r] # "out",
                 left' = [left EXCEPT ![r] = @ + 1], entered' = entered
          PROVE  Sync!Depart(r)
      <3>1. entered[r] = left[r] + 1
        BY <2>2 DEF PhaseInv, InsideIsOneAhead
      <3>2. left'[r] = left[r] + 1
        BY <2>2 DEF PhaseInv, TypeOK
      <3> QED BY <2>0, <2>2, <3>1, <3>2 DEF Sync!Depart
    <2>3. ASSUME NEW r \in Ranks, WaitLeave(r)
          PROVE  Sync!Depart(r)
      BY <2>2, <2>3 DEF WaitLeave
    <2>4. ASSUME RootLeave
          PROVE  Sync!Depart(ROOT)
      BY <2>2, <2>4 DEF RootLeave
    <2>5. ASSUME PollRead \/ PollPassEnd \/ ReleaseWrite \/ UNCHANGED vars
          PROVE  UNCHANGED Sync!syncVars
      BY <2>5 DEF PollRead, PollPassEnd, ReleaseWrite, vars, Sync!syncVars
    <2>6. ROOT \in Ranks
      OBVIOUS
    <2> QED
      BY <2>1, <2>3, <2>4, <2>5, <2>6 DEF Next, RootStep, AllDone, Sync!SyncNext
  <1> QED BY <1>1, <1>3, PhasesStayInStep, PTL DEF Spec, SyncSpec, Sync!SyncSpec
=============================================================================
