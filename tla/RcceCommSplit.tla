--------------------------- MODULE RcceCommSplit ---------------------------
(***************************************************************************)
(* RCCE_comm_split (src/rcce/src/RCCE_comm.c) composed with RCCE_barrier   *)
(* (src/rcce/src/RCCE_synch.c): NP UEs split the global communicator,      *)
(* synchronise inside the parts, and split again into the same RCCE_COMM   *)
(* variable, which keeps the flags of its first initialisation.            *)
(*                                                                         *)
(* All UEs run the same SPMD program, a script of calls.  A "split" step   *)
(* gives every UE a color; a "barrier" step names the UEs that call        *)
(* RCCE_barrier on their part (whole parts call it, the others skip the    *)
(* step).  Flags are one byte each; there are two communicators, "world"   *)
(* and "comm", each with a gather and a release flag in every MPB.         *)
(***************************************************************************)
EXTENDS Integers, Sequences, FiniteSets

CONSTANTS NP,        \* RCCE_NP
          Scripts    \* the programs considered

UE == 0 .. NP-1

ProgramStep == [op : {"split"}, color : [UE -> Int]] \cup [op : {"barrier"}, who : SUBSET UE]

ASSUME ScriptAssumption == NP \in Nat \ {0} /\ Scripts \subseteq Seq(ProgramStep)

VARIABLES script,       \* the program, the same for all UEs
          pos,          \* pos[u]: the step u is in or about to begin
          pc,           \* pc[u]: "run" between two calls, else inside a barrier
          on,           \* on[u]: the communicator u's barrier works on
          gather, release,       \* [communicator][UE] -> byte in the MPB
          cycle, i, counter,     \* locals of RCCE_barrier
          member,       \* member[u]: u's copy of comm.member
          initialized   \* initialized[u]: u's copy of comm.initialized

vars == <<script, pos, pc, on, gather, release, cycle, i, counter, member,
          initialized>>

Comms == {"world", "comm"}

\* The members of communicator c as u sees them, in rank order.
MembersOf(u, c) ==
  IF c = "world" THEN [k \in 1 .. NP |-> k - 1] ELSE member[u]

RootOf(u, c) == MembersOf(u, c)[1]

Init ==
  /\ script \in Scripts
  /\ pos = [u \in UE |-> 1]
  /\ pc  = [u \in UE |-> "run"]
  /\ on  = [u \in UE |-> "world"]
  /\ gather  = [c \in Comms |-> [u \in UE |-> 0]]
  /\ release = [c \in Comms |-> [u \in UE |-> 0]]
  /\ cycle   = [u \in UE |-> 0]
  /\ i       = [u \in UE |-> 1]
  /\ counter = [u \in UE |-> 1]
  /\ member  = [u \in UE |-> <<>>]
  /\ initialized = [u \in UE |-> FALSE]

Running(u) == pc[u] = "run" /\ pos[u] <= Len(script)
Call(u)    == script[pos[u]]

\* u flips its gather flag of c and goes to poll or to wait.
EnterBarrier(u, c) ==
  /\ gather'  = [gather EXCEPT ![c][u] = 1 - @]
  /\ cycle'   = [cycle EXCEPT ![u] = 1 - gather[c][u]]
  /\ pc'      = [pc EXCEPT ![u] = IF u = RootOf(u, c) THEN "poll" ELSE "wait"]
  /\ on'      = [on EXCEPT ![u] = c]
  /\ i'       = [i EXCEPT ![u] = 1]
  /\ counter' = [counter EXCEPT ![u] = 1]
  /\ UNCHANGED <<script, pos, release, member, initialized>>

\* RCCE_comm_split begins with a barrier of all UEs.
BeginSplit(u) ==
  /\ Running(u)
  /\ Call(u).op = "split"
  /\ EnterBarrier(u, "world")

BeginBarrier(u) ==
  /\ Running(u)
  /\ Call(u).op = "barrier"
  /\ u \in Call(u).who
  /\ initialized[u]
  /\ EnterBarrier(u, "comm")

\* u's part does not call the barrier of this step.
SkipBarrier(u) ==
  /\ Running(u)
  /\ Call(u).op = "barrier"
  /\ u \notin Call(u).who
  /\ pos' = [pos EXCEPT ![u] = @ + 1]
  /\ UNCHANGED <<script, pc, on, gather, release, cycle, i, counter, member,
                 initialized>>

\* One remote read of the root's polling pass.
PollRead(u) ==
  LET m == MembersOf(u, on[u]) IN
  /\ pc[u] = "poll"
  /\ i[u] < Len(m)
  /\ counter' = [counter EXCEPT ![u] =
                   IF gather[on[u]][m[i[u] + 1]] = cycle[u] THEN @ + 1 ELSE @]
  /\ i' = [i EXCEPT ![u] = @ + 1]
  /\ UNCHANGED <<script, pos, pc, on, gather, release, cycle, member, initialized>>

\* End of a pass over the gather flags.
PollPassEnd(u) ==
  LET size == Len(MembersOf(u, on[u])) IN
  /\ pc[u] = "poll"
  /\ i[u] = size
  /\ pc' = [pc EXCEPT ![u] = IF counter[u] = size THEN "release" ELSE "poll"]
  /\ counter' = [counter EXCEPT ![u] = IF @ = size THEN @ ELSE 1]
  /\ i' = [i EXCEPT ![u] = 1]
  /\ UNCHANGED <<script, pos, on, gather, release, cycle, member, initialized>>

\* Mutation: the release flag is always SET instead of following the phase.
ReleaseWrite_AlwaysSet(u) ==
  LET m == MembersOf(u, on[u]) IN
  /\ pc[u] = "release"
  /\ i[u] < Len(m)
  /\ release' = [release EXCEPT ![on[u]][m[i[u] + 1]] = 1]
  /\ i' = [i EXCEPT ![u] = @ + 1]
  /\ UNCHANGED <<script, pos, pc, on, gather, cycle, counter, member, initialized>>

\* One remote write of a release flag.
ReleaseWrite(u) ==
  LET m == MembersOf(u, on[u]) IN
  /\ pc[u] = "release"
  /\ i[u] < Len(m)
  /\ release' = [release EXCEPT ![on[u]][m[i[u] + 1]] = cycle[u]]
  /\ i' = [i EXCEPT ![u] = @ + 1]
  /\ UNCHANGED <<script, pos, pc, on, gather, cycle, counter, member, initialized>>

\* The UEs of S in the order of their global ranks.
Ranked(S) ==
  [k \in 1 .. Cardinality(S) |-> CHOOSE v \in S : Cardinality({w \in S : w < v}) = k - 1]

\* Mutation: the new communicator starts from the members it had before.
SameColor_KeepsOld(u, color) ==
  IF initialized[u] THEN member[u]
  ELSE Ranked({v \in UE : color[v] = color[u]})

\* The UEs of u's color.
SameColor(u, color) == Ranked({v \in UE : color[v] = color[u]})

\* What follows the barrier of the call: comm_split recomputes the members
\* and marks the communicator initialised (its flags are allocated only the
\* first time: the bytes in the MPB keep their values); a plain barrier just
\* returns.
FinishCall(u) ==
  /\ pc'  = [pc  EXCEPT ![u] = "run"]
  /\ pos' = [pos EXCEPT ![u] = @ + 1]
  /\ IF Call(u).op = "split"
     THEN /\ member' = [member EXCEPT ![u] = SameColor(u, Call(u).color)]
          /\ initialized' = [initialized EXCEPT ![u] = TRUE]
     ELSE UNCHANGED <<member, initialized>>
  /\ UNCHANGED <<script, on, gather, release, cycle, i, counter>>

RootLeave(u) ==
  /\ pc[u] = "release"
  /\ i[u] = Len(MembersOf(u, on[u]))
  /\ FinishCall(u)

WaitLeave(u) ==
  /\ pc[u] = "wait"
  /\ release[on[u]][u] = cycle[u]
  /\ FinishCall(u)

\* All UEs have reached the end of the program.
AllDone ==
  /\ \A u \in UE : pos[u] = Len(script) + 1
  /\ UNCHANGED vars

Step(u) ==
  \/ BeginSplit(u) \/ BeginBarrier(u) \/ SkipBarrier(u)
  \/ PollRead(u) \/ PollPassEnd(u) \/ ReleaseWrite(u)
  \/ RootLeave(u) \/ WaitLeave(u)

Next == (\E u \in UE : Step(u)) \/ AllDone

Spec == Init /\ [][Next]_vars

\* Every UE keeps executing its program.
FairSpec == Spec /\ \A u \in UE : WF_vars(Step(u))

-----------------------------------------------------------------------------
(***************************************************************************)
(* Properties                                                              *)
(***************************************************************************)

\* u has begun the call of step k.
Begun(u, k) == pos[u] > k \/ (pos[u] = k /\ pc[u] # "run")

\* The part of u in step k: the UEs of its color in the latest split.
PartAt(u, k) ==
  LET last == CHOOSE j \in 1 .. k :
                /\ script[j].op = "split"
                /\ \A m \in j+1 .. k : script[m].op # "split"
  IN  {v \in UE : script[last].color[v] = script[last].color[u]}

Participants(u, k) ==
  IF script[k].op = "split" THEN UE ELSE PartAt(u, k) \cap script[k].who

\* Step j is the last split before step k; the part of u in split j; the steps
\* before k in which u calls RCCE_barrier on its part.
Latest(s, j, k) == /\ j \in 1 .. k - 1 /\ s[j].op = "split"
                   /\ \A m \in j + 1 .. k - 1 : s[m].op # "split"
Part(s, j, u)     == {v \in UE : s[j].color[v] = s[j].color[u]}
Barriers(s, u, k) == {m \in 1 .. k - 1 : s[m].op = "barrier" /\ u \in s[m].who}

\* The programs for which it is safe to overwrite a communicator: barriers are
\* called after a split and by whole parts, and a UE whose part is changed has
\* called an even number of them.
Careful(s) ==
  \A k \in 1 .. Len(s) :
    /\ s[k].op = "barrier" =>
         \E j \in 1 .. k : Latest(s, j, k) /\ \A u \in s[k].who : Part(s, j, u) \subseteq s[k].who
    /\ s[k].op = "split" =>
         \A j \in 1 .. k, u \in UE : Latest(s, j, k) =>
           Part(s, k, u) = Part(s, j, u) \/ Cardinality(Barriers(s, u, k)) % 2 = 0

\* A UE that has returned from a barrier, in whatever communicator it was
\* called, or from a split, knows that all its fellow participants have at
\* least entered it.
CallsSynchronise ==
  \A u \in UE : \A k \in 1 .. pos[u] - 1 :
     u \in Participants(u, k) => \A v \in Participants(u, k) : Begun(v, k)

\* Every UE reaches the end of the program: no split and no barrier hangs.
ProgramTerminates == <>(\A u \in UE : pos[u] = Len(script) + 1)
=============================================================================
