---------------------------- MODULE MCCommSplit ----------------------------
(***************************************************************************)
(* Programs for the model checking of RcceCommSplit with three UEs.        *)
(***************************************************************************)
EXTENDS RcceCommSplit

Split(c0, c1, c2) ==
  [op |-> "split", color |-> [u \in UE |-> CASE u = 0 -> c0
                                             [] u = 1 -> c1
                                             [] OTHER -> c2]]
Barrier(who) == [op |-> "barrier", who |-> who]

OnePart   == Split(0, 0, 0)
OneAndTwo == Split(0, 1, 1)
TwoAndOne == Split(0, 0, 1)
Outer     == Split(0, 1, 0)

\* The communicator is overwritten only when every UE has called its barrier
\* an even number of times since the last split, or with the membership
\* it already has.
EvenScripts ==
  { <<OneAndTwo, Barrier({1, 2}), Barrier({1, 2}), OnePart, Barrier({0, 1, 2})>>,
    <<Outer, Barrier({0, 1, 2}), Barrier({0, 1, 2}), TwoAndOne, Barrier({0, 1}),
      Barrier({2})>>,
    <<OneAndTwo, Barrier({1, 2}), OneAndTwo, Barrier({0}), Barrier({1, 2})>>,
    <<OnePart, OneAndTwo, TwoAndOne, Barrier({0, 1}), Barrier({0, 1})>> }

ASSUME EvenIsCareful == \A s \in EvenScripts : Careful(s)

\* Every UE calls the barrier of its part exactly once; then the communicator
\* is overwritten with a different membership.
OverwritingScripts ==
  { <<OneAndTwo, Barrier({0, 1, 2}), OnePart, Barrier({0, 1, 2})>> }

ASSUME OverwritingIsNot == \A s \in OverwritingScripts : ~Careful(s)
=============================================================================
