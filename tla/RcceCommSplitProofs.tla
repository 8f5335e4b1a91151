------------------------ MODULE RcceCommSplitProofs ------------------------
(***************************************************************************)
(* Theorems about RcceCommSplit: with programs that overwrite a            *)
(* communicator only when it is safe to, every barrier of every            *)
(* communicator synchronises its members, for any number of UEs and any    *)
(* such program.                                                           *)
(***************************************************************************)
EXTENDS RcceCommSplit, FiniteSetTheorems, WellFoundedInduction, TLAPS

Good(s) == s \in Seq(ProgramStep) /\ Careful(s)

\* In step k of program s, u enters a barrier of communicator c.
On(s, c, k, u) == /\ k \in 1 .. Len(s)
                  /\ IF c = "world" THEN s[k].op = "split"
                                    ELSE s[k].op = "barrier" /\ u \in s[k].who

\* The steps before k in which it does, and the value of its gather flag then.
Made(s, c, u, k)  == {m \in 1 .. k - 1 : On(s, c, m, u)}
Phase(s, c, u, k) == Cardinality(Made(s, c, u, k)) % 2

\* The members of c in step k, as the program has it.
Last(s, k) == CHOOSE j \in 1 .. k : Latest(s, j, k)
MembersAt(s, c, k, u) == IF c = "world" THEN [j \in 1 .. NP |-> j - 1]
                                        ELSE Ranked(Part(s, Last(s, k), u))
RootAt(s, c, k, u) == MembersAt(s, c, k, u)[1]

-----------------------------------------------------------------------------
(***************************************************************************)
(* The members of a communicator.                                          *)
(***************************************************************************)
LEMMA UEFinite == IsFiniteSet(UE) /\ UE \subseteq Nat
<1>1. NP \in Nat /\ NP > 0
  BY ScriptAssumption
<1>2. QED
  BY <1>1, FS_Interval DEF UE

\* m lists the members of S, each of them once.
Lists(m, S) ==
  /\ m \in Seq(S) /\ Len(m) \in Nat /\ Len(m) >= 1
  /\ \A x, y \in 1 .. Len(m) : m[x] = m[y] => x = y
  /\ \A u \in S : \E x \in 1 .. Len(m) : m[x] = u

Smaller(S, v) == {w \in S : w < v}
Rank(S, v)    == Cardinality(Smaller(S, v))

LEMMA RankIs ==
  ASSUME NEW S \in SUBSET UE, NEW v \in S
  PROVE  /\ IsFiniteSet(Smaller(S, v))
         /\ Rank(S, v) \in Nat
         /\ Rank(S, v) < Cardinality(S) /\ Cardinality(S) \in Nat
<1>1. IsFiniteSet(S)
  BY UEFinite, FS_Subset
<1>2. Smaller(S, v) \subseteq S /\ v \notin Smaller(S, v)
  BY UEFinite DEF Smaller
<1>3. /\ IsFiniteSet(Smaller(S, v)) /\ Cardinality(Smaller(S, v)) <= Cardinality(S)
      /\ Cardinality(S) # Cardinality(Smaller(S, v))
  BY <1>1, <1>2, FS_Subset
<1>4. Cardinality(S) \in Nat /\ Cardinality(Smaller(S, v)) \in Nat
  BY <1>1, <1>3, FS_CardinalityType
<1>5. QED
  BY <1>3, <1>4 DEF Rank

LEMMA RankGrows ==
  ASSUME NEW S \in SUBSET UE, NEW v \in S, NEW w \in S, v < w
  PROVE  Rank(S, v) < Rank(S, w)
<1>0. S \subseteq Nat /\ v \in Nat /\ w \in Nat
  BY UEFinite
<1>1. Smaller(S, v) \subseteq Smaller(S, w) /\ v \in Smaller(S, w) /\ v \notin Smaller(S, v)
  <2>1. ASSUME NEW x \in S, x < v PROVE x < w
    BY <1>0, <2>1
  <2>2. ~(v < v)
    BY <1>0
  <2>3. QED
    BY <2>1, <2>2 DEF Smaller
<1>2. IsFiniteSet(Smaller(S, w))
  BY RankIs
<1>3. /\ Cardinality(Smaller(S, v)) <= Cardinality(Smaller(S, w))
      /\ Cardinality(Smaller(S, v)) # Cardinality(Smaller(S, w))
  BY <1>1, <1>2, FS_Subset
<1>4. Rank(S, v) \in Nat /\ Rank(S, w) \in Nat
  BY RankIs
<1>5. QED
  BY <1>3, <1>4 DEF Rank

LEMMA RankedLists ==
  ASSUME NEW S \in SUBSET UE, S # {}
  PROVE  Lists(Ranked(S), S)
<1> DEFINE n == Cardinality(S)
           f == [v \in S |-> Rank(S, v) + 1]
           m == Ranked(S)
<1>1. IsFiniteSet(S) /\ n \in Nat
  BY UEFinite, FS_Subset, FS_CardinalityType
<1>2. ASSUME NEW v \in S PROVE f[v] \in 1 .. n
  BY <1>1, RankIs
<1>3. ASSUME NEW v \in S, NEW w \in S, Rank(S, v) = Rank(S, w) PROVE v = w
  <2>1. v \in Nat /\ w \in Nat /\ Rank(S, v) \in Nat
    BY UEFinite, RankIs
  <2>2. ~(v < w) /\ ~(w < v)
    BY <1>3, <2>1, RankGrows
  <2>3. QED
    BY <2>1, <2>2
<1>4. f \in Injection(S, 1 .. n)
  <2>1. ASSUME NEW v \in S, NEW w \in S, f[v] = f[w] PROVE v = w
    <3>1. Rank(S, v) \in Nat /\ Rank(S, w) \in Nat
      BY RankIs
    <3>2. Rank(S, v) = Rank(S, w)
      BY <2>1, <3>1
    <3>3. QED
      BY <1>3, <3>2
  <2>2. f \in [S -> 1 .. n]
    BY <1>2
  <2>3. QED
    BY <2>1, <2>2 DEF Injection, IsInjective
<1>5. Cardinality(1 .. n) = n /\ IsFiniteSet(1 .. n)
  BY <1>1, FS_Interval
<1>6. f \in Surjection(S, 1 .. n)
  BY <1>1, <1>4, <1>5, FS_Injection
<1>7. ASSUME NEW k \in 1 .. n PROVE m[k] \in S /\ Rank(S, m[k]) = k - 1
  <2>1. PICK v \in S : f[v] = k
    BY <1>6 DEF Surjection
  <2>2. Rank(S, v) = k - 1
    BY <2>1, RankIs
  <2>3. m[k] = CHOOSE w \in S : Rank(S, w) = k - 1
    BY DEF Ranked, Rank, Smaller
  <2> HIDE DEF m
  <2>4. QED
    BY <2>2, <2>3
<1>8. m \in Seq(S) /\ Len(m) = n
  <2> DEFINE atRank(k) == CHOOSE v \in S : Cardinality({w \in S : w < v}) = k - 1
  <2>1. m = [k \in 1 .. n |-> atRank(k)]
    BY DEF Ranked
  <2> HIDE DEF m, n, atRank
  <2>2. m \in [1 .. n -> S]
    BY <1>7, <2>1
  <2>3. QED
    BY <1>1, <2>2
<1>9. n >= 1
  BY <1>1, FS_EmptySet
<1>10. ASSUME NEW x \in 1 .. n, NEW y \in 1 .. n, m[x] = m[y] PROVE x = y
  <2> HIDE DEF m, n, f
  <2>1. x - 1 = y - 1
    BY <1>7, <1>10
  <2>2. QED
    BY <1>1, <2>1
<1>11. ASSUME NEW u \in S PROVE \E x \in 1 .. n : m[x] = u
  <2>1. f[u] \in 1 .. n
    BY <1>2
  <2>2. PICK x \in 1 .. n : x = f[u]
    BY <2>1
  <2>3. Rank(S, u) = x - 1
    BY <2>2, RankIs
  <2>4. m[x] \in S /\ Rank(S, m[x]) = x - 1
    BY <1>7
  <2>5. m[x] = u
    BY <1>3, <2>3, <2>4
  <2>6. QED
    BY <2>5
<1> HIDE DEF m, n, f
<1>12. Lists(m, S)
  BY <1>1, <1>8, <1>9, <1>10, <1>11 DEF Lists
<1>13. QED
  BY <1>12 DEF m

-----------------------------------------------------------------------------
(***************************************************************************)
(* Programs.                                                               *)
(***************************************************************************)
LEMMA StepIs ==
  ASSUME NEW s, Good(s), NEW k \in 1 .. Len(s)
  PROVE  /\ s[k].op \in {"split", "barrier"}
         /\ s[k].op = "barrier" => s[k].who \subseteq UE
<1>1. s[k] \in ProgramStep
  BY DEF Good
<1>2. QED
  BY <1>1 DEF ProgramStep

LEMMA LenIs ==
  ASSUME NEW s, Good(s)
  PROVE  Len(s) \in Nat
BY DEF Good

\* The last split before a step is the only one, and stays the last one.
LEMMA LatestIs ==
  ASSUME NEW s, Good(s), NEW j, NEW k \in 1 .. Len(s) + 1, Latest(s, j, k)
  PROVE  /\ j \in 1 .. Len(s) /\ j < k /\ s[j].op = "split"
         /\ Latest(s, Last(s, k), k) /\ Last(s, k) = j
<1>0. Len(s) \in Nat
  BY LenIs
<1>1. j \in 1 .. Len(s) /\ j < k /\ s[j].op = "split" /\ j \in 1 .. k
  BY <1>0 DEF Latest
<1>2. ASSUME NEW l, Latest(s, l, k) PROVE l = j
  <2>1. l \in Int /\ j \in Int /\ l \in 1 .. k - 1 /\ j \in 1 .. k - 1
    BY <1>0, <1>2 DEF Latest
  <2>2. ~(l < j)
    <3>1. ASSUME l < j PROVE j \in l + 1 .. k - 1
      BY <2>1, <3>1
    <3>2. QED
      BY <1>1, <1>2, <3>1 DEF Latest
  <2>3. ~(j < l)
    <3>1. ASSUME j < l PROVE l \in j + 1 .. k - 1
      BY <2>1, <3>1
    <3>2. QED
      BY <1>2, <3>1 DEF Latest
  <2>4. QED
    BY <2>1, <2>2, <2>3
<1>3. Latest(s, Last(s, k), k)
  BY <1>1 DEF Last
<1>4. QED
  BY <1>1, <1>2, <1>3

\* From one step to the next.
LEMMA LatestNext ==
  ASSUME NEW s, Good(s), NEW k \in 1 .. Len(s), NEW j
  PROVE  Latest(s, j, k + 1) <=> IF s[k].op = "split" THEN j = k ELSE Latest(s, j, k)
<1>0. Len(s) \in Nat
  BY LenIs
<1>1. CASE s[k].op = "split"
  <2>1. Latest(s, k, k + 1)
    BY <1>0, <1>1 DEF Latest
  <2>2. k + 1 \in 1 .. Len(s) + 1
    BY <1>0
  <2>3. ASSUME Latest(s, j, k + 1) PROVE j = k
    BY <2>1, <2>2, <2>3, LatestIs
  <2>4. QED
    BY <1>1, <2>1, <2>3
<1>2. CASE s[k].op # "split"
  <2>1. ASSUME Latest(s, j, k) PROVE Latest(s, j, k + 1)
    <3>1. j \in 1 .. k /\ s[j].op = "split"
      BY <1>0, <2>1 DEF Latest
    <3>2. ASSUME NEW m \in j + 1 .. k PROVE s[m].op # "split"
      <4>1. m = k \/ m \in j + 1 .. k - 1
        BY <3>1
      <4>2. QED
        BY <1>2, <2>1, <4>1 DEF Latest
    <3>3. k + 1 - 1 = k
      BY <1>0
    <3>4. QED
      BY <3>1, <3>2, <3>3 DEF Latest
  <2>2. ASSUME Latest(s, j, k + 1) PROVE Latest(s, j, k)
    <3>1. /\ j \in 1 .. k /\ s[j].op = "split"
          /\ \A m \in j + 1 .. k : s[m].op # "split"
      <4>1. k + 1 - 1 = k
        BY <1>0
      <4>2. QED
        BY <2>2, <4>1 DEF Latest
    <3>2. j # k
      BY <1>2, <3>1
    <3>3. j \in 1 .. k - 1 /\ \A m \in j + 1 .. k - 1 : m \in j + 1 .. k
      BY <3>1, <3>2
    <3>4. QED
      BY <3>1, <3>3 DEF Latest
  <2>3. QED
    BY <1>2, <2>1, <2>2
<1>3. QED
  BY <1>1, <1>2

LEMMA PartIs ==
  ASSUME NEW s, NEW j, NEW u \in UE
  PROVE  /\ u \in Part(s, j, u) /\ Part(s, j, u) \subseteq UE
         /\ \A v \in Part(s, j, u) : Part(s, j, v) = Part(s, j, u)
BY DEF Part

\* A barrier has whole parts, of the last split.
LEMMA BarrierIs ==
  ASSUME NEW s, Good(s), NEW k \in 1 .. Len(s), s[k].op = "barrier"
  PROVE  /\ Latest(s, Last(s, k), k)
         /\ \A u \in s[k].who : Part(s, Last(s, k), u) \subseteq s[k].who
<1>1. PICK j \in 1 .. k : Latest(s, j, k) /\ \A u \in s[k].who : Part(s, j, u) \subseteq s[k].who
  BY DEF Good, Careful
<1>2. k \in 1 .. Len(s) + 1
  BY LenIs
<1>3. QED
  BY <1>1, <1>2, LatestIs

\* The members of c in a step: they all are in the call, and see the same ones.
IsGroup(s, c, k, u) ==
  LET m == MembersAt(s, c, k, u) IN
  /\ m \in Seq(UE) /\ Len(m) \in Nat /\ Len(m) >= 1
  /\ \A x \in 1 .. Len(m) : m[x] \in UE /\ On(s, c, k, m[x]) /\ MembersAt(s, c, k, m[x]) = m
  /\ \A x, y \in 1 .. Len(m) : m[x] = m[y] => x = y
  /\ \E x \in 1 .. Len(m) : m[x] = u

LEMMA WorldIs == LET m == [j \in 1 .. NP |-> j - 1] IN m \in Seq(UE) /\ Lists(m, UE)
<1> DEFINE m == [j \in 1 .. NP |-> j - 1]
<1>1. NP \in Nat /\ NP > 0
  BY ScriptAssumption
<1>2. m \in Seq(UE) /\ Len(m) = NP
  BY <1>1 DEF UE
<1>3. \A u \in UE : u + 1 \in 1 .. NP /\ m[u + 1] = u
  BY <1>1 DEF UE
<1>4. \A x, y \in 1 .. NP : m[x] = m[y] => x = y
  BY <1>1
<1> HIDE DEF m
<1>5. m \in Seq(UE) /\ Lists(m, UE)
  BY <1>1, <1>2, <1>3, <1>4 DEF Lists
<1>6. QED
  BY <1>5 DEF m

LEMMA GroupIs ==
  ASSUME NEW s, Good(s), NEW c \in Comms, NEW k, NEW u \in UE, On(s, c, k, u)
  PROVE  IsGroup(s, c, k, u)
<1> DEFINE m == MembersAt(s, c, k, u)
<1>1. CASE c = "world"
  <2>1. m \in Seq(UE) /\ Lists(m, UE)
    BY <1>1, WorldIs DEF MembersAt
  <2>2. \A v \in UE : On(s, c, k, v) /\ MembersAt(s, c, k, v) = m
    BY <1>1 DEF MembersAt, On
  <2> HIDE DEF m
  <2>3. \A x \in 1 .. Len(m) : m[x] \in UE
    BY <2>1
  <2>4. QED
    BY <2>1, <2>2, <2>3 DEF Lists, IsGroup, m
<1>2. CASE c # "world"
  <2> DEFINE P == Part(s, Last(s, k), u)
  <2>1. k \in 1 .. Len(s) /\ s[k].op = "barrier" /\ u \in s[k].who
    BY <1>2 DEF On
  <2>2. P \subseteq s[k].who
    BY <2>1, BarrierIs
  <2>3. u \in P /\ P \in SUBSET UE /\ \A v \in P : Part(s, Last(s, k), v) = P
    BY PartIs
  <2>4. m = Ranked(P)
    BY <1>2 DEF MembersAt
  <2>5. ASSUME NEW v \in P PROVE On(s, c, k, v) /\ MembersAt(s, c, k, v) = m
    BY <1>2, <2>1, <2>2, <2>3 DEF On, MembersAt
  <2> HIDE DEF P, m
  <2>6. Lists(m, P)
    BY <2>3, <2>4, RankedLists
  <2>7. m \in Seq(P)
    BY <2>6 DEF Lists
  <2>8. m \in Seq(UE) /\ \A x \in 1 .. Len(m) : m[x] \in P
    BY <2>3, <2>7
  <2>9. QED
    BY <2>3, <2>5, <2>6, <2>8 DEF Lists, IsGroup, m
<1>3. QED
  BY <1>1, <1>2
-----------------------------------------------------------------------------
(***************************************************************************)
(* The value of a gather flag.                                             *)
(***************************************************************************)
LEMMA MadeFinite ==
  ASSUME NEW s, Good(s), NEW c, NEW u, NEW k \in 1 .. Len(s) + 1
  PROVE  /\ IsFiniteSet(Made(s, c, u, k)) /\ Cardinality(Made(s, c, u, k)) \in Nat
         /\ Phase(s, c, u, k) \in {0, 1}
<1>1. k \in Int
  BY LenIs
<1>2. IsFiniteSet(1 .. k - 1)
  BY <1>1, FS_Interval
<1>3. Made(s, c, u, k) \subseteq 1 .. k - 1
  BY DEF Made
<1>4. IsFiniteSet(Made(s, c, u, k)) /\ Cardinality(Made(s, c, u, k)) \in Nat
  BY <1>2, <1>3, FS_Subset, FS_CardinalityType
<1>5. ASSUME NEW n \in Nat PROVE n % 2 \in {0, 1}
  BY SMT
<1>6. QED
  BY <1>4, <1>5 DEF Phase

LEMMA PhaseFirst ==
  ASSUME NEW s, NEW c, NEW u
  PROVE  Phase(s, c, u, 1) = 0
<1>1. Made(s, c, u, 1) = {}
  BY DEF Made
<1>2. QED
  BY <1>1, FS_EmptySet DEF Phase

\* A call flips it, and nothing else does.
LEMMA PhaseNext ==
  ASSUME NEW s, Good(s), NEW c, NEW u, NEW k \in 1 .. Len(s)
  PROVE  Phase(s, c, u, k + 1) =
           IF On(s, c, k, u) THEN 1 - Phase(s, c, u, k) ELSE Phase(s, c, u, k)
<1>0. k \in Nat /\ k \in 1 .. Len(s) + 1 /\ k + 1 - 1 = k
  BY LenIs
<1> DEFINE A == Made(s, c, u, k)
           B == Made(s, c, u, k + 1)
<1>1. IsFiniteSet(A) /\ Cardinality(A) \in Nat
  BY <1>0, MadeFinite
<1>2. k \notin A
  BY <1>0 DEF Made
<1>3. \A m : m \in 1 .. k <=> m \in 1 .. k - 1 \/ m = k
  BY <1>0
<1>4. B = {m \in 1 .. k : On(s, c, m, u)}
  BY <1>0 DEF Made
<1>5. CASE On(s, c, k, u)
  <2>1. B = A \cup {k}
    BY <1>3, <1>4, <1>5 DEF Made
  <2> HIDE DEF A, B
  <2>2. Cardinality(B) = Cardinality(A) + 1
    BY <1>1, <1>2, <2>1, FS_AddElement
  <2>3. ASSUME NEW n \in Nat PROVE (n + 1) % 2 = 1 - (n % 2)
    BY SMT
  <2>4. Cardinality(B) % 2 = 1 - (Cardinality(A) % 2)
    BY <1>1, <2>2, <2>3
  <2>5. QED
    BY <1>5, <2>4 DEF A, B, Phase
<1>6. CASE ~On(s, c, k, u)
  <2>1. B = A
    BY <1>3, <1>4, <1>6 DEF Made
  <2>2. QED
    BY <1>6, <2>1 DEF Phase
<1>7. QED
  BY <1>5, <1>6

\* No call from step h on, none counted.
LEMMA PhaseStays ==
  ASSUME NEW s, Good(s), NEW c, NEW u, NEW h \in 1 .. Len(s) + 1, NEW k \in 1 .. Len(s) + 1,
         h <= k, \A m \in h .. k - 1 : ~On(s, c, m, u)
  PROVE  Phase(s, c, u, h) = Phase(s, c, u, k)
<1>0. h \in Int /\ k \in Int
  BY LenIs
<1>1. \A m : m \in 1 .. k - 1 <=> m \in 1 .. h - 1 \/ m \in h .. k - 1
  BY <1>0
<1>2. Made(s, c, u, h) = Made(s, c, u, k)
  BY <1>1 DEF Made
<1>3. QED
  BY <1>2 DEF Phase

LEMMA Least ==
  ASSUME NEW T, T \subseteq Nat, T # {}
  PROVE  \E x \in T : \A y \in T : x <= y
<1>1. PICK x \in T : \A y \in T : ~(<<y, x>> \in OpToRel(<, Nat))
  BY NatLessThanWellFounded, WFMin
<1>2. \A y \in T : ~(y < x)
  BY <1>1 DEF OpToRel
<1>3. QED
  BY <1>2

\* There is no barrier of "comm" before it is made.
LEMMA PhaseNone ==
  ASSUME NEW s, Good(s), NEW u \in UE, NEW k \in 1 .. Len(s) + 1, \A j : ~Latest(s, j, k)
  PROVE  Phase(s, "comm", u, k) = 0
<1> DEFINE T == {x \in 1 .. Len(s) + 1 : (\A j : ~Latest(s, j, x)) /\ Phase(s, "comm", u, x) # 0}
<1>0. Len(s) \in Nat
  BY LenIs
<1>1. SUFFICES ASSUME T # {} PROVE FALSE
  OBVIOUS
<1>2. T \subseteq Nat
  BY <1>0
<1>3. PICK x \in T : \A y \in T : x <= y
  BY <1>1, <1>2, Least
<1>4. x # 1
  BY PhaseFirst
<1>5. PICK y \in 1 .. Len(s) : x = y + 1
  <2>1. x - 1 \in 1 .. Len(s) /\ x = (x - 1) + 1
    BY <1>0, <1>4
  <2>2. QED
    BY <2>1
<1>6. \A j : ~Latest(s, j, y + 1)
  BY <1>5
<1>7. s[y].op = "barrier"
  BY <1>6, LatestNext, StepIs
<1>8. \A j : ~Latest(s, j, y)
  BY <1>6, <1>7, LatestNext
<1>9. FALSE
  BY <1>7, <1>8, BarrierIs
<1>10. QED
  BY <1>9

\* The UEs of a part have called their barrier as often, but for even numbers.
LEMMA PartAgrees ==
  ASSUME NEW s, Good(s), NEW k \in 1 .. Len(s) + 1, NEW j, Latest(s, j, k),
         NEW u \in UE, NEW v \in Part(s, j, u)
  PROVE  Phase(s, "comm", u, k) = Phase(s, "comm", v, k)
<1> DEFINE Ph(w, x) == Phase(s, "comm", w, x)
           Bad(x, l, a, b) == Latest(s, l, x) /\ b \in Part(s, l, a) /\ Ph(a, x) # Ph(b, x)
           T == {x \in 1 .. Len(s) + 1 : \E l, a, b : a \in UE /\ Bad(x, l, a, b)}
<1>0. Len(s) \in Nat
  BY LenIs
<1>1. SUFFICES ASSUME T # {} PROVE FALSE
  OBVIOUS
<1>2. T \subseteq Nat
  BY <1>0
<1>3. PICK x \in T : \A y \in T : x <= y
  <2> HIDE DEF T
  <2> QED BY <1>1, <1>2, Least
<1>4. PICK l, a, b : a \in UE /\ Bad(x, l, a, b)
  BY <1>3
<1>5. b \in UE
  BY <1>4 DEF Part
<1>6. x # 1
  BY <1>4, PhaseFirst
<1>7. PICK y \in 1 .. Len(s) : x = y + 1
  <2>1. x - 1 \in 1 .. Len(s) /\ x = (x - 1) + 1
    BY <1>0, <1>6
  <2>2. QED
    BY <2>1
<1>8. y \in 1 .. Len(s) + 1 /\ ~(y + 1 <= y)
  BY <1>0
<1>9. \A d, e, f : d \in UE /\ Latest(s, f, y) /\ e \in Part(s, f, d) => Ph(d, y) = Ph(e, y)
  BY <1>3, <1>7, <1>8
<1> HIDE DEF T
<1>10. CASE s[y].op = "split"
  <2>1. l = y
    BY <1>4, <1>7, <1>10, LatestNext
  <2>2. Ph(a, x) = Ph(a, y) /\ Ph(b, x) = Ph(b, y)
    <3>1. \A w : ~On(s, "comm", y, w)
      BY <1>10 DEF On
    <3>2. QED
      BY <1>7, <3>1, PhaseNext
  <2>3. PICK g : Latest(s, g, y)
    BY <1>4, <1>5, <1>8, <2>2, PhaseNone
  <2>4. ASSUME NEW w \in UE PROVE Part(s, y, w) = Part(s, g, w) \/ Ph(w, y) = 0
    <3>1. g \in 1 .. y
      BY <1>0, <2>3 DEF Latest
    <3>2. Part(s, y, w) = Part(s, g, w) \/ Cardinality(Barriers(s, w, y)) % 2 = 0
      BY <1>10, <2>3, <3>1 DEF Good, Careful
    <3>3. \A m \in 1 .. y - 1 : m \in 1 .. Len(s)
      BY <1>0
    <3>4. Made(s, "comm", w, y) = Barriers(s, w, y)
      BY <3>3 DEF Made, Barriers, On
    <3>5. QED
      BY <3>2, <3>4 DEF Phase
  <2>5. Part(s, y, a) = Part(s, y, b) /\ a \in Part(s, y, a) /\ b \in Part(s, y, a)
    BY <1>4, <2>1, PartIs
  <2>6. Part(s, y, a) = Part(s, g, a) \/ Part(s, y, b) = Part(s, g, b)
    BY <1>4, <1>5, <2>2, <2>4
  <2>7. b \in Part(s, g, a)
    BY <1>4, <1>5, <2>5, <2>6, PartIs
  <2>8. QED
    BY <1>4, <1>9, <2>2, <2>3, <2>7
<1>11. CASE s[y].op # "split"
  <2>1. Latest(s, l, y) /\ s[y].op = "barrier"
    BY <1>4, <1>7, <1>11, LatestNext, StepIs
  <2>2. Ph(a, y) = Ph(b, y)
    BY <1>4, <1>9, <2>1
  <2>3. Last(s, y) = l
    BY <1>8, <2>1, LatestIs
  <2>4. b \in Part(s, l, a) /\ a \in Part(s, l, b)
    BY <1>4, PartIs
  <2>5. a \in s[y].who <=> b \in s[y].who
    BY <2>1, <2>3, <2>4, BarrierIs
  <2>6. On(s, "comm", y, a) <=> On(s, "comm", y, b)
    BY <2>5 DEF On
  <2>7. Ph(a, y + 1) = Ph(b, y + 1)
    BY <2>2, <2>6, PhaseNext
  <2>8. QED
    BY <1>4, <1>7, <2>7
<1>12. QED
  BY <1>10, <1>11

\* The members of a call have the same value in their flags.
LEMMA PhaseAgrees ==
  ASSUME NEW s, Good(s), NEW c \in Comms, NEW k, NEW u \in UE, On(s, c, k, u),
         NEW x \in 1 .. Len(MembersAt(s, c, k, u))
  PROVE  Phase(s, c, MembersAt(s, c, k, u)[x], k) = Phase(s, c, u, k)
<1> DEFINE v == MembersAt(s, c, k, u)[x]
<1>0. k \in 1 .. Len(s) /\ k \in 1 .. Len(s) + 1
  BY LenIs DEF On
<1>1. CASE c = "world"
  <2>1. Made(s, c, v, k) = Made(s, c, u, k)
    BY <1>1 DEF Made, On
  <2>2. QED
    BY <2>1 DEF Phase
<1>2. CASE c # "world"
  <2>1. c = "comm" /\ s[k].op = "barrier"
    BY <1>2 DEF Comms, On
  <2>2. Latest(s, Last(s, k), k)
    BY <1>0, <2>1, BarrierIs
  <2>3. Part(s, Last(s, k), u) \in SUBSET UE /\ u \in Part(s, Last(s, k), u)
    BY PartIs
  <2>4. Lists(MembersAt(s, c, k, u), Part(s, Last(s, k), u))
    BY <1>2, <2>3, RankedLists DEF MembersAt
  <2>5. v \in Part(s, Last(s, k), u)
    BY <2>4 DEF Lists
  <2> HIDE DEF v
  <2>6. QED
    BY <1>0, <2>1, <2>2, <2>5, PartAgrees DEF v
<1>3. QED
  BY <1>1, <1>2
\* Steps and communicators: a step is a call of one communicator at most.
LEMMA OnOne ==
  ASSUME NEW s, NEW k, NEW c \in Comms, NEW d \in Comms, NEW u, NEW v, On(s, c, k, u), On(s, d, k, v)
  PROVE  c = d
BY DEF On, Comms

\* The root of a communicator, and who has none, never see a release flag set.
Quiet(s, c, k, u) == (c = "comm" /\ \A j : ~Latest(s, j, k)) \/ RootAt(s, c, k, u) = u
Left(s, c, k, u)  == IF Quiet(s, c, k, u) THEN 0 ELSE Phase(s, c, u, k)

LEMMA MembersNext ==
  ASSUME NEW s, Good(s), NEW k \in 1 .. Len(s), NEW c \in Comms, NEW u \in UE,
         c = "world" \/ s[k].op = "barrier"
  PROVE  /\ MembersAt(s, c, k + 1, u) = MembersAt(s, c, k, u)
         /\ Quiet(s, c, k + 1, u) <=> Quiet(s, c, k, u)
<1>1. CASE c = "world"
  BY <1>1 DEF MembersAt, Quiet, RootAt
<1>2. CASE c # "world"
  <2>1. Latest(s, Last(s, k), k) /\ s[k].op = "barrier"
    BY <1>2, BarrierIs
  <2>2. \A j : Latest(s, j, k + 1) <=> Latest(s, j, k)
    BY <2>1, LatestNext
  <2>3. k + 1 \in 1 .. Len(s) + 1
    BY LenIs
  <2>4. Last(s, k + 1) = Last(s, k)
    BY <2>1, <2>2, <2>3, LatestIs
  <2>5. MembersAt(s, c, k + 1, u) = MembersAt(s, c, k, u)
    BY <1>2, <2>4 DEF MembersAt
  <2>6. QED
    BY <2>2, <2>5 DEF Quiet, RootAt
<1>3. QED
  BY <1>1, <1>2

LEMMA LeftNext ==
  ASSUME NEW s, Good(s), NEW k \in 1 .. Len(s), NEW c \in Comms, NEW u \in UE, ~On(s, c, k, u)
  PROVE  Left(s, c, k + 1, u) = Left(s, c, k, u)
<1>0. k \in 1 .. Len(s) + 1 /\ k + 1 \in 1 .. Len(s) + 1
  BY LenIs
<1>1. Phase(s, c, u, k + 1) = Phase(s, c, u, k)
  BY PhaseNext
<1>2. CASE c = "world" \/ s[k].op = "barrier"
  BY <1>1, <1>2, MembersNext DEF Left
<1>3. CASE ~(c = "world" \/ s[k].op = "barrier")
  <2>1. c = "comm" /\ s[k].op = "split"
    BY <1>3, StepIs DEF Comms
  <2>2. CASE \A j : ~Latest(s, j, k)
    <3>1. Phase(s, c, u, k) = 0
      BY <1>0, <2>1, <2>2, PhaseNone
    <3>2. QED
      BY <1>1, <3>1 DEF Left
  <2>3. CASE \E j : Latest(s, j, k)
    <3>1. PICK j : Latest(s, j, k)
      BY <2>3
    <3>2. Last(s, k) = j /\ j \in 1 .. k
      <4>1. Last(s, k) = j /\ j \in 1 .. Len(s) /\ j < k
        BY <1>0, <3>1, LatestIs
      <4>2. QED
        BY <1>0, <4>1, LenIs
    <3>3. Latest(s, k, k + 1) /\ Last(s, k + 1) = k
      BY <1>0, <2>1, LatestNext, LatestIs
    <3>4. Part(s, k, u) = Part(s, j, u) \/ Cardinality(Barriers(s, u, k)) % 2 = 0
      BY <2>1, <3>1, <3>2 DEF Good, Careful
    <3>5. CASE Part(s, k, u) = Part(s, j, u)
      <4>1. MembersAt(s, c, k + 1, u) = MembersAt(s, c, k, u)
        BY <2>1, <3>2, <3>3, <3>5 DEF MembersAt
      <4>2. Quiet(s, c, k + 1, u) <=> Quiet(s, c, k, u)
        BY <3>1, <3>3, <4>1 DEF Quiet, RootAt
      <4>3. QED
        BY <1>1, <4>2 DEF Left
    <3>6. CASE Cardinality(Barriers(s, u, k)) % 2 = 0
      <4>1. \A m \in 1 .. k - 1 : m \in 1 .. Len(s)
        BY <1>0, LenIs
      <4>2. Made(s, c, u, k) = Barriers(s, u, k)
        BY <2>1, <4>1 DEF Made, Barriers, On
      <4>3. Phase(s, c, u, k) = 0
        BY <3>6, <4>2 DEF Phase
      <4>4. QED
        BY <1>1, <4>3 DEF Left
    <3>7. QED
      BY <3>4, <3>5, <3>6
  <2>4. QED
    BY <2>2, <2>3
<1>4. QED
  BY <1>2, <1>3

-----------------------------------------------------------------------------
(***************************************************************************)
(* The inductive invariant.                                                *)
(***************************************************************************)
\* The step in which the next flip of u's gather flag may come.
Here(u) == IF pc[u] = "run" THEN pos[u] ELSE pos[u] + 1

\* The members of u's call in step k of communicator c have all entered it.
AllBegun(c, u, k) ==
  \A x \in 1 .. Len(MembersAt(script, c, k, u)) : Begun(MembersAt(script, c, k, u)[x], k)

\* The root has written the release flag of v in step k, a call of c.
Granted(c, k, v) ==
  LET r == RootAt(script, c, k, v) IN
  \/ pos[r] > k
  \/ pos[r] = k /\ pc[r] = "release" /\ \E x \in 2 .. i[r] : MembersAt(script, c, k, v)[x] = v

Types ==
  /\ pos \in [UE -> Nat] /\ pc \in [UE -> {"run", "poll", "release", "wait"}]
  /\ on \in [UE -> Comms] /\ i \in [UE -> Nat] /\ counter \in [UE -> Nat] /\ cycle \in [UE -> Nat]
  /\ gather \in [Comms -> [UE -> Nat]] /\ release \in [Comms -> [UE -> Nat]]
  /\ member \in [UE -> Seq(UE)] /\ initialized \in [UE -> BOOLEAN]
  /\ \A u \in UE : pos[u] \in 1 .. Len(script) + 1

\* A UE has the members of the last split that it has passed.
Rostered ==
  \A u \in UE :
    /\ initialized[u] <=> \E j : Latest(script, j, pos[u])
    /\ initialized[u] => member[u] = Ranked(Part(script, Last(script, pos[u]), u))

\* A UE inside a barrier.
Inside ==
  \A u \in UE : pc[u] # "run" =>
    /\ On(script, on[u], pos[u], u) /\ cycle[u] = gather[on[u]][u]
    /\ pc[u] = "wait" <=> u # RootAt(script, on[u], pos[u], u)
    /\ i[u] >= 1 /\ i[u] <= Len(MembersAt(script, on[u], pos[u], u))

GatherIs == \A c \in Comms, u \in UE : gather[c][u] = Phase(script, c, u, Here(u))

ReleaseIs ==
  \A c \in Comms, u \in UE, k \in Nat : pos[u] = k =>
    release[c][u] = IF On(script, c, k, u) /\ RootAt(script, c, k, u) # u /\ Granted(c, k, u)
                    THEN Phase(script, c, u, k + 1) ELSE Left(script, c, k, u)

\* What the root has seen in its pass, and knows when it goes to release.
Seen(u, c, k) ==
  /\ counter[u] <= i[u]
  /\ counter[u] = i[u] => \A x \in 1 .. i[u] : Begun(MembersAt(script, c, k, u)[x], k)

RootKnows ==
  \A c \in Comms, u \in UE, k \in Nat : pos[u] = k /\ on[u] = c =>
    /\ pc[u] = "poll" => Seen(u, c, k)
    /\ pc[u] = "release" => AllBegun(c, u, k)

\* A UE that has passed a call other than as its root has been released from it.
Passed ==
  \A c \in Comms, u \in UE, k \in Nat :
    On(script, c, k, u) /\ k < pos[u] /\ RootAt(script, c, k, u) # u => Granted(c, k, u)

Synchronised ==
  \A c \in Comms, u \in UE, k \in Nat :
    On(script, c, k, u) /\ k < pos[u] => AllBegun(c, u, k)

CommInv == /\ Good(script) /\ Types /\ Rostered /\ Inside /\ GatherIs /\ ReleaseIs /\ RootKnows
           /\ Passed /\ Synchronised

LEMMA PosIs ==
  ASSUME Types, NEW u \in UE
  PROVE  pos[u] \in Nat /\ pos[u] \in 1 .. Len(script) + 1
BY DEF Types

LEMMA OnNat ==
  ASSUME NEW s, Good(s), NEW c, NEW k, NEW u, On(s, c, k, u)
  PROVE  k \in Nat /\ k \in 1 .. Len(s) /\ k \in 1 .. Len(s) + 1 /\ k + 1 \in 1 .. Len(s) + 1
BY LenIs DEF On

\* The members u reads are those the program gives the call.
LEMMA MembersNow ==
  ASSUME CommInv, NEW u \in UE, NEW c \in Comms, On(script, c, pos[u], u)
  PROVE  MembersOf(u, c) = MembersAt(script, c, pos[u], u) /\ IsGroup(script, c, pos[u], u)
<1>1. IsGroup(script, c, pos[u], u)
  BY GroupIs DEF CommInv
<1>2. CASE c = "world"
  BY <1>1, <1>2 DEF MembersOf, MembersAt
<1>3. CASE c # "world"
  <2>1. pos[u] \in 1 .. Len(script) /\ script[pos[u]].op = "barrier"
    BY <1>3 DEF On
  <2>2. Latest(script, Last(script, pos[u]), pos[u])
    BY <2>1, BarrierIs DEF CommInv
  <2>3. member[u] = Ranked(Part(script, Last(script, pos[u]), u))
    BY <2>2 DEF CommInv, Rostered
  <2>4. QED
    BY <1>1, <1>3, <2>3 DEF MembersOf, MembersAt
<1>4. QED
  BY <1>2, <1>3

\* The root and the members of a call.
LEMMA RootIs ==
  ASSUME NEW s, Good(s), NEW c \in Comms, NEW k, NEW u \in UE, On(s, c, k, u)
  PROVE  LET r == RootAt(s, c, k, u)
         IN  /\ r \in UE /\ On(s, c, k, r) /\ RootAt(s, c, k, r) = r
             /\ MembersAt(s, c, k, r) = MembersAt(s, c, k, u)
             /\ MembersAt(s, c, k, u)[1] = r
<1>1. IsGroup(s, c, k, u)
  BY GroupIs
<1>2. 1 \in 1 .. Len(MembersAt(s, c, k, u))
  BY <1>1 DEF IsGroup
<1>3. QED
  BY <1>1, <1>2 DEF IsGroup, RootAt

\* Who is released knows that all the members have entered the call.
LEMMA GrantedBegun ==
  ASSUME CommInv, NEW c \in Comms, NEW k, NEW v \in UE, On(script, c, k, v), Granted(c, k, v)
  PROVE  AllBegun(c, v, k) /\ Begun(v, k)
<1> DEFINE r == RootAt(script, c, k, v)
<1>0. Good(script) /\ k \in Nat
  BY OnNat DEF CommInv
<1>1. /\ r \in UE /\ On(script, c, k, r)
      /\ MembersAt(script, c, k, r) = MembersAt(script, c, k, v)
  BY <1>0, RootIs
<1>2. pos[r] > k \/ (pos[r] = k /\ pc[r] = "release")
  BY DEF Granted
<1>3. pos[r] \in Nat
  BY <1>1, PosIs DEF CommInv
<1>4. ASSUME pos[r] > k PROVE AllBegun(c, v, k)
  <2>1. k < pos[r]
    BY <1>0, <1>3, <1>4
  <2>2. AllBegun(c, r, k)
    BY <1>0, <1>1, <2>1 DEF CommInv, Synchronised
  <2>3. QED
    BY <1>1, <2>2 DEF AllBegun
<1>5. ASSUME pos[r] = k, pc[r] = "release" PROVE AllBegun(c, v, k)
  <2>1. On(script, on[r], k, r) /\ on[r] \in Comms
    BY <1>1, <1>5 DEF CommInv, Inside, Types
  <2>2. on[r] = c
    BY <1>1, <2>1, OnOne
  <2>3. AllBegun(c, r, k)
    BY <1>0, <1>1, <1>5, <2>2 DEF CommInv, RootKnows
  <2>4. QED
    BY <1>1, <2>3 DEF AllBegun
<1>6. AllBegun(c, v, k)
  BY <1>2, <1>4, <1>5
<1>7. PICK x \in 1 .. Len(MembersAt(script, c, k, v)) : MembersAt(script, c, k, v)[x] = v
  BY <1>0, GroupIs DEF IsGroup
<1>8. QED
  BY <1>6, <1>7 DEF AllBegun
\* The members of a communicator that the root u waits for are not behind: a
\* member that has not come yet has called nothing since.
LEMMA BehindIs ==
  ASSUME CommInv, NEW c \in Comms, NEW u \in UE, NEW w \in UE, On(script, c, pos[u], u),
         NEW x \in 1 .. Len(MembersAt(script, c, pos[u], u)),
         w = MembersAt(script, c, pos[u], u)[x], Here(w) <= pos[u]
  PROVE  gather[c][w] = Phase(script, c, u, pos[u])
<1> DEFINE k == pos[u]
           h == Here(w)
           G == MembersAt(script, c, k, u)
<1>0. /\ Good(script) /\ k \in 1 .. Len(script) /\ k \in Nat /\ k \in 1 .. Len(script) + 1
      /\ pos[w] \in Nat /\ pos[w] >= 1 /\ h \in Nat /\ h >= 1 /\ Len(script) \in Nat
  BY PosIs, OnNat, LenIs DEF CommInv, Here
<1>1. h \in 1 .. Len(script) + 1 /\ h <= k
  BY <1>0
<1>2. ASSUME NEW m \in Nat, m < k, h <= m, NEW d \in Comms, On(script, d, m, u), On(script, d, m, w),
             NEW y \in 1 .. Len(MembersAt(script, d, m, u)), MembersAt(script, d, m, u)[y] = w
      PROVE  FALSE
  <2>1. AllBegun(d, u, m)
    BY <1>2 DEF CommInv, Synchronised
  <2>2. Begun(w, m)
    BY <1>2, <2>1 DEF AllBegun
  <2>3. m < h
    BY <1>0, <1>2, <2>2 DEF Begun, Here
  <2>4. QED
    BY <1>0, <1>2, <2>3
<1>3. ASSUME NEW m \in h .. k - 1, script[m].op = "split" PROVE FALSE
  <2>1. m \in Nat /\ m < k /\ h <= m /\ m \in 1 .. Len(script)
    BY <1>0
  <2>2. On(script, "world", m, u) /\ On(script, "world", m, w) /\ "world" \in Comms
    BY <1>3, <2>1 DEF On, Comms
  <2>3. MembersAt(script, "world", m, u) = [j \in 1 .. NP |-> j - 1]
    BY DEF MembersAt
  <2>4. PICK y \in 1 .. Len(MembersAt(script, "world", m, u)) : MembersAt(script, "world", m, u)[y] = w
    BY <2>3, WorldIs DEF Lists
  <2>5. QED
    BY <1>2, <2>1, <2>2, <2>4
<1>4. ASSUME NEW m \in h .. k - 1 PROVE ~On(script, c, m, w)
  <2>1. SUFFICES ASSUME On(script, c, m, w) PROVE FALSE
    OBVIOUS
  <2>2. m \in Nat /\ m < k /\ h <= m /\ m \in 1 .. Len(script)
    BY <1>0
  <2>3. c # "world" /\ script[m].op = "barrier" /\ w \in script[m].who
    BY <1>3, <2>1 DEF On
  <2>4. script[k].op = "barrier"
    BY <2>3 DEF On
  <2> DEFINE l == Last(script, k)
             P == Part(script, l, u)
  <2>5. Latest(script, l, k)
    BY <1>0, <2>4, BarrierIs
  <2>6. l \in Nat /\ l < k /\ script[l].op = "split" /\ \A n \in l + 1 .. k - 1 : script[n].op # "split"
    <3>1. l \in 1 .. k - 1 /\ script[l].op = "split" /\ \A n \in l + 1 .. k - 1 : script[n].op # "split"
      BY <2>5 DEF Latest
    <3>2. QED
      BY <1>0, <3>1
  <2>7. l < m
    <3>1. ~(l \in h .. k - 1)
      BY <1>3, <2>6
    <3>2. QED
      BY <1>0, <2>2, <2>6, <3>1
  <2>8. Latest(script, l, m)
    <3>1. l \in 1 .. m - 1
      BY <1>0, <2>2, <2>5, <2>7 DEF Latest
    <3>2. \A n \in l + 1 .. m - 1 : n \in l + 1 .. k - 1
      BY <2>2, <1>0
    <3>3. QED
      BY <2>6, <3>1, <3>2 DEF Latest
  <2>9. Last(script, m) = l
    <3>1. m \in 1 .. Len(script) + 1
      BY <1>0, <2>2
    <3>2. QED
      BY <1>0, <2>8, <3>1, LatestIs
  <2> HIDE DEF l
  <2>10. G = Ranked(P) /\ MembersAt(script, c, m, u) = Ranked(P)
         /\ MembersAt(script, c, m, w) = Ranked(Part(script, l, w))
    BY <2>3, <2>9 DEF MembersAt, l
  <2>11. P \in SUBSET UE /\ u \in P
    BY PartIs
  <2>12. w \in P
    <3>1. Lists(Ranked(P), P)
      BY <2>11, RankedLists
    <3> HIDE DEF P
    <3>2. QED
      BY <2>10, <3>1 DEF Lists
  <2>13. u \in Part(script, l, w)
    BY <2>12, PartIs
  <2>14. u \in script[m].who
    BY <1>0, <2>2, <2>3, <2>9, <2>13, BarrierIs
  <2>15. On(script, c, m, u)
    BY <2>2, <2>3, <2>14 DEF On
  <2>16. x \in 1 .. Len(MembersAt(script, c, m, u)) /\ MembersAt(script, c, m, u)[x] = w
    BY <2>10
  <2>17. QED
    BY <1>2, <2>1, <2>2, <2>15, <2>16
<1> HIDE DEF k, h, G
<1>5. Phase(script, c, w, h) = Phase(script, c, w, k)
  BY <1>0, <1>1, <1>4, PhaseStays
<1>6. gather[c][w] = Phase(script, c, w, h)
  BY DEF CommInv, GatherIs, h
<1>7. Phase(script, c, w, k) = Phase(script, c, u, k)
  BY <1>0, PhaseAgrees DEF k
<1>8. QED
  BY <1>5, <1>6, <1>7 DEF k

-----------------------------------------------------------------------------
(***************************************************************************)
(* What a UE has entered it has entered: the program stays, and no UE goes *)
(* back.                                                                   *)
(***************************************************************************)
Onward == script' = script /\ \A v \in UE, k \in Nat : Begun(v, k) => Begun(v, k)'

LEMMA AllBegunStays ==
  ASSUME CommInv, Onward, NEW c \in Comms, NEW u \in UE, NEW k, On(script, c, k, u), AllBegun(c, u, k)
  PROVE  AllBegun(c, u, k)'
<1>1. k \in Nat /\ IsGroup(script, c, k, u)
  BY OnNat, GroupIs DEF CommInv
<1>2. ASSUME NEW x \in 1 .. Len(MembersAt(script, c, k, u)), NEW v, v = MembersAt(script, c, k, u)[x]
      PROVE  Begun(v, k)'
  <2>1. v \in UE /\ Begun(v, k)
    BY <1>1, <1>2 DEF IsGroup, AllBegun
  <2>2. QED
    BY <1>1, <2>1 DEF Onward
<1>3. QED
  BY <1>2 DEF AllBegun, Onward

-----------------------------------------------------------------------------
(***************************************************************************)
(* A UE enters a barrier.                                                  *)
(***************************************************************************)
Enters(u, c) == On(script, c, pos[u], u) /\ pc[u] = "run" /\ EnterBarrier(u, c)

LEMMA EnterOnward ==
  ASSUME CommInv, NEW u \in UE, NEW c \in Comms, Enters(u, c)
  PROVE  Onward /\ pc'[u] \in {"poll", "wait"} /\ pos' = pos
BY PosIs DEF CommInv, Types, Onward, Enters, EnterBarrier, Begun

LEMMA EnterGranted ==
  ASSUME CommInv, NEW u \in UE, NEW c \in Comms, Enters(u, c),
         NEW d \in Comms, NEW v \in UE, NEW k, On(script, d, k, v)
  PROVE  Granted(d, k, v)' <=> Granted(d, k, v)
<1> DEFINE r == RootAt(script, d, k, v)
<1>1. r \in UE
  BY RootIs DEF CommInv
<1>2. script' = script /\ pos' = pos /\ pc'[u] # "release" /\ pc[u] # "release"
  BY EnterOnward DEF Onward, Enters
<1>3. r # u => pc'[r] = pc[r] /\ i'[r] = i[r]
  BY <1>1 DEF CommInv, Types, Enters, EnterBarrier
<1>4. QED
  BY <1>1, <1>2, <1>3 DEF Granted

LEMMA EnterTypes ==
  ASSUME CommInv, NEW u \in UE, NEW c \in Comms, Enters(u, c)
  PROVE  Types' /\ Rostered'
<1>1. gather[c][u] \in {0, 1}
  <2>1. Here(u) = pos[u] /\ pos[u] \in 1 .. Len(script) + 1
    BY PosIs DEF Enters, Here, CommInv
  <2>2. QED
    BY <2>1, MadeFinite DEF CommInv, GatherIs
<1>2. gather' \in [Comms -> [UE -> Nat]]
  BY <1>1 DEF CommInv, Types, Enters, EnterBarrier
<1>3. cycle' \in [UE -> Nat]
  BY <1>1 DEF CommInv, Types, Enters, EnterBarrier
<1>4. pc' \in [UE -> {"run", "poll", "release", "wait"}]
  BY DEF CommInv, Types, Enters, EnterBarrier
<1>5. QED
  BY <1>2, <1>3, <1>4 DEF CommInv, Types, Rostered, Enters, EnterBarrier

LEMMA EnterInside ==
  ASSUME CommInv, NEW u \in UE, NEW c \in Comms, Enters(u, c)
  PROVE  Inside'
<1>1. /\ MembersOf(u, c) = MembersAt(script, c, pos[u], u)
      /\ Len(MembersAt(script, c, pos[u], u)) >= 1
  BY MembersNow DEF Enters, IsGroup
<1>2. ASSUME NEW v \in UE, pc'[v] # "run"
      PROVE  /\ On(script', on'[v], pos'[v], v) /\ cycle'[v] = gather'[on'[v]][v]
             /\ pc'[v] = "wait" <=> v # RootAt(script', on'[v], pos'[v], v)
             /\ i'[v] >= 1 /\ i'[v] <= Len(MembersAt(script', on'[v], pos'[v], v))
  <2>1. CASE v = u
    <3>1. /\ on'[u] = c /\ pos' = pos /\ script' = script /\ i'[u] = 1
          /\ cycle'[u] = 1 - gather[c][u] /\ gather'[c][u] = 1 - gather[c][u]
          /\ pc'[u] = IF u = RootOf(u, c) THEN "poll" ELSE "wait"
      BY DEF CommInv, Types, Enters, EnterBarrier
    <3>2. RootOf(u, c) = RootAt(script, c, pos[u], u)
      BY <1>1 DEF RootOf, RootAt
    <3>3. i'[u] >= 1 /\ i'[u] <= Len(MembersAt(script, c, pos[u], u))
      BY <1>1, <3>1
    <3>4. QED
      BY <2>1, <3>1, <3>2, <3>3 DEF Enters
  <2>2. CASE v # u
    <3>1. /\ on'[v] = on[v] /\ pos' = pos /\ script' = script /\ i'[v] = i[v] /\ pc'[v] = pc[v]
          /\ cycle'[v] = cycle[v] /\ on[v] \in Comms
      BY <2>2 DEF CommInv, Types, Enters, EnterBarrier
    <3>2. gather'[on[v]][v] = gather[on[v]][v]
      BY <2>2, <3>1 DEF CommInv, Types, Enters, EnterBarrier
    <3>3. QED
      BY <1>2, <3>1, <3>2 DEF CommInv, Inside
  <2>3. QED
    BY <2>1, <2>2
<1>3. QED
  BY <1>2 DEF Inside

LEMMA EnterGather ==
  ASSUME CommInv, NEW u \in UE, NEW c \in Comms, Enters(u, c)
  PROVE  GatherIs'
<1>0. Good(script) /\ On(script, c, pos[u], u) /\ pos[u] \in 1 .. Len(script) /\ pos[u] \in Nat
  BY OnNat DEF CommInv, Enters
<1>1. ASSUME NEW d \in Comms, NEW v \in UE
      PROVE  gather'[d][v] = Phase(script, d, v, Here(v)')
  <2>1. gather[d][v] = Phase(script, d, v, Here(v))
    BY DEF CommInv, GatherIs
  <2>2. CASE v # u
    <3>1. gather'[d][v] = gather[d][v] /\ pc'[v] = pc[v] /\ pos' = pos
      BY <2>2 DEF CommInv, Types, Enters, EnterBarrier
    <3>2. QED
      BY <2>1, <3>1 DEF Here
  <2>3. CASE v = u
    <3>1. Here(u) = pos[u] /\ Here(u)' = pos[u] + 1
      BY EnterOnward DEF Enters, Here
    <3>2. CASE d = c
      <4>1. gather'[c][u] = 1 - gather[c][u]
        BY DEF CommInv, Types, Enters, EnterBarrier
      <4>2. QED
        BY <1>0, <2>1, <2>3, <3>1, <3>2, <4>1, PhaseNext
    <3>3. CASE d # c
      <4>1. gather'[d][u] = gather[d][u]
        BY <3>3 DEF CommInv, Types, Enters, EnterBarrier
      <4>2. ~On(script, d, pos[u], u)
        BY <1>0, <3>3, OnOne
      <4>3. QED
        BY <1>0, <2>1, <2>3, <3>1, <4>1, <4>2, PhaseNext
    <3>4. QED
      BY <3>2, <3>3
  <2>4. QED
    BY <2>2, <2>3
<1>2. script' = script
  BY EnterOnward DEF Onward
<1>3. QED
  BY <1>1, <1>2 DEF GatherIs

LEMMA EnterRelease ==
  ASSUME CommInv, NEW u \in UE, NEW c \in Comms, Enters(u, c)
  PROVE  ReleaseIs'
<1>1. script' = script /\ pos' = pos /\ release' = release
  BY DEF Enters, EnterBarrier
<1>2. ASSUME NEW d \in Comms, NEW v \in UE, NEW k
      PROVE  On(script, d, k, v) => (Granted(d, k, v)' <=> Granted(d, k, v))
  BY EnterGranted
<1>3. QED
  BY <1>1, <1>2 DEF CommInv, ReleaseIs

\* What other UEs have seen they keep.
LEMMA SeenStays ==
  ASSUME CommInv, Onward, NEW v \in UE, NEW d \in Comms, NEW k \in Nat, pos[v] = k, on[v] = d,
         pc[v] = "poll", i'[v] = i[v], counter'[v] = counter[v]
  PROVE  Seen(v, d, k)'
<1>1. /\ On(script, d, k, v) /\ i[v] \in Nat
      /\ i[v] <= Len(MembersAt(script, d, k, v))
  BY DEF CommInv, Inside, Types
<1>2. IsGroup(script, d, k, v)
  BY <1>1, GroupIs DEF CommInv
<1>3. Seen(v, d, k)
  BY DEF CommInv, RootKnows
<1>4. ASSUME counter[v] = i[v], NEW x \in 1 .. i[v], NEW w, w = MembersAt(script, d, k, v)[x]
      PROVE  Begun(w, k)'
  <2>1. x \in 1 .. Len(MembersAt(script, d, k, v))
    BY <1>1, <1>2 DEF IsGroup
  <2>2. w \in UE
    BY <1>2, <1>4, <2>1 DEF IsGroup
  <2>3. Begun(w, k)
    BY <1>3, <1>4 DEF Seen
  <2>4. QED
    BY <2>2, <2>3 DEF Onward
<1>5. script' = script
  BY DEF Onward
<1>6. QED
  BY <1>3, <1>4, <1>5 DEF Seen

LEMMA KnownStays ==
  ASSUME CommInv, Onward, NEW v \in UE, NEW d \in Comms, NEW k \in Nat, pos[v] = k, on[v] = d,
         pc[v] = "release"
  PROVE  AllBegun(d, v, k)'
<1>1. On(script, d, k, v) /\ AllBegun(d, v, k)
  BY DEF CommInv, Inside, RootKnows
<1>2. QED
  BY <1>1, AllBegunStays

LEMMA EnterRoot ==
  ASSUME CommInv, NEW u \in UE, NEW c \in Comms, Enters(u, c)
  PROVE  RootKnows'
<1>0. /\ Onward /\ pos' = pos /\ script' = script
      /\ On(script, c, pos[u], u)
  BY EnterOnward DEF Enters, Onward
<1>1. ASSUME NEW v \in UE, v # u
      PROVE  on'[v] = on[v] /\ i'[v] = i[v] /\ counter'[v] = counter[v] /\ pc'[v] = pc[v]
  BY <1>1 DEF CommInv, Types, Enters, EnterBarrier
<1>2. on'[u] = c /\ i'[u] = 1 /\ counter'[u] = 1 /\ pc'[u] \in {"poll", "wait"}
      /\ (pc'[u] = "poll" => u = RootOf(u, c))
  BY DEF CommInv, Types, Enters, EnterBarrier
<1>3. ASSUME NEW d \in Comms, NEW v \in UE, NEW k \in Nat, pos'[v] = k, on'[v] = d
      PROVE  /\ pc'[v] = "poll" => Seen(v, d, k)'
             /\ pc'[v] = "release" => AllBegun(d, v, k)'
  <2>1. CASE v # u
    <3>1. /\ pos[v] = k /\ on[v] = d /\ pc'[v] = pc[v]
          /\ i'[v] = i[v] /\ counter'[v] = counter[v]
      BY <1>0, <1>1, <1>3, <2>1
    <3>2. QED
      BY <1>0, <3>1, SeenStays, KnownStays
  <2>2. CASE v = u
    <3>1. pos[u] = k /\ d = c
      BY <1>0, <1>2, <1>3, <2>2
    <3>2. ASSUME pc'[u] = "poll" PROVE Seen(u, c, k)'
      <4>1. MembersAt(script, c, k, u)[1] = u
        BY <1>0, <1>2, <3>1, <3>2, MembersNow DEF RootOf
      <4>2. Begun(u, k)'
        BY <1>0, <1>2, <3>1 DEF Begun
      <4>3. \A x \in 1 .. 1 : x = 1
        OBVIOUS
      <4>4. QED
        BY <1>0, <1>2, <4>1, <4>2, <4>3 DEF Seen
    <3>3. QED
      BY <1>2, <2>2, <3>1, <3>2
  <2>3. QED
    BY <2>1, <2>2
<1>4. QED
  BY <1>3 DEF RootKnows

LEMMA EnterPassed ==
  ASSUME CommInv, NEW u \in UE, NEW c \in Comms, Enters(u, c)
  PROVE  Passed' /\ Synchronised'
<1>1. Onward /\ script' = script /\ pos' = pos
  BY EnterOnward DEF Onward
<1>2. ASSUME NEW d \in Comms, NEW v \in UE, NEW k \in Nat, On(script, d, k, v), k < pos[v],
             RootAt(script, d, k, v) # v
      PROVE  Granted(d, k, v)'
  <2>1. Granted(d, k, v)
    BY <1>2 DEF CommInv, Passed
  <2>2. QED
    BY <1>2, <2>1, EnterGranted
<1>3. ASSUME NEW d \in Comms, NEW v \in UE, NEW k \in Nat, On(script, d, k, v), k < pos[v]
      PROVE  AllBegun(d, v, k)'
  <2>1. AllBegun(d, v, k)
    BY <1>3 DEF CommInv, Synchronised
  <2>2. QED
    BY <1>1, <1>3, <2>1, AllBegunStays
<1>4. QED
  BY <1>1, <1>2, <1>3 DEF Passed, Synchronised

LEMMA EnterKeeps ==
  ASSUME CommInv, NEW u \in UE, NEW c \in Comms, Enters(u, c)
  PROVE  CommInv'
<1>1. script' = script
  BY EnterOnward DEF Onward
<1>2. Good(script)'
  BY <1>1 DEF CommInv, Good
<1>3. QED
  BY <1>2, EnterTypes, EnterInside, EnterGather, EnterRelease, EnterRoot, EnterPassed DEF CommInv
-----------------------------------------------------------------------------
(***************************************************************************)
(* The root polls, and then releases the members.                          *)
(***************************************************************************)
\* A UE inside a barrier: its call, and the members that it reads.
LEMMA InsideIs ==
  ASSUME CommInv, NEW u \in UE, pc[u] # "run", NEW c, NEW k, NEW m, c = on[u], k = pos[u],
         m = MembersAt(script, c, k, u)
  PROVE  /\ c \in Comms /\ k \in Nat /\ On(script, c, k, u) /\ MembersOf(u, on[u]) = m
         /\ i[u] \in Nat /\ i[u] >= 1 /\ i[u] <= Len(m) /\ Len(m) \in Nat
         /\ counter[u] \in Nat /\ cycle[u] = gather[c][u] /\ gather[c][u] = Phase(script, c, u, k + 1)
         /\ pc[u] # "wait" => RootAt(script, c, k, u) = u
<1>1. /\ c \in Comms /\ On(script, c, k, u) /\ i[u] \in Nat /\ i[u] >= 1 /\ i[u] <= Len(m)
      /\ counter[u] \in Nat /\ cycle[u] = gather[c][u]
      /\ (pc[u] # "wait" => RootAt(script, c, k, u) = u)
  BY DEF CommInv, Types, Inside
<1>2. MembersOf(u, on[u]) = m /\ IsGroup(script, c, k, u)
  BY <1>1, MembersNow
<1>3. k \in Nat /\ Len(m) \in Nat
  BY <1>1, <1>2, OnNat DEF CommInv, IsGroup
<1>4. gather[c][u] = Phase(script, c, u, k + 1)
  BY <1>1 DEF CommInv, GatherIs, Here
<1>5. QED
  BY <1>1, <1>2, <1>3, <1>4

Polls(u) == PollRead(u) \/ PollPassEnd(u)

LEMMA PollFacts ==
  ASSUME CommInv, NEW u \in UE, Polls(u)
  PROVE  /\ UNCHANGED <<script, pos, on, gather, release, cycle, member, initialized>>
         /\ pc[u] = "poll" /\ pc' \in [UE -> {"run", "poll", "release", "wait"}]
         /\ pc'[u] \in {"poll", "release"} /\ (pc'[u] = "release" => i'[u] = 1)
         /\ \A v \in UE : v # u => pc'[v] = pc[v] /\ i'[v] = i[v] /\ counter'[v] = counter[v]
<1>1. CASE PollRead(u)
  BY <1>1 DEF CommInv, Types, PollRead
<1>2. CASE PollPassEnd(u)
  BY <1>2 DEF CommInv, Types, PollPassEnd
<1>3. QED
  BY <1>1, <1>2 DEF Polls

LEMMA PollRange ==
  ASSUME CommInv, NEW u \in UE, Polls(u)
  PROVE  /\ i' \in [UE -> Nat] /\ counter' \in [UE -> Nat]
         /\ i'[u] >= 1 /\ i'[u] <= Len(MembersAt(script, on[u], pos[u], u))
<1>1. PICK c, k : c = on[u] /\ k = pos[u]
  OBVIOUS
<1>2. PICK m : m = MembersAt(script, c, k, u)
  OBVIOUS
<1>3. pc[u] # "run"
  BY PollFacts
<1>4. /\ MembersOf(u, on[u]) = m /\ i[u] \in Nat /\ i[u] >= 1 /\ i[u] <= Len(m) /\ Len(m) \in Nat
      /\ counter[u] \in Nat
  BY <1>1, <1>2, <1>3, InsideIs
<1>5. i \in [UE -> Nat] /\ counter \in [UE -> Nat]
  BY DEF CommInv, Types
<1>6. CASE PollRead(u)
  <2>1. i' = [i EXCEPT ![u] = @ + 1] /\ i[u] < Len(m)
    BY <1>4, <1>6 DEF PollRead
  <2>2. counter'[u] \in {counter[u], counter[u] + 1} /\ counter' = [counter EXCEPT ![u] = counter'[u]]
    BY <1>5, <1>6 DEF PollRead
  <2>3. QED
    BY <1>1, <1>2, <1>4, <1>5, <2>1, <2>2
<1>7. CASE PollPassEnd(u)
  <2>1. i' = [i EXCEPT ![u] = 1]
    BY <1>7 DEF PollPassEnd
  <2>2. counter'[u] \in {counter[u], 1} /\ counter' = [counter EXCEPT ![u] = counter'[u]]
    BY <1>5, <1>7 DEF PollPassEnd
  <2>3. QED
    BY <1>1, <1>2, <1>4, <1>5, <2>1, <2>2
<1>8. QED
  BY <1>6, <1>7 DEF Polls

LEMMA PollOnward ==
  ASSUME CommInv, NEW u \in UE, Polls(u)
  PROVE  /\ Onward
         /\ \A v \in UE : pc'[v] = "run" <=> pc[v] = "run"
         /\ \A d \in Comms, v \in UE : \A k : On(script, d, k, v) => (Granted(d, k, v)' <=> Granted(d, k, v))
<1>1. /\ script' = script /\ pos' = pos /\ pc[u] = "poll"
      /\ pc'[u] \in {"poll", "release"} /\ (pc'[u] = "release" => i'[u] = 1)
      /\ \A v \in UE : v # u => pc'[v] = pc[v] /\ i'[v] = i[v]
  BY PollFacts
<1>2. \A v \in UE : pc'[v] = "run" <=> pc[v] = "run"
  BY <1>1
<1>3. Onward
  BY <1>1, <1>2 DEF Onward, Begun
<1>4. ASSUME NEW d \in Comms, NEW v \in UE, NEW k, On(script, d, k, v)
      PROVE  Granted(d, k, v)' <=> Granted(d, k, v)
  <2> DEFINE r == RootAt(script, d, k, v)
  <2>1. r \in UE
    BY <1>4, RootIs DEF CommInv
  <2>2. CASE r # u
    BY <1>1, <2>1, <2>2 DEF Granted
  <2>3. CASE r = u
    <3>1. ~(\E x \in 2 .. 1 : MembersAt(script, d, k, v)[x] = v)
      OBVIOUS
    <3>2. ~(pc'[u] = "release" /\ \E x \in 2 .. i'[u] : MembersAt(script, d, k, v)[x] = v)
      BY <1>1, <3>1
    <3>3. QED
      BY <1>1, <2>3, <3>2 DEF Granted
  <2>4. QED
    BY <2>2, <2>3
<1>5. QED
  BY <1>2, <1>3, <1>4

\* What holds of positions, gather flags, and of what is over.
LEMMA StandingStays ==
  ASSUME CommInv, Onward, UNCHANGED <<pos, on, gather, cycle, member, initialized>>,
         \A v \in UE : pc'[v] = "run" <=> pc[v] = "run",
         \A d \in Comms, v \in UE : \A k : On(script, d, k, v) => (Granted(d, k, v) => Granted(d, k, v)')
  PROVE  Rostered' /\ GatherIs' /\ Passed' /\ Synchronised' /\ Good(script)'
<1>1. script' = script
  BY DEF Onward
<1>2. Rostered'
  BY <1>1 DEF CommInv, Rostered
<1>3. \A v \in UE : Here(v)' = Here(v)
  BY DEF Here
<1>4. GatherIs'
  BY <1>1, <1>3 DEF CommInv, GatherIs
<1>5. Passed'
  BY <1>1 DEF CommInv, Passed
<1>6. ASSUME NEW d \in Comms, NEW v \in UE, NEW k \in Nat, On(script, d, k, v), k < pos[v]
      PROVE  AllBegun(d, v, k)'
  <2>1. AllBegun(d, v, k)
    BY <1>6 DEF CommInv, Synchronised
  <2>2. QED
    BY <1>6, <2>1, AllBegunStays
<1>7. Synchronised'
  BY <1>1, <1>6 DEF Synchronised
<1>8. Good(script)'
  BY <1>1 DEF CommInv, Good
<1>9. QED
  BY <1>2, <1>4, <1>5, <1>7, <1>8

\* The root has read the flags of all the members: they all have come.
LEMMA PollSees ==
  ASSUME CommInv, NEW u \in UE, PollRead(u), NEW c, NEW k, c = on[u], k = pos[u]
  PROVE  Seen(u, c, k)'
<1>1. PICK m : m = MembersAt(script, c, k, u)
  OBVIOUS
<1>2. pc[u] = "poll" /\ pc[u] # "run"
  BY DEF PollRead
<1>3. /\ c \in Comms /\ k \in Nat /\ On(script, c, k, u) /\ MembersOf(u, on[u]) = m
      /\ i[u] \in Nat /\ i[u] >= 1 /\ Len(m) \in Nat /\ counter[u] \in Nat
      /\ cycle[u] = Phase(script, c, u, k + 1)
  BY <1>1, <1>2, InsideIs
<1>4. /\ i[u] < Len(m) /\ i'[u] = i[u] + 1
      /\ counter'[u] = IF gather[c][m[i[u] + 1]] = cycle[u] THEN counter[u] + 1 ELSE counter[u]
  BY <1>3 DEF PollRead, CommInv, Types
<1>5. counter[u] <= i[u] /\ (counter[u] = i[u] => \A x \in 1 .. i[u] : Begun(m[x], k))
  BY <1>1, <1>2, <1>3 DEF CommInv, RootKnows, Seen
<1>6. counter'[u] <= i'[u]
  BY <1>3, <1>4, <1>5
<1>7. PICK y : y = i[u] + 1
  OBVIOUS
<1>8. y \in 1 .. Len(m)
  BY <1>3, <1>4, <1>7
<1>9. PICK w : w = m[y]
  OBVIOUS
<1>10. w \in UE
  BY <1>1, <1>3, <1>8, <1>9, GroupIs DEF CommInv, IsGroup
<1>11. ASSUME gather[c][w] = cycle[u] PROVE Begun(w, k)
  <2>1. k \in 1 .. Len(script) /\ Good(script) /\ k \in 1 .. Len(script) + 1
    BY <1>3, OnNat DEF CommInv
  <2>2. Phase(script, c, u, k) \in {0, 1} /\ Phase(script, c, u, k + 1) = 1 - Phase(script, c, u, k)
    BY <1>3, <2>1, MadeFinite, PhaseNext
  <2>3. gather[c][w] # Phase(script, c, u, k)
    BY <1>3, <1>11, <2>2
  <2>4. ~(Here(w) <= k)
    BY <1>1, <1>3, <1>8, <1>9, <1>10, <2>3, BehindIs
  <2>5. pos[w] \in Nat
    BY <1>10, PosIs DEF CommInv
  <2>6. QED
    BY <1>3, <2>4, <2>5 DEF Here, Begun
<1>12. ASSUME counter'[u] = i'[u], NEW x \in 1 .. i'[u] PROVE Begun(m[x], k)
  <2>1. gather[c][w] = cycle[u] /\ counter[u] = i[u]
    BY <1>3, <1>4, <1>5, <1>7, <1>9, <1>12
  <2>2. x = y \/ x \in 1 .. i[u]
    BY <1>3, <1>4, <1>7, <1>12
  <2>3. QED
    BY <1>5, <1>9, <1>11, <2>1, <2>2
<1>13. script' = script /\ pos' = pos /\ pc' = pc
  BY DEF PollRead
<1>14. QED
  BY <1>1, <1>6, <1>12, <1>13 DEF Seen, Begun

LEMMA PollRoot ==
  ASSUME CommInv, NEW u \in UE, Polls(u)
  PROVE  RootKnows'
<1>0. /\ script' = script /\ pos' = pos /\ on' = on /\ pc[u] = "poll" /\ Onward
      /\ \A v \in UE : v # u => pc'[v] = pc[v] /\ i'[v] = i[v] /\ counter'[v] = counter[v]
  BY PollFacts, PollOnward
<1>1. ASSUME NEW d \in Comms, NEW v \in UE, NEW k \in Nat, pos'[v] = k, on'[v] = d
      PROVE  /\ pc'[v] = "poll" => Seen(v, d, k)'
             /\ pc'[v] = "release" => AllBegun(d, v, k)'
  <2>1. pos[v] = k /\ on[v] = d
    BY <1>0, <1>1
  <2>2. CASE v # u
    BY <1>0, <2>1, <2>2, SeenStays, KnownStays
  <2>3. CASE v = u
    <3>1. CASE PollRead(u)
      <4>1. pc' = pc
        BY <3>1 DEF PollRead
      <4>2. QED
        BY <1>0, <2>1, <2>3, <3>1, <4>1, PollSees
    <3>2. CASE PollPassEnd(u)
      <4>1. PICK m : m = MembersAt(script, d, k, u)
        OBVIOUS
      <4>2. /\ On(script, d, k, u) /\ MembersOf(u, on[u]) = m /\ Len(m) \in Nat
            /\ i[u] \in Nat /\ counter[u] \in Nat /\ Len(m) >= 1
        <5>1. /\ On(script, d, k, u) /\ MembersOf(u, on[u]) = m /\ Len(m) \in Nat
              /\ i[u] \in Nat /\ counter[u] \in Nat /\ i[u] >= 1 /\ i[u] <= Len(m)
          BY <1>0, <2>1, <2>3, <4>1, InsideIs
        <5>2. QED
          BY <5>1
      <4>3. Seen(u, d, k)
        BY <1>0, <2>1, <2>3 DEF CommInv, RootKnows
      <4>4. /\ i[u] = Len(m) /\ i'[u] = 1
            /\ counter'[u] = IF counter[u] = Len(m) THEN counter[u] ELSE 1
            /\ pc'[u] = IF counter[u] = Len(m) THEN "release" ELSE "poll"
        BY <3>2, <4>2 DEF PollPassEnd, CommInv, Types
      <4>5. CASE counter[u] = Len(m)
        <5>1. AllBegun(d, u, k)
          BY <4>1, <4>3, <4>4, <4>5 DEF Seen, AllBegun
        <5>2. AllBegun(d, u, k)'
          BY <1>0, <4>2, <5>1, AllBegunStays
        <5>3. QED
          BY <2>3, <4>4, <4>5, <5>2
      <4>6. CASE counter[u] # Len(m)
        <5>1. counter'[u] = 1 /\ i'[u] = 1 /\ pc'[u] = "poll"
          BY <4>4, <4>6
        <5>2. m[1] = u
          BY <1>0, <2>1, <2>3, <4>1, InsideIs DEF RootAt
        <5>3. Begun(u, k)'
          BY <1>0, <2>1, <2>3, <5>1 DEF Begun
        <5>4. \A x \in 1 .. 1 : x = 1
          OBVIOUS
        <5>5. Seen(u, d, k)'
          BY <1>0, <4>1, <5>1, <5>2, <5>3, <5>4 DEF Seen
        <5>6. QED
          BY <2>3, <5>1, <5>5
      <4>7. QED
        BY <4>5, <4>6
    <3>3. QED
      BY <3>1, <3>2 DEF Polls
  <2>4. QED
    BY <2>2, <2>3
<1>2. QED
  BY <1>1 DEF RootKnows

LEMMA PollKeeps ==
  ASSUME CommInv, NEW u \in UE, Polls(u)
  PROVE  CommInv'
<1>0. UNCHANGED <<script, pos, on, gather, release, cycle, member, initialized>>
  BY PollFacts
<1>1. Types'
  BY <1>0, PollFacts, PollRange DEF CommInv, Types
<1>2. Inside'
  <2>1. ASSUME NEW v \in UE
        PROVE  /\ pc'[v] # "run" <=> pc[v] # "run"
               /\ pc'[v] = "wait" <=> pc[v] = "wait"
               /\ v # u => i'[v] = i[v]
    BY PollFacts
  <2>2. pc[u] # "run"
    BY PollFacts
  <2>3. QED
    BY <1>0, <2>1, <2>2, PollRange DEF CommInv, Inside
<1>3. Rostered' /\ GatherIs' /\ Passed' /\ Synchronised' /\ Good(script)'
  BY <1>0, PollOnward, StandingStays
<1>4. ReleaseIs'
  BY <1>0, PollOnward DEF CommInv, ReleaseIs
<1>5. QED
  BY <1>1, <1>2, <1>3, <1>4, PollRoot DEF CommInv
\* The member that the root u writes to next.
Target(u, c, k, w) ==
  /\ pc[u] = "release" /\ c = on[u] /\ k = pos[u] /\ On(script, c, k, u) /\ c \in Comms /\ k \in Nat
  /\ i[u] \in Nat /\ i[u] >= 1 /\ RootAt(script, c, k, u) = u
  /\ i[u] + 1 \in 1 .. Len(MembersAt(script, c, k, u))
  /\ w = MembersAt(script, c, k, u)[i[u] + 1]
  /\ cycle[u] = Phase(script, c, u, k + 1)

Writes(u, c, k, w) == Target(u, c, k, w) /\ release' = [release EXCEPT ![c][w] = cycle[u]]

LEMMA WriteFacts ==
  ASSUME CommInv, NEW u \in UE, ReleaseWrite(u), NEW c, NEW k, c = on[u], k = pos[u]
  PROVE  /\ \E w \in UE : Writes(u, c, k, w)
         /\ i' = [i EXCEPT ![u] = @ + 1]
         /\ UNCHANGED <<script, pos, pc, on, gather, cycle, counter, member, initialized>>
<1>1. PICK m : m = MembersAt(script, c, k, u)
  OBVIOUS
<1>2. pc[u] = "release" /\ pc[u] # "run" /\ pc[u] # "wait"
  BY DEF ReleaseWrite
<1>3. /\ c \in Comms /\ k \in Nat /\ On(script, c, k, u) /\ MembersOf(u, on[u]) = m
      /\ i[u] \in Nat /\ i[u] >= 1 /\ Len(m) \in Nat
      /\ cycle[u] = Phase(script, c, u, k + 1) /\ RootAt(script, c, k, u) = u
  BY <1>1, <1>2, InsideIs
<1>4. /\ i[u] < Len(m) /\ i' = [i EXCEPT ![u] = @ + 1]
      /\ release' = [release EXCEPT ![on[u]][m[i[u] + 1]] = cycle[u]]
  BY <1>3 DEF ReleaseWrite
<1>5. i[u] + 1 \in 1 .. Len(m)
  BY <1>3, <1>4
<1>6. m[i[u] + 1] \in UE
  BY <1>1, <1>3, <1>5, GroupIs DEF CommInv, IsGroup
<1>7. PICK w \in UE : w = m[i[u] + 1]
  BY <1>6
<1>8. Target(u, c, k, w)
  BY <1>1, <1>2, <1>3, <1>5, <1>7, Zenon DEF Target
<1>9. release' = [release EXCEPT ![c][w] = cycle[u]]
  BY <1>4, <1>7
<1>10. QED
  BY <1>4, <1>8, <1>9 DEF ReleaseWrite, Writes

\* It is in this call, is not the root, and has not been released from it.
LEMMA TargetIs ==
  ASSUME CommInv, NEW u \in UE, NEW c, NEW k, NEW w \in UE, Target(u, c, k, w)
  PROVE  /\ On(script, c, k, w) /\ pos[w] = k /\ w # u /\ ~Granted(c, k, w)
         /\ RootAt(script, c, k, w) = u /\ MembersAt(script, c, k, w) = MembersAt(script, c, k, u)
         /\ Phase(script, c, w, k + 1) = Phase(script, c, u, k + 1)
<1>1. PICK m : m = MembersAt(script, c, k, u)
  OBVIOUS
<1>2. PICK y : y = i[u] + 1
  OBVIOUS
<1>3. /\ Good(script) /\ c \in Comms /\ k \in Nat /\ On(script, c, k, u) /\ c = on[u] /\ k = pos[u]
      /\ y \in 1 .. Len(m) /\ y # 1 /\ w = m[y] /\ i[u] \in Nat /\ RootAt(script, c, k, u) = u
      /\ pc[u] = "release"
  BY <1>1, <1>2 DEF Target, CommInv
<1>4. IsGroup(script, c, k, u) /\ m[1] = u
  BY <1>1, <1>3, GroupIs DEF RootAt
<1>5. /\ On(script, c, k, w) /\ MembersAt(script, c, k, w) = m
      /\ \A x, z \in 1 .. Len(m) : m[x] = m[z] => x = z
  BY <1>1, <1>3, <1>4 DEF IsGroup
<1>6. 1 \in 1 .. Len(m)
  BY <1>3
<1>7. w # u /\ RootAt(script, c, k, w) = u
  BY <1>3, <1>4, <1>5, <1>6 DEF RootAt
<1>8. ~Granted(c, k, w)
  <2>1. ~(pos[u] > k)
    BY <1>3
  <2>2. ASSUME NEW x \in 2 .. i[u], m[x] = w PROVE FALSE
    <3>1. x \in 1 .. Len(m) /\ x # y
      BY <1>2, <1>3
    <3>2. QED
      BY <1>3, <1>5, <2>2, <3>1
  <2>3. QED
    BY <1>5, <1>7, <2>1, <2>2 DEF Granted
<1>9. pos[w] = k
  <2>1. AllBegun(c, u, k)
    BY <1>3 DEF CommInv, RootKnows
  <2>2. Begun(w, k)
    BY <1>1, <1>3, <2>1 DEF AllBegun
  <2>3. ~(k < pos[w])
    BY <1>3, <1>5, <1>7, <1>8 DEF CommInv, Passed
  <2>4. pos[w] \in Nat
    BY PosIs DEF CommInv
  <2>5. QED
    BY <1>3, <2>2, <2>3, <2>4 DEF Begun
<1>10. Phase(script, c, w, k) = Phase(script, c, u, k)
  BY <1>1, <1>3, PhaseAgrees
<1>11. Phase(script, c, w, k + 1) = Phase(script, c, u, k + 1)
  BY <1>3, <1>5, <1>10, OnNat, PhaseNext
<1>12. QED
  BY <1>1, <1>5, <1>7, <1>8, <1>9, <1>11

LEMMA WriteGranted ==
  ASSUME CommInv, NEW u \in UE, ReleaseWrite(u), NEW c, NEW k, NEW w \in UE, Target(u, c, k, w),
         NEW d \in Comms, NEW v \in UE, NEW l, On(script, d, l, v)
  PROVE  Granted(d, l, v)' <=> Granted(d, l, v) \/ (d = c /\ l = k /\ v = w)
<1> DEFINE r == RootAt(script, d, l, v)
<1>0. /\ script' = script /\ pos' = pos /\ pc' = pc /\ c = on[u] /\ k = pos[u]
      /\ pc[u] = "release" /\ i[u] \in Nat /\ c \in Comms /\ On(script, c, k, u)
  BY DEF ReleaseWrite, Target
<1>1. i'[u] = i[u] + 1 /\ \A x \in UE : x # u => i'[x] = i[x]
  <2>1. i' = [i EXCEPT ![u] = @ + 1]
    BY <1>0, WriteFacts
  <2>2. i \in [UE -> Nat]
    BY DEF CommInv, Types
  <2>3. QED
    BY <2>1, <2>2
<1>2. /\ r \in UE /\ On(script, d, l, r) /\ MembersAt(script, d, l, r) = MembersAt(script, d, l, v)
  BY RootIs DEF CommInv
<1>3. RootAt(script, c, k, w) = u /\ On(script, c, k, w)
  BY TargetIs
<1>4. CASE r # u
  <2>1. Granted(d, l, v)' <=> Granted(d, l, v)
    BY <1>0, <1>1, <1>2, <1>4 DEF Granted
  <2>2. QED
    BY <1>3, <1>4, <2>1
<1>5. CASE r = u /\ l # k
  <2>1. pos[r] # l
    BY <1>0, <1>5
  <2>2. Granted(d, l, v)' <=> Granted(d, l, v)
    BY <1>0, <2>1 DEF Granted
  <2>3. QED
    BY <1>5, <2>2
<1>6. CASE r = u /\ l = k
  <2>1. d = c
    BY <1>0, <1>2, <1>6, OnOne
  <2>2. PICK m : m = MembersAt(script, c, k, u)
    OBVIOUS
  <2>3. MembersAt(script, c, k, v) = m
    BY <1>2, <1>6, <2>1, <2>2
  <2>4. ~(pos[u] > k)
    <3>1. k \in Nat
      BY DEF Target
    <3>2. QED
      BY <1>0, <3>1
  <2>5. Granted(c, k, v) <=> \E x \in 2 .. i[u] : m[x] = v
    BY <1>0, <1>6, <2>1, <2>3, <2>4 DEF Granted
  <2>6. Granted(c, k, v)' <=> \E x \in 2 .. i[u] + 1 : m[x] = v
    BY <1>0, <1>1, <1>6, <2>1, <2>3, <2>4 DEF Granted
  <2>7. w = m[i[u] + 1] /\ i[u] >= 1
    BY <2>2 DEF Target
  <2>8. \A x : x \in 2 .. i[u] + 1 <=> x \in 2 .. i[u] \/ x = i[u] + 1
    BY <1>0, <2>7
  <2>9. Granted(c, k, v)' <=> Granted(c, k, v) \/ v = w
    BY <2>5, <2>6, <2>7, <2>8
  <2>10. QED
    BY <1>6, <2>1, <2>9
<1>7. QED
  BY <1>4, <1>5, <1>6

LEMMA WriteKeeps ==
  ASSUME CommInv, NEW u \in UE, ReleaseWrite(u)
  PROVE  CommInv'
<1>1. PICK c, k : c = on[u] /\ k = pos[u]
  OBVIOUS
<1>0. PICK w \in UE : Writes(u, c, k, w)
  BY <1>1, WriteFacts
<1>2. Target(u, c, k, w) /\ release' = [release EXCEPT ![c][w] = cycle[u]]
  BY <1>0 DEF Writes
<1>3. /\ UNCHANGED <<script, pos, pc, on, gather, cycle, counter, member, initialized>>
      /\ i' = [i EXCEPT ![u] = @ + 1]
  BY <1>1, WriteFacts
<1>4. /\ On(script, c, k, w) /\ pos[w] = k /\ w # u /\ ~Granted(c, k, w)
      /\ RootAt(script, c, k, w) = u
      /\ Phase(script, c, w, k + 1) = Phase(script, c, u, k + 1)
  BY <1>2, TargetIs
<1>5. /\ c \in Comms /\ k \in Nat /\ On(script, c, k, u) /\ i[u] \in Nat /\ i[u] >= 1
      /\ i[u] + 1 \in 1 .. Len(MembersAt(script, c, k, u)) /\ pc[u] = "release"
      /\ cycle[u] = Phase(script, c, u, k + 1)
  BY <1>2 DEF Target
<1>6. /\ i' \in [UE -> Nat] /\ i'[u] = i[u] + 1 /\ \A v \in UE : v # u => i'[v] = i[v]
  <2>1. i \in [UE -> Nat]
    BY DEF CommInv, Types
  <2>2. QED
    BY <1>3, <1>5, <2>1
<1>7. /\ release' \in [Comms -> [UE -> Nat]] /\ release'[c][w] = cycle[u]
      /\ \A d \in Comms, v \in UE : ~(d = c /\ v = w) => release'[d][v] = release[d][v]
  BY <1>2, <1>5 DEF CommInv, Types
<1>8. Types'
  BY <1>3, <1>6, <1>7 DEF CommInv, Types
<1>9. Onward
  BY <1>3 DEF Onward, Begun
<1>10. ASSUME NEW d \in Comms, NEW v \in UE, NEW l, On(script, d, l, v)
       PROVE  Granted(d, l, v)' <=> Granted(d, l, v) \/ (d = c /\ l = k /\ v = w)
  BY <1>2, <1>10, WriteGranted
<1>11. Rostered' /\ GatherIs' /\ Passed' /\ Synchronised' /\ Good(script)'
  BY <1>3, <1>9, <1>10, StandingStays
<1>12. Inside'
  <2>1. ASSUME NEW v \in UE, pc[v] # "run"
        PROVE  i'[v] >= 1 /\ i'[v] <= Len(MembersAt(script, on[v], pos[v], v))
    <3>1. CASE v # u
      BY <1>6, <2>1, <3>1 DEF CommInv, Inside
    <3>2. CASE v = u
      <4>1. IsGroup(script, c, k, u)
        BY <1>5, GroupIs DEF CommInv
      <4>2. Len(MembersAt(script, c, k, u)) \in Nat
        BY <4>1 DEF IsGroup
      <4>3. QED
        BY <1>1, <1>5, <1>6, <3>2, <4>2
    <3>3. QED
      BY <3>1, <3>2
  <2>2. QED
    BY <1>3, <2>1 DEF CommInv, Inside
<1>13. ReleaseIs'
  <2>1. ASSUME NEW d \in Comms, NEW v \in UE, NEW l \in Nat, pos[v] = l
        PROVE  release'[d][v] =
                 IF On(script, d, l, v) /\ RootAt(script, d, l, v) # v /\ Granted(d, l, v)'
                 THEN Phase(script, d, v, l + 1) ELSE Left(script, d, l, v)
    <3>1. CASE d = c /\ v = w
      <4>1. l = k /\ Granted(c, k, w)'
        BY <1>4, <1>5, <1>10, <2>1, <3>1
      <4>2. QED
        BY <1>4, <1>5, <1>7, <3>1, <4>1
    <3>2. CASE ~(d = c /\ v = w)
      <4>1. On(script, d, l, v) => (Granted(d, l, v)' <=> Granted(d, l, v))
        BY <1>10, <3>2
      <4>2. release'[d][v] = release[d][v]
        BY <1>7, <3>2
      <4>3. QED
        BY <2>1, <4>1, <4>2 DEF CommInv, ReleaseIs
    <3>3. QED
      BY <3>1, <3>2
  <2>2. QED
    BY <1>3, <2>1 DEF ReleaseIs
<1>14. RootKnows'
  <2>1. ASSUME NEW d \in Comms, NEW v \in UE, NEW l \in Nat, pos[v] = l, on[v] = d
        PROVE  /\ pc[v] = "poll" => Seen(v, d, l)'
               /\ pc[v] = "release" => AllBegun(d, v, l)'
    <3>1. ASSUME pc[v] = "poll" PROVE Seen(v, d, l)'
      <4>1. v # u
        BY <1>5, <3>1
      <4>2. i'[v] = i[v] /\ counter'[v] = counter[v]
        BY <1>3, <1>6, <4>1
      <4>3. QED
        BY <1>9, <2>1, <3>1, <4>2, SeenStays
    <3>2. QED
      BY <1>9, <2>1, <3>1, KnownStays
  <2>2. QED
    BY <1>3, <2>1 DEF RootKnows
<1>15. QED
  BY <1>8, <1>11, <1>12, <1>13, <1>14 DEF CommInv

-----------------------------------------------------------------------------
(***************************************************************************)
(* A UE goes on to the next step.                                          *)
(***************************************************************************)
\* u leaves its call, or skips a step that is none; it becomes a member of the
\* parts of a split that it leaves.
Goes(u, k) ==
  /\ k = pos[u] /\ k \in 1 .. Len(script)
  /\ pos' = [pos EXCEPT ![u] = k + 1] /\ pc' = [pc EXCEPT ![u] = "run"]
  /\ UNCHANGED <<script, on, gather, release, cycle, i, counter>>
  /\ member' = [member EXCEPT ![u] = IF script[k].op = "split" THEN Ranked(Part(script, k, u)) ELSE @]
  /\ initialized' = [initialized EXCEPT ![u] = IF script[k].op = "split" THEN TRUE ELSE @]
  /\ pc[u] = "run" => \A c \in Comms : ~On(script, c, k, u)
  /\ \A c \in Comms : On(script, c, k, u) =>
       /\ AllBegun(c, u, k)
       /\ RootAt(script, c, k, u) # u => Granted(c, k, u)
       /\ RootAt(script, c, k, u) = u =>
            /\ pc[u] = "release" /\ i[u] = Len(MembersAt(script, c, k, u))

LEMMA GoesFacts ==
  ASSUME CommInv, NEW u \in UE, NEW k, Goes(u, k)
  PROVE  /\ k \in Nat /\ k \in 1 .. Len(script) /\ k \in 1 .. Len(script) + 1 /\ k + 1 \in 1 .. Len(script) + 1
         /\ pos'[u] = k + 1 /\ pc'[u] = "run"
         /\ \A v \in UE : v # u => pos'[v] = pos[v] /\ pc'[v] = pc[v]
         /\ Onward
<1>1. k \in Nat /\ k \in 1 .. Len(script) /\ k \in 1 .. Len(script) + 1 /\ k + 1 \in 1 .. Len(script) + 1
  BY LenIs DEF CommInv, Goes
<1>2. pos'[u] = k + 1 /\ pc'[u] = "run"
  BY DEF CommInv, Types, Goes
<1>3. \A v \in UE : v # u => pos'[v] = pos[v] /\ pc'[v] = pc[v]
  BY DEF CommInv, Types, Goes
<1>4. ASSUME NEW v \in UE, NEW l \in Nat, Begun(v, l) PROVE Begun(v, l)'
  <2>1. CASE v # u
    BY <1>3, <1>4, <2>1 DEF Begun
  <2>2. CASE v = u
    BY <1>1, <1>2, <1>4, <2>2 DEF Begun, Goes
  <2>3. QED
    BY <2>1, <2>2
<1>5. QED
  BY <1>1, <1>2, <1>3, <1>4 DEF Onward, Goes

\* No member is released by it, and none loses its release.
LEMMA GoesGranted ==
  ASSUME CommInv, NEW u \in UE, NEW k, Goes(u, k), NEW d \in Comms, NEW v \in UE, NEW l, On(script, d, l, v)
  PROVE  /\ Granted(d, l, v) => Granted(d, l, v)'
         /\ v # RootAt(script, d, l, v) /\ Granted(d, l, v)' => Granted(d, l, v)
<1> DEFINE r == RootAt(script, d, l, v)
<1>0. /\ k = pos[u] /\ k \in Nat /\ pos'[u] = k + 1 /\ pc'[u] = "run" /\ script' = script /\ i' = i
      /\ \A x \in UE : x # u => pos'[x] = pos[x] /\ pc'[x] = pc[x]
  <2>1. k = pos[u] /\ script' = script /\ i' = i
    BY DEF Goes
  <2>2. QED
    BY <2>1, GoesFacts
<1>1. /\ r \in UE /\ On(script, d, l, r) /\ MembersAt(script, d, l, r) = MembersAt(script, d, l, v)
      /\ RootAt(script, d, l, r) = r /\ MembersAt(script, d, l, v)[1] = r
  BY RootIs DEF CommInv
<1>2. l \in Nat
  BY OnNat DEF CommInv
<1>3. CASE r # u
  BY <1>0, <1>1, <1>3 DEF Granted
<1>4. CASE r = u
  <2>1. Granted(d, l, v)' <=> k + 1 > l
    BY <1>0, <1>4 DEF Granted
  <2>2. Granted(d, l, v) => k >= l
    BY <1>0, <1>2, <1>4 DEF Granted
  <2>3. Granted(d, l, v) => Granted(d, l, v)'
    BY <1>0, <1>2, <2>1, <2>2
  <2>4. ASSUME v # r, k + 1 > l PROVE Granted(d, l, v)
    <3>1. CASE k > l
      BY <1>0, <1>4, <3>1 DEF Granted
    <3>2. CASE k = l
      <4>1. pc[u] = "release" /\ i[u] = Len(MembersAt(script, d, l, v))
        BY <1>1, <1>4, <3>2 DEF Goes
      <4>2. IsGroup(script, d, l, v)
        BY GroupIs DEF CommInv
      <4>3. PICK x \in 1 .. Len(MembersAt(script, d, l, v)) : MembersAt(script, d, l, v)[x] = v
        BY <4>2 DEF IsGroup
      <4>4. x # 1
        BY <1>1, <2>4, <4>3
      <4>5. x \in 2 .. i[u]
        BY <4>1, <4>4
      <4>6. QED
        BY <1>0, <1>4, <3>2, <4>1, <4>3, <4>5 DEF Granted
    <3>3. QED
      BY <1>0, <1>2, <2>4, <3>1, <3>2
  <2>5. QED
    BY <2>1, <2>3, <2>4
<1>5. QED
  BY <1>3, <1>4
LEMMA GoesTypes ==
  ASSUME CommInv, NEW u \in UE, NEW k, Goes(u, k)
  PROVE  Types'
<1>1. k \in Nat /\ k + 1 \in 1 .. Len(script) + 1
  BY GoesFacts
<1>2. Part(script, k, u) \in SUBSET UE /\ Part(script, k, u) # {}
  BY PartIs
<1>3. Lists(Ranked(Part(script, k, u)), Part(script, k, u))
  BY <1>2, RankedLists
<1>4. Ranked(Part(script, k, u)) \in Seq(Part(script, k, u))
  BY <1>3 DEF Lists
<1>5. Ranked(Part(script, k, u)) \in Seq(UE)
  BY <1>2, <1>4
<1>6. member' \in [UE -> Seq(UE)]
  BY <1>5 DEF CommInv, Types, Goes
<1>7. pos' \in [UE -> Nat] /\ \A v \in UE : pos'[v] \in 1 .. Len(script') + 1
  <2>1. pos \in [UE -> Nat] /\ \A v \in UE : pos[v] \in 1 .. Len(script) + 1
    BY DEF CommInv, Types
  <2>2. pos' = [pos EXCEPT ![u] = k + 1] /\ script' = script
    BY DEF Goes
  <2>3. QED
    BY <1>1, <2>1, <2>2
<1>8. QED
  BY <1>6, <1>7 DEF CommInv, Types, Goes

LEMMA GoesRostered ==
  ASSUME CommInv, NEW u \in UE, NEW k, Goes(u, k)
  PROVE  Rostered'
<1>0. /\ Good(script) /\ k \in 1 .. Len(script) /\ k \in 1 .. Len(script) + 1
      /\ k + 1 \in 1 .. Len(script) + 1 /\ pos'[u] = k + 1 /\ k = pos[u] /\ script' = script
      /\ \A v \in UE : v # u => pos'[v] = pos[v]
  <2>1. Good(script) /\ k = pos[u] /\ script' = script
    BY DEF CommInv, Goes
  <2>2. QED
    BY <2>1, GoesFacts
<1>1. /\ \A v \in UE : v # u => member'[v] = member[v] /\ initialized'[v] = initialized[v]
      /\ member'[u] = IF script[k].op = "split" THEN Ranked(Part(script, k, u)) ELSE member[u]
      /\ initialized'[u] = IF script[k].op = "split" THEN TRUE ELSE initialized[u]
  BY DEF CommInv, Types, Goes
<1>2. ASSUME NEW v \in UE
      PROVE  /\ initialized'[v] <=> \E j : Latest(script, j, pos'[v])
             /\ initialized'[v] => member'[v] = Ranked(Part(script, Last(script, pos'[v]), v))
  <2>1. CASE v # u
    BY <1>0, <1>1, <2>1 DEF CommInv, Rostered
  <2>2. CASE v = u /\ script[k].op = "split"
    <3>0. Latest(script, k, k + 1)
      BY <1>0, <2>2, LatestNext
    <3>1. Latest(script, k, k + 1) /\ Last(script, k + 1) = k
      BY <1>0, <3>0, LatestIs
    <3>2. QED
      BY <1>0, <1>1, <2>2, <3>1
  <2>3. CASE v = u /\ script[k].op # "split"
    <3>1. \A j : Latest(script, j, k + 1) <=> Latest(script, j, k)
      BY <1>0, <2>3, LatestNext
    <3>2. ASSUME NEW j, Latest(script, j, k) PROVE Last(script, k + 1) = Last(script, k)
      BY <1>0, <3>1, <3>2, LatestIs
    <3>3. /\ initialized[u] <=> \E j : Latest(script, j, k)
          /\ initialized[u] => member[u] = Ranked(Part(script, Last(script, k), u))
      BY <1>0 DEF CommInv, Rostered
    <3>4. QED
      BY <1>0, <1>1, <2>3, <3>1, <3>2, <3>3
  <2>4. QED
    BY <2>1, <2>2, <2>3
<1>3. QED
  BY <1>0, <1>2 DEF Rostered

LEMMA GoesInside ==
  ASSUME CommInv, NEW u \in UE, NEW k, Goes(u, k)
  PROVE  Inside' /\ GatherIs'
<1>0. /\ script' = script /\ on' = on /\ i' = i /\ cycle' = cycle /\ gather' = gather /\ k = pos[u]
      /\ (pc[u] = "run" => \A c \in Comms : ~On(script, c, k, u)) /\ Good(script)
  BY DEF CommInv, Goes
<1>1. pos'[u] = k + 1 /\ pc'[u] = "run" /\ k \in 1 .. Len(script)
      /\ \A v \in UE : v # u => pos'[v] = pos[v] /\ pc'[v] = pc[v]
  BY GoesFacts
<1>2. Inside'
  <2>1. ASSUME NEW v \in UE, pc'[v] # "run" PROVE pos'[v] = pos[v] /\ pc'[v] = pc[v]
    BY <1>1, <2>1
  <2>2. QED
    BY <1>0, <2>1 DEF CommInv, Inside
<1>3. ASSUME NEW c \in Comms, NEW v \in UE PROVE gather[c][v] = Phase(script, c, v, Here(v)')
  <2>1. gather[c][v] = Phase(script, c, v, Here(v))
    BY DEF CommInv, GatherIs
  <2>2. CASE v # u
    BY <1>1, <2>1, <2>2 DEF Here
  <2>3. CASE v = u /\ pc[u] # "run"
    BY <1>0, <1>1, <2>1, <2>3 DEF Here
  <2>4. CASE v = u /\ pc[u] = "run"
    <3>1. Phase(script, c, u, k + 1) = Phase(script, c, u, k)
      BY <1>0, <1>1, <2>4, PhaseNext
    <3>2. QED
      BY <1>0, <1>1, <2>1, <2>4, <3>1 DEF Here
  <2>5. QED
    BY <2>2, <2>3, <2>4
<1>4. QED
  BY <1>0, <1>2, <1>3 DEF GatherIs

LEMMA GoesRelease ==
  ASSUME CommInv, NEW u \in UE, NEW k, Goes(u, k)
  PROVE  ReleaseIs'
<1>0. Good(script) /\ k = pos[u] /\ script' = script /\ release' = release
  BY DEF CommInv, Goes
<1>1. k \in Nat /\ k \in 1 .. Len(script) /\ pos'[u] = k + 1 /\ \A v \in UE : v # u => pos'[v] = pos[v]
  BY GoesFacts
<1>2. ASSUME NEW c \in Comms, NEW v \in UE, NEW l \in Nat, pos'[v] = l
      PROVE  release[c][v] =
               IF On(script, c, l, v) /\ RootAt(script, c, l, v) # v /\ Granted(c, l, v)'
               THEN Phase(script, c, v, l + 1) ELSE Left(script, c, l, v)
  <2>1. CASE v # u
    <3>1. pos[v] = l
      BY <1>1, <1>2, <2>1
    <3>2. On(script, c, l, v) /\ RootAt(script, c, l, v) # v => (Granted(c, l, v)' <=> Granted(c, l, v))
      BY GoesGranted
    <3>3. QED
      BY <3>1, <3>2 DEF CommInv, ReleaseIs
  <2>2. CASE v = u
    <3>1. l = k + 1
      BY <1>1, <1>2, <2>2
    <3>2. ~(On(script, c, l, u) /\ RootAt(script, c, l, u) # u /\ Granted(c, l, u)')
      <4>1. SUFFICES ASSUME On(script, c, l, u), RootAt(script, c, l, u) # u, Granted(c, l, u)' PROVE FALSE
        OBVIOUS
      <4>2. Granted(c, l, u)
        BY <4>1, GoesGranted
      <4>3. Begun(u, l)
        BY <4>1, <4>2, GrantedBegun
      <4>4. QED
        BY <1>0, <1>1, <3>1, <4>3 DEF Begun
    <3>3. release[c][u] = IF On(script, c, k, u) /\ RootAt(script, c, k, u) # u /\ Granted(c, k, u)
                          THEN Phase(script, c, u, k + 1) ELSE Left(script, c, k, u)
      BY <1>0, <1>1 DEF CommInv, ReleaseIs
    <3>4. CASE ~On(script, c, k, u)
      <4>1. Left(script, c, k + 1, u) = Left(script, c, k, u)
        BY <1>0, <1>1, <3>4, LeftNext
      <4>2. QED
        BY <2>2, <3>1, <3>2, <3>3, <3>4, <4>1
    <3>5. CASE On(script, c, k, u)
      <4>1. c = "world" \/ script[k].op = "barrier"
        BY <3>5 DEF On
      <4>2. Quiet(script, c, k + 1, u) <=> Quiet(script, c, k, u)
        BY <1>0, <1>1, <4>1, MembersNext
      <4>3. Quiet(script, c, k, u) <=> RootAt(script, c, k, u) = u
        <5>1. c # "comm" \/ \E j : Latest(script, j, k)
          <6>1. c # "comm" \/ script[k].op = "barrier"
            BY <3>5 DEF On
          <6>2. QED
            BY <1>0, <1>1, <6>1, BarrierIs
        <5>2. QED
          BY <5>1 DEF Quiet
      <4>4. RootAt(script, c, k, u) # u => Granted(c, k, u)
        BY <3>5 DEF Goes
      <4>5. Left(script, c, k + 1, u) = release[c][u]
        BY <3>3, <3>5, <4>2, <4>3, <4>4 DEF Left
      <4>6. QED
        BY <2>2, <3>1, <3>2, <4>5
    <3>6. QED
      BY <3>4, <3>5
  <2>3. QED
    BY <2>1, <2>2
<1>3. QED
  BY <1>0, <1>2 DEF ReleaseIs

LEMMA GoesKnows ==
  ASSUME CommInv, NEW u \in UE, NEW k, Goes(u, k)
  PROVE  RootKnows' /\ Passed' /\ Synchronised'
<1>0. Good(script) /\ k = pos[u] /\ script' = script /\ on' = on /\ i' = i /\ counter' = counter
  BY DEF CommInv, Goes
<1>1. /\ k \in Nat /\ pos'[u] = k + 1 /\ pc'[u] = "run" /\ Onward
      /\ \A v \in UE : v # u => pos'[v] = pos[v] /\ pc'[v] = pc[v]
  BY GoesFacts
<1>2. RootKnows'
  <2>1. ASSUME NEW c \in Comms, NEW v \in UE, NEW l \in Nat, pos'[v] = l, on[v] = c, pc'[v] # "run"
        PROVE  /\ pc'[v] = "poll" => Seen(v, c, l)'
               /\ pc'[v] = "release" => AllBegun(c, v, l)'
    <3>1. pos[v] = l /\ pc'[v] = pc[v]
      BY <1>1, <2>1
    <3>2. QED
      BY <1>0, <1>1, <2>1, <3>1, SeenStays, KnownStays
  <2>2. QED
    BY <1>0, <2>1 DEF RootKnows
<1>3. ASSUME NEW c \in Comms, NEW v \in UE, NEW l \in Nat, On(script, c, l, v), l < pos'[v]
      PROVE  /\ RootAt(script, c, l, v) # v => Granted(c, l, v)'
             /\ AllBegun(c, v, l)'
  <2>1. RootAt(script, c, l, v) # v => Granted(c, l, v)
    <3>1. CASE l < pos[v]
      BY <1>3, <3>1 DEF CommInv, Passed
    <3>2. CASE ~(l < pos[v])
      <4>1. v = u /\ l = k
        BY <1>0, <1>1, <1>3, <3>2
      <4>2. QED
        BY <1>3, <4>1 DEF Goes
    <3>3. QED
      BY <3>1, <3>2
  <2>2. AllBegun(c, v, l)
    <3>1. CASE l < pos[v]
      BY <1>3, <3>1 DEF CommInv, Synchronised
    <3>2. CASE ~(l < pos[v])
      <4>1. v = u /\ l = k
        BY <1>0, <1>1, <1>3, <3>2
      <4>2. QED
        BY <1>3, <4>1 DEF Goes
    <3>3. QED
      BY <3>1, <3>2
  <2>3. QED
    BY <1>1, <1>3, <2>1, <2>2, GoesGranted, AllBegunStays
<1>4. Passed' /\ Synchronised'
  BY <1>0, <1>3 DEF Passed, Synchronised
<1>5. QED
  BY <1>2, <1>4

LEMMA GoesKeeps ==
  ASSUME CommInv, NEW u \in UE, NEW k, Goes(u, k)
  PROVE  CommInv'
<1>1. Good(script)'
  BY DEF CommInv, Goes, Good
<1>2. QED
  BY <1>1, GoesTypes, GoesRostered, GoesInside, GoesRelease, GoesKnows DEF CommInv

\* The actions that go on.
LEMMA SkipGoes ==
  ASSUME CommInv, NEW u \in UE, SkipBarrier(u), NEW k, k = pos[u]
  PROVE  Goes(u, k)
<1>1. /\ pc[u] = "run" /\ k <= Len(script) /\ script[k].op = "barrier" /\ u \notin script[k].who
      /\ pos' = [pos EXCEPT ![u] = @ + 1]
      /\ UNCHANGED <<script, pc, on, gather, release, cycle, i, counter, member, initialized>>
  BY DEF SkipBarrier, Running, Call
<1>2. k \in 1 .. Len(script)
  BY <1>1, PosIs, LenIs DEF CommInv
<1>3. \A c \in Comms : ~On(script, c, k, u)
  BY <1>1 DEF On
<1>4. /\ pc \in [UE -> {"run", "poll", "release", "wait"}] /\ pos \in [UE -> Nat]
      /\ member \in [UE -> Seq(UE)] /\ initialized \in [UE -> BOOLEAN]
  BY DEF CommInv, Types
<1>5. /\ pos' = [pos EXCEPT ![u] = k + 1] /\ pc' = [pc EXCEPT ![u] = "run"]
      /\ member' = [member EXCEPT ![u] = member[u]]
      /\ initialized' = [initialized EXCEPT ![u] = initialized[u]]
  BY <1>1, <1>4
<1>6. QED
  BY <1>1, <1>2, <1>3, <1>5 DEF Goes

LEMMA FinishGoes ==
  ASSUME CommInv, NEW u \in UE, FinishCall(u), NEW c, NEW k, c = on[u], k = pos[u],
         pc[u] # "run", AllBegun(c, u, k),
         RootAt(script, c, k, u) # u => Granted(c, k, u),
         RootAt(script, c, k, u) = u =>
            pc[u] = "release" /\ i[u] = Len(MembersAt(script, c, k, u))
  PROVE  Goes(u, k)
<1>1. On(script, c, k, u) /\ c \in Comms
  BY InsideIs
<1>2. k \in 1 .. Len(script)
  BY <1>1 DEF On
<1>3. ASSUME NEW d \in Comms, On(script, d, k, u) PROVE d = c
  BY <1>1, <1>3, OnOne
<1>4. /\ pc \in [UE -> {"run", "poll", "release", "wait"}] /\ pos \in [UE -> Nat]
      /\ member \in [UE -> Seq(UE)] /\ initialized \in [UE -> BOOLEAN]
  BY DEF CommInv, Types
<1>5. SameColor(u, script[k].color) = Ranked(Part(script, k, u))
  BY DEF SameColor, Part
<1>6. /\ pos' = [pos EXCEPT ![u] = k + 1] /\ pc' = [pc EXCEPT ![u] = "run"]
      /\ UNCHANGED <<script, on, gather, release, cycle, i, counter>>
  BY <1>4 DEF FinishCall
<1>7. /\ member' = [member EXCEPT ![u] = IF script[k].op = "split" THEN Ranked(Part(script, k, u)) ELSE @]
      /\ initialized' = [initialized EXCEPT ![u] = IF script[k].op = "split" THEN TRUE ELSE @]
  <2>1. CASE script[k].op = "split"
    BY <1>5, <2>1 DEF FinishCall, Call
  <2>2. CASE script[k].op # "split"
    BY <1>4, <2>2 DEF FinishCall, Call
  <2>3. QED
    BY <2>1, <2>2
<1>8. QED
  BY <1>2, <1>3, <1>6, <1>7 DEF Goes

LEMMA RootGoes ==
  ASSUME CommInv, NEW u \in UE, RootLeave(u), NEW k, k = pos[u]
  PROVE  Goes(u, k)
<1>1. PICK c, m : c = on[u] /\ m = MembersAt(script, c, k, u)
  OBVIOUS
<1>2. pc[u] = "release" /\ pc[u] # "run" /\ pc[u] # "wait" /\ i[u] = Len(MembersOf(u, on[u])) /\ FinishCall(u)
  BY DEF RootLeave
<1>3. /\ c \in Comms /\ k \in Nat /\ MembersOf(u, on[u]) = m /\ RootAt(script, c, k, u) = u
  BY <1>1, <1>2, InsideIs
<1>4. AllBegun(c, u, k)
  BY <1>1, <1>2, <1>3 DEF CommInv, RootKnows
<1>5. QED
  BY <1>1, <1>2, <1>3, <1>4, FinishGoes

LEMMA WaitGoes ==
  ASSUME CommInv, NEW u \in UE, WaitLeave(u), NEW k, k = pos[u]
  PROVE  Goes(u, k)
<1>1. PICK c, m : c = on[u] /\ m = MembersAt(script, c, k, u)
  OBVIOUS
<1>2. pc[u] = "wait" /\ pc[u] # "run" /\ release[c][u] = cycle[u] /\ FinishCall(u)
  BY <1>1 DEF WaitLeave
<1>3. /\ c \in Comms /\ k \in Nat /\ On(script, c, k, u) /\ cycle[u] = Phase(script, c, u, k + 1)
  BY <1>1, <1>2, InsideIs
<1>4. RootAt(script, c, k, u) # u
  BY <1>1, <1>2 DEF CommInv, Inside
<1>5. Good(script) /\ k \in 1 .. Len(script) /\ k \in 1 .. Len(script) + 1
  BY <1>3, OnNat DEF CommInv
<1>6. Granted(c, k, u)
  <2>1. SUFFICES ASSUME ~Granted(c, k, u) PROVE FALSE
    OBVIOUS
  <2>2. release[c][u] = Left(script, c, k, u)
    BY <1>3, <2>1 DEF CommInv, ReleaseIs
  <2>3. c # "comm" \/ \E j : Latest(script, j, k)
    <3>1. c # "comm" \/ script[k].op = "barrier"
      BY <1>3 DEF On
    <3>2. QED
      BY <1>5, <3>1, BarrierIs
  <2>4. Left(script, c, k, u) = Phase(script, c, u, k)
    BY <1>4, <2>3 DEF Left, Quiet
  <2>5. Phase(script, c, u, k) \in {0, 1} /\ Phase(script, c, u, k + 1) = 1 - Phase(script, c, u, k)
    BY <1>3, <1>5, MadeFinite, PhaseNext
  <2>6. QED
    BY <1>2, <1>3, <2>2, <2>4, <2>5
<1>7. AllBegun(c, u, k)
  BY <1>3, <1>6, GrantedBegun
<1>8. QED
  BY <1>1, <1>2, <1>4, <1>6, <1>7, FinishGoes

-----------------------------------------------------------------------------
(***************************************************************************)
(* The theorem.                                                            *)
(***************************************************************************)
LEMMA CommInit ==
  ASSUME Init, Careful(script)
  PROVE  CommInv
<1>1. Good(script)
  BY ScriptAssumption DEF Init, Good
<1>2. Len(script) \in Nat /\ 1 \in 1 .. Len(script) + 1
  BY <1>1, LenIs
<1>3. \A j : ~Latest(script, j, 1)
  BY DEF Latest
<1>4. Types
  <2>1. pos \in [UE -> Nat] /\ i \in [UE -> Nat] /\ counter \in [UE -> Nat] /\ cycle \in [UE -> Nat]
    BY DEF Init
  <2>2. gather \in [Comms -> [UE -> Nat]] /\ release \in [Comms -> [UE -> Nat]]
    BY DEF Init
  <2>3. \A u \in UE : pos[u] \in 1 .. Len(script) + 1
    BY <1>2 DEF Init
  <2>4. pc \in [UE -> {"run", "poll", "release", "wait"}] /\ on \in [UE -> Comms]
    BY DEF Init, Comms
  <2>5. member \in [UE -> Seq(UE)] /\ initialized \in [UE -> BOOLEAN]
    BY DEF Init
  <2>6. QED
    BY <2>1, <2>2, <2>3, <2>4, <2>5 DEF Types
<1>5. Rostered
  BY <1>3 DEF Init, Rostered
<1>6. Inside
  BY DEF Init, Inside
<1>7. GatherIs
  BY PhaseFirst DEF Init, GatherIs, Here
<1>8. ReleaseIs
  <2>1. ASSUME NEW c \in Comms, NEW u \in UE, NEW k \in Nat, pos[u] = k
        PROVE  /\ release[c][u] = 0
               /\ ~(RootAt(script, c, k, u) # u /\ Granted(c, k, u) /\ On(script, c, k, u))
               /\ Left(script, c, k, u) = 0
    <3>1. k = 1 /\ release[c][u] = 0
      BY <2>1 DEF Init
    <3>2. Left(script, c, k, u) = 0
      BY <3>1, PhaseFirst DEF Left
    <3>3. ASSUME On(script, c, k, u), Granted(c, k, u) PROVE FALSE
      <4>1. RootAt(script, c, k, u) \in UE
        BY <1>1, <3>3, RootIs
      <4>2. QED
        BY <3>1, <3>3, <4>1 DEF Init, Granted
    <3>4. QED
      BY <3>1, <3>2, <3>3
  <2>2. QED
    BY <2>1 DEF ReleaseIs
<1>9. RootKnows
  BY DEF Init, RootKnows
<1>10. Passed /\ Synchronised
  <2>1. ASSUME NEW c \in Comms, NEW u \in UE, NEW k \in Nat, On(script, c, k, u), k < pos[u] PROVE FALSE
    <3>1. k \in 1 .. Len(script) /\ pos[u] = 1
      BY <2>1 DEF On, Init
    <3>2. QED
      BY <1>2, <2>1, <3>1
  <2>2. QED
    BY <2>1 DEF Passed, Synchronised
<1>11. QED
  BY <1>1, <1>4, <1>5, <1>6, <1>7, <1>8, <1>9, <1>10 DEF CommInv

LEMMA CommStep ==
  ASSUME CommInv, [Next]_vars
  PROVE  CommInv'
<1>1. ASSUME NEW u \in UE, Step(u) PROVE CommInv'
  <2>0. Good(script) /\ Types
    BY DEF CommInv
  <2>1. CASE BeginSplit(u)
    <3>1. Enters(u, "world") /\ "world" \in Comms
      BY <2>0, <2>1, PosIs, LenIs DEF BeginSplit, Running, Call, Enters, On, Comms
    <3>2. QED
      BY <3>1, EnterKeeps
  <2>2. CASE BeginBarrier(u)
    <3>1. Enters(u, "comm") /\ "comm" \in Comms
      BY <2>0, <2>2, PosIs, LenIs DEF BeginBarrier, Running, Call, Enters, On, Comms
    <3>2. QED
      BY <3>1, EnterKeeps
  <2>3. CASE PollRead(u) \/ PollPassEnd(u)
    BY <2>3, PollKeeps DEF Polls
  <2>4. CASE ReleaseWrite(u)
    BY <2>4, WriteKeeps
  <2>5. CASE SkipBarrier(u) \/ RootLeave(u) \/ WaitLeave(u)
    <3>1. PICK k : k = pos[u]
      OBVIOUS
    <3>2. Goes(u, k)
      BY <2>5, <3>1, SkipGoes, RootGoes, WaitGoes
    <3>3. QED
      BY <3>2, GoesKeeps
  <2>6. QED
    BY <1>1, <2>1, <2>2, <2>3, <2>4, <2>5 DEF Step
<1>2. ASSUME UNCHANGED vars PROVE CommInv'
  BY <1>2 DEF vars, CommInv, Good, Types, Rostered, Inside, GatherIs, Here, ReleaseIs, Granted, RootKnows,
              Seen, AllBegun, Begun, Passed, Synchronised
<1>3. QED
  BY <1>1, <1>2 DEF Next, AllDone

LEMMA InvSynchronises ==
  ASSUME CommInv
  PROVE  CallsSynchronise
<1>1. ASSUME NEW u \in UE, NEW k \in 1 .. pos[u] - 1, u \in Participants(u, k), NEW v \in Participants(u, k)
      PROVE  Begun(v, k)
  <2>1. Good(script) /\ Len(script) \in Nat /\ pos[u] \in 1 .. Len(script) + 1 /\ pos[u] \in Nat
    BY LenIs, PosIs DEF CommInv
  <2>2. k \in Nat /\ k < pos[u] /\ k \in 1 .. Len(script) /\ k \in 1 .. Len(script) + 1
    BY <2>1
  <2>3. CASE script[k].op = "split"
    <3>1. On(script, "world", k, u) /\ "world" \in Comms
      BY <2>2, <2>3 DEF On, Comms
    <3>2. AllBegun("world", u, k)
      BY <2>2, <3>1 DEF CommInv, Synchronised
    <3>3. v \in UE
      BY <1>1, <2>3 DEF Participants
    <3>4. MembersAt(script, "world", k, u) = [j \in 1 .. NP |-> j - 1]
      BY DEF MembersAt
    <3>5. PICK x \in 1 .. Len(MembersAt(script, "world", k, u)) : MembersAt(script, "world", k, u)[x] = v
      BY <3>3, <3>4, WorldIs DEF Lists
    <3>6. QED
      BY <3>2, <3>5 DEF AllBegun
  <2>4. CASE script[k].op # "split"
    <3>1. script[k].op = "barrier"
      BY <2>1, <2>2, <2>4, StepIs
    <3>2. v \in PartAt(u, k) /\ u \in script[k].who
      BY <1>1, <2>4 DEF Participants
    <3>3. On(script, "comm", k, u) /\ "comm" \in Comms
      BY <2>2, <3>1, <3>2 DEF On, Comms
    <3>4. AllBegun("comm", u, k)
      BY <2>2, <3>3 DEF CommInv, Synchronised
    <3>5. v \in Part(script, Last(script, k), u)
      <4>1. PICK l : l = CHOOSE j \in 1 .. k : script[j].op = "split" /\ \A m \in j + 1 .. k : script[m].op # "split"
        OBVIOUS
      <4>2. v \in Part(script, l, u)
        BY <3>2, <4>1 DEF PartAt, Part
      <4>3. ASSUME NEW j \in 1 .. k
            PROVE  (script[j].op = "split" /\ \A m \in j + 1 .. k : script[m].op # "split")
                     <=> Latest(script, j, k + 1)
        <5>1. k + 1 - 1 = k
          BY <2>2
        <5>2. QED
          BY <5>1 DEF Latest
      <4>4. Latest(script, Last(script, k), k)
        BY <2>1, <2>2, <3>1, BarrierIs
      <4>5. Last(script, k) \in 1 .. k /\ Latest(script, Last(script, k), k + 1)
        BY <2>1, <2>2, <2>4, <4>4, LatestNext DEF Latest
      <4>6. Latest(script, l, k + 1)
        BY <4>1, <4>3, <4>5
      <4>7. l = Last(script, k)
        BY <2>1, <2>2, <2>4, <4>6, LatestNext, LatestIs
      <4>8. QED
        BY <4>2, <4>7
    <3>6. MembersAt(script, "comm", k, u) = Ranked(Part(script, Last(script, k), u))
      BY DEF MembersAt
    <3>7. Lists(Ranked(Part(script, Last(script, k), u)), Part(script, Last(script, k), u))
      BY PartIs, RankedLists
    <3>8. PICK x \in 1 .. Len(MembersAt(script, "comm", k, u)) : MembersAt(script, "comm", k, u)[x] = v
      BY <3>5, <3>6, <3>7 DEF Lists
    <3>9. QED
      BY <3>4, <3>8 DEF AllBegun
  <2>5. QED
    BY <2>3, <2>4
<1>2. QED
  BY <1>1 DEF CallsSynchronise

\* Every UE is in step with the flags of every communicator it is a member of,
\* with programs that overwrite a communicator only after an even number of its
\* barriers, or with the parts it has.
THEOREM CommInvariant ==
  ASSUME \A s \in Scripts : Careful(s)
  PROVE  Spec => []CommInv
<1>1. Init => CommInv
  BY CommInit DEF Init
<1>2. CommInv /\ [Next]_vars => CommInv'
  BY CommStep
<1>3. QED
  BY <1>1, <1>2, PTL DEF Spec

\* With these programs every barrier of every communicator, and every split,
\* synchronises its members.
THEOREM BarriersSynchronise ==
  ASSUME \A s \in Scripts : Careful(s)
  PROVE  Spec => []CallsSynchronise
<1>1. CommInv => CallsSynchronise
  BY InvSynchronises
<1>2. QED
  BY <1>1, CommInvariant, PTL
=============================================================================
