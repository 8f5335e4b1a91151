---------------------------- MODULE RcceFlagAlloc ----------------------------
(***************************************************************************)
(* The bookkeeping of flags in the gory API, RCCE_flag_alloc and           *)
(* RCCE_flag_free (src/rcce/src/RCCE_flags.c), together with the allocator *)
(* of RcceMalloc it takes its lines from, as one UE runs them.             *)
(*                                                                         *)
(* The flag lines are a linked list, here a sequence; each is a record of  *)
(* the address of its line of the MPB (-1: none yet), its number of flags  *)
(* in use and their allocation statuses.  The program uses the allocator   *)
(* for itself as well.                                                     *)
(***************************************************************************)
EXTENDS RcceMalloc, FiniteSets

CONSTANTS FLAGS_PER_BYTE,  \* 1, or more with SINGLEBITFLAGS
          Uses             \* {} or {"exhaust"}: flags are also asked for when
                           \* their lines are full and the MPB has none left

ASSUME FlagAllocAssumption ==
  FLAGS_PER_BYTE \in Nat \ {0} /\ Uses \subseteq {"exhaust"}

FLAGS_PER_LINE == LINE_SIZE * FLAGS_PER_BYTE

Addr == {a \in 0 .. SIZE - 1 : a % LINE_SIZE = 0}
Loc  == 0 .. FLAGS_PER_LINE - 1

VARIABLES lines,   \* the list that begins with RCCE_flags
          owners,  \* history: how many flags of the program are at a place
          last     \* history: outcome of the latest RCCE_flag_alloc

vars == <<heapVars, lines, owners, last>>

\* The statuses are bytes, of which the single bit code reaches the low ones.
Status == 0 .. 2 ^ FLAGS_PER_BYTE - 1

Line == [addr : {-1} \cup Addr, members : -1 .. FLAGS_PER_LINE, flag : [Loc -> Status]]

\* Type correctness; the list never loses its first line.
TypeOK ==
  /\ lines \in Seq(Line) /\ lines # <<>>
  /\ HeapTypeOK
  /\ owners \in [Addr \X Loc -> 0 .. 2]
  /\ last \in {"none", "flag", "error"}

Empty == [l \in Loc |-> 0]

\* RCCE_init.
Init ==
  /\ HeapInit
  /\ lines = <<[addr |-> -1, members |-> 0, flag |-> Empty]>>
  /\ owners = [p \in Addr \X Loc |-> 0]
  /\ last = "none"

-----------------------------------------------------------------------------
\* What malloc leaves in a new RCCE_FLAG_LINE: zero or remains.
Garbage == {0, 1}

\* The line that is looked at: the first that is not full, or the last.
Found == LET open == {i \in 1 .. Len(lines) : lines[i].members # FLAGS_PER_LINE}
         IN  IF open = {} THEN Len(lines)
             ELSE CHOOSE i \in open : \A j \in open : i <= j

Unused(line) == {l \in Loc : line.flag[l] = 0}
FirstUnused(line) == CHOOSE l \in Unused(line) : \A k \in Unused(line) : l <= k

Own(a, l) == owners' = [owners EXCEPT ![<<a, l>>] = @ + 1]

Error == last' = "error" /\ UNCHANGED owners

\* Mutation: the number of members is not counted up.
AllocInLine_Uncounted(i, a) ==
  LET line == lines[i] IN
  /\ last' = "flag"
  /\ IF Unused(line) = {}
     THEN lines' = [lines EXCEPT ![i].addr = a] /\ UNCHANGED owners
     ELSE /\ lines' = [lines EXCEPT ![i].addr = a, ![i].flag[FirstUnused(line)] = 1]
          /\ Own(a, FirstUnused(line))

\* A flag in line i, whose place in the MPB is a.  When the statuses show no
\* flag to be free the call succeeds all the same, without a flag.
AllocInLine(i, a) ==
  LET line == lines[i] IN
  /\ last' = "flag"
  /\ IF Unused(line) = {}
     THEN lines' = [lines EXCEPT ![i].addr = a] /\ UNCHANGED owners
     ELSE /\ lines' = [lines EXCEPT ![i] =
                          [addr |-> a, members |-> line.members + 1,
                           flag |-> [line.flag EXCEPT ![FirstUnused(line)] = 1]]]
          /\ Own(a, FirstUnused(line))

\* A new line behind the last; of its statuses RCCE_LINE_SIZE are cleared.
AllocNewLine(a) ==
  \E g \in Garbage :
    /\ lines' = Append(lines, [addr |-> a, members |-> 1,
                   flag |-> [l \in Loc |-> IF l = 0 THEN 1
                                           ELSE IF l < LINE_SIZE THEN 0 ELSE g]])
    /\ last' = "flag"
    /\ Own(a, 0)

\* There is no line for it: the new element of the list stays as it is.
AllocNoLine ==
  /\ "exhaust" \in Uses
  /\ \E g \in Garbage, m \in Garbage :
       lines' = Append(lines, [addr |-> -1, members |-> m, flag |-> [l \in Loc |-> g]])
  /\ Error

\* RCCE_flag_alloc, which the program does not call within another call.
FlagAlloc ==
  LET i == Found  line == lines[i] IN
  /\ chunk = -1
  /\ IF line.addr # -1 /\ line.members < FLAGS_PER_LINE
     THEN AllocInLine(i, line.addr) /\ UNCHANGED heapVars
     ELSE /\ Malloc(LINE_SIZE)
          /\ IF line.addr = -1
             THEN IF answer' = -1 THEN Error /\ UNCHANGED lines
                  ELSE AllocInLine(i, answer')
             ELSE IF answer' = -1 THEN AllocNoLine ELSE AllocNewLine(answer')

-----------------------------------------------------------------------------
\* RCCE_flip_bit_value.
Flipped(v, b) == IF (v \div 2 ^ b) % 2 = 0 THEN v + 2 ^ b ELSE v - 2 ^ b

\* Mutation: the status of the next flag is cleared.
Cleared_Next(line, loc) == [line.flag EXCEPT ![(loc + 1) % FLAGS_PER_LINE] = 0]

\* The statuses when the flag at loc is freed: with single bits the byte
\* loc/RCCE_FLAGS_PER_BYTE of the statuses has one bit flipped.
Cleared(line, loc) ==
  IF FLAGS_PER_BYTE = 1 THEN [line.flag EXCEPT ![loc] = 0]
  ELSE [line.flag EXCEPT ![loc \div FLAGS_PER_BYTE] = Flipped(@, loc % FLAGS_PER_BYTE)]

\* Mutation: an emptied line goes back to the MPB but stays in the list.
WithoutEmpty_Kept(ls, i) == ls

\* Mutation: the first line is spliced out as well.
WithoutEmpty_First(ls, i) ==
  IF ls[i].members = 0 THEN SubSeq(ls, 1, i - 1) \o SubSeq(ls, i + 1, Len(ls)) ELSE ls

\* The list ls when line i has lost a member: an emptied line is spliced out,
\* unless it is the first.
WithoutEmpty(ls, i) ==
  IF ls[i].members = 0 /\ i > 1
  THEN SubSeq(ls, 1, i - 1) \o SubSeq(ls, i + 1, Len(ls)) ELSE ls

\* RCCE_flag_free, of a flag the program has; it is found by the place of its
\* line, and its location is then invalid.
FlagFree(a, loc) ==
  /\ chunk = -1
  /\ owners[<<a, loc>>] > 0
  /\ owners' = [owners EXCEPT ![<<a, loc>>] = @ - 1]
  /\ UNCHANGED last
  /\ LET found == {i \in 1 .. Len(lines) : lines[i].addr = a}
         i == CHOOSE k \in found : \A j \in found : k <= j
         ls == [lines EXCEPT ![i] = [addr |-> a, members |-> lines[i].members - 1,
                                     flag |-> Cleared(lines[i], loc)]]
     IN  IF found = {} THEN UNCHANGED <<lines, heapVars>>
         ELSE /\ lines' = WithoutEmpty(ls, i)
              /\ IF ls[i].members = 0 /\ i > 1 THEN Free(a) ELSE UNCHANGED heapVars

FlagLines == {lines[i].addr : i \in 1 .. Len(lines)}

\* The program allocates and frees for itself: anything but the flag lines.
ProgramCalls == Calls((0 .. SIZE) \ FlagLines) /\ UNCHANGED <<lines, owners, last>>

Next == \/ FlagAlloc
        \/ \E a \in Addr, loc \in Loc : FlagFree(a, loc)
        \/ ProgramCalls

Spec == Init /\ [][Next]_vars

-----------------------------------------------------------------------------
(***************************************************************************)
(* Properties                                                              *)
(***************************************************************************)

\* Two RCCE_flag_alloc never return the same flag, unless it was freed between.
FlagsExclusive == \A p \in Addr \X Loc : owners[p] <= 1

\* "Each element in flag corresponds to a flag being in use (value is 1) or not
\* (value is 0)" (RCCE_flags.c:43); the members are counted, and every flag in
\* use lies in a line of the list, so that it can be freed.
InUse(line) == {l \in Loc : line.addr # -1 /\ owners[<<line.addr, l>>] > 0}

StatusIsUse ==
  /\ \A i \in {k \in 1 .. Len(lines) : lines[k].addr # -1} :
       /\ \A l \in Loc : lines[i].flag[l] = (IF l \in InUse(lines[i]) THEN 1 ELSE 0)
       /\ lines[i].members = Cardinality(InUse(lines[i]))
  /\ \A p \in Addr \X Loc : owners[p] > 0 => \E i \in 1 .. Len(lines) : lines[i].addr = p[1]

\* The lines of the list are pieces of the MPB of one line each that nobody else
\* has; only the first line of the list may be without a flag.
LinesAccounted ==
  /\ \A i, j \in 1 .. Len(lines) : lines[i].addr = lines[j].addr => i = j
  /\ \A i \in 1 .. Len(lines) :
       lines[i].addr # -1 => [addr |-> lines[i].addr, size |-> LINE_SIZE] \in pieces
  /\ \A i \in 2 .. Len(lines) : lines[i].members > 0
=============================================================================
