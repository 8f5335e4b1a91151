---------------------------- MODULE FlagRegisters ----------------------------
(***************************************************************************)
(* What the flag routines of RCCE promise: each flag is a register of its  *)
(* own, and a write to one changes no other.                               *)
(***************************************************************************)
EXTENDS Naturals

CONSTANT Flag          \* the flags
VARIABLE value         \* value[f]: RCCE_FLAG_UNSET (0) or RCCE_FLAG_SET (1)

Init == value = [f \in Flag |-> 0]

Write(f, v) == value' = [value EXCEPT ![f] = v]

Next == \E f \in Flag, v \in {0, 1} : Write(f, v)

Spec == Init /\ [][Next]_value
=============================================================================
