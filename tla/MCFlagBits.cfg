\* Nobody writes a flag of u1 while u1 enters a barrier.
CONSTANTS
  UE = {u1, u2, u3}
  Owner = u1
  Flag = {gather, sent}
  Gather = gather
  BitUses = {}
SPECIFICATION BitsSpec
INVARIANTS
  LockInv
PROPERTIES
  FlagsIndependent
