\* Three voltage domains, three slots, two requests each.
CONSTANTS
  Core = {0, 1, 2}
  SLOTS = 3
  MaxCalls = 2
SPECIFICATION FairSpec
INVARIANTS
  NoInternalError
PROPERTIES
  ServiceSpec
  EveryCallReturns
CHECK_DEADLOCK FALSE
