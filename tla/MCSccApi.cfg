\* A ring of three slots, transaction ids that wrap after two blocks, one fault; driver and
\* board hold two messages.
SPECIFICATION Spec
CONSTANTS QSIZE = 3
          MAX_TRANS_ID = 4
          LINES = 2
          ROOM = 2
          MAX_CALLS = 3
          MAX_FAULTS = 1
INVARIANTS ReadsLastWrite WritesHandedOver
PROPERTY EveryCallReturns
\* The program makes MAX_CALLS accesses.
CHECK_DEADLOCK FALSE
