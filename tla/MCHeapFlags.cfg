\* Four MPB lines of two bytes with a flag in each byte; the program asks for
\* whole lines and for sizes the allocator refuses.
CONSTANTS
  SIZE = 8
  LINE_SIZE = 2
  Sizes = {0, 1, 2, 4, 8, 10}
  Requests = {0, 3, 6}
  FLAGS_PER_BYTE = 1
  Uses = {}
SPECIFICATION Spec
INVARIANTS
  TypeOK
  FlagsExclusive
  StatusIsUse
  LinesAccounted
  BlocksTile
PROPERTIES
  ImplementsHeap
