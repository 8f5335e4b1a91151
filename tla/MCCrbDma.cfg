\* Packets of three units, rings of eight: the third packet wraps in its middle,
\* a half holds one packet and a third of the next.
CONSTANTS
  BUFFER = 8
  PACKET = 3
  Counts = {3, 7}
  Bound <- MCBound
  Tlps = {2}
  TOTAL <- MCTotal
  MAX_UNREAD = 3
  Irqs = {"own"}
  OPEN_RACES = FALSE
SPECIFICATION Spec
\* The daemon may sleep for ever.
CHECK_DEADLOCK FALSE
INVARIANTS
  RingsSound
  StreamsIntact
PROPERTIES
  TxDrains

