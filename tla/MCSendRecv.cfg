\* Three UEs, up to two calls each, any peers; a UE may wait for ever for a
\* peer that makes no matching call.
CONSTANTS
  UE = {1, 2, 3}
  LINE_SIZE = 32
  CHUNK = 64
  MsgSize <- Sizes
  GORY = FALSE
  MaxCalls = 2
SPECIFICATION FairSpec
INVARIANTS
  PiecesIntact
  SendIsSynchronous
  CallsAreWhole
  HandshakeInv
PROPERTIES
  BufferNotReusedEarly
  CommittedSendsFinish
CHECK_DEADLOCK FALSE
