\* Two cores of two slots each.  A frame of six lines takes as much as is asked
\* for it; the buffer holds one frame and a part of the next.
CONSTANTS
  CORES = 2
  SLOTS = 2
  SUBNET = 1
  Ips = {0, 1, 2, 4}
  LENGTH = 192
  BUFFER = 500
  IRQ = TRUE
  UpLines = {1, 2}
  MAX_FRAMES = 3
  MAX_UP = 2
  MAX_RESTARTS = 1
  TOTAL = 4
  Faults = {"torn"}
  RACES = FALSE
SPECIFICATION Spec
INVARIANTS
  FramesReachCore
  SlotsInStep
  NetFifoFits
  FramesWhole
PROPERTIES
  FrameLeaves
CHECK_DEADLOCK FALSE
