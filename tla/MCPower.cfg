\* One voltage domain, two request variables, dividers also set directly.
CONSTANTS
  Divider <- SomeDividers
  Level <- Levels
  VoltageLevel <- TheirLevels
  DefLevel <- DefaultLevel
  DefDivider <- DefaultDivider
  Request = {r1, r2}
  Uses = {"divider"}
SPECIFICATION PowerSpec
INVARIANTS
  FrequencySupported
  OneChangeAtATime
  PowerInv
PROPERTIES
  RequestHonoured
