\* The communicator is overwritten after its parts have used it unequally.
CONSTANTS
  NP = 3
  Scripts <- OverwritingScripts
SPECIFICATION Spec
INVARIANTS
  CallsSynchronise
