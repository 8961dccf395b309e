SPECIFICATION Spec
CONSTANTS
  core = core
  other = other
  Writers = {core, other}
  MaxEvents = 4
  MaxFaults = 2
SYMMETRY Symmetry
CHECK_DEADLOCK FALSE
INVARIANTS
  LoadIsComplete
  HistoryOnlyGrows
