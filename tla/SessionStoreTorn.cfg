SPECIFICATION Spec
CONSTANTS
  core = core
  other = other
  Writers = {core}
  MaxEvents = 2
  MaxFaults = 1
CHECK_DEADLOCK FALSE
INVARIANTS
  RecordCanBeLoaded
