SPECIFICATION OutageSpec
CONSTANTS
  soul = soul
  notes = notes
  Paths = {soul, notes}
  MaxEdits = 1
  MaxWrites = 2
  MaxLate = 1
  NoEntry = NoEntry
SYMMETRY Symmetry
INVARIANTS
  TypeOK
  CacheIsPast
  OffersVersionSeen
PROPERTIES
  MonotonicReads
  RevalidatesFirst
  ImplementsRegister
