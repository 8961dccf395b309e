SPECIFICATION WritingSpec
CONSTANTS
  soul = soul
  notes = notes
  Paths = {soul}
  MaxEdits = 1
  MaxWrites = 1
  MaxLate = 1
  NoEntry = NoEntry
PROPERTIES
  DeadConnectionNoticed
