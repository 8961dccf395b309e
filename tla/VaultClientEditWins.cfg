SPECIFICATION OutageSpec
CONSTANTS
  soul = soul
  notes = notes
  Paths = {soul}
  MaxEdits = 2
  MaxWrites = 1
  MaxLate = 1
  NoEntry = NoEntry
INVARIANTS
  HumanEditWins
