SPECIFICATION Spec
CONSTANTS
  Preparers = {p1, p2}
  Readers = {r1}
  Last = 3
  Installations = {{1, 3}, {1}}
  MaxTransactions = 2
  MaxFaults = 0
  MaxCrashes = 1
  MaxEdits = 1
  MaxLoads = 1
  Interrupts = FALSE
  NoOne = NoOne
SYMMETRY Symmetry
INVARIANTS TypeOK NoMixedLoad OriginalsSurvive
