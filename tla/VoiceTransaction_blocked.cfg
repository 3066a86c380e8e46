SPECIFICATION Spec
CONSTANTS
  Preparers = {p1}
  Readers = {r1}
  Last = 3
  Installations = {{1, 3}, {1}}
  MaxTransactions = 1
  MaxFaults = 0
  MaxCrashes = 1
  MaxEdits = 0
  MaxLoads = 0
  Interrupts = FALSE
  NoOne = NoOne
INVARIANT BlockedOnlyByUnfinished
