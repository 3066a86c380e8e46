SPECIFICATION FairSpec
CONSTANTS
  Preparers = {p1}
  Readers = {r1}
  Last = 3
  Installations = {{1, 3}, {1}}
  MaxTransactions = 2
  MaxFaults = 2
  MaxCrashes = 2
  MaxEdits = 0
  MaxLoads = 2
  Interrupts = FALSE
  NoOne = NoOne
INVARIANT MixIsMarked
PROPERTY PartialPublicationResolves
