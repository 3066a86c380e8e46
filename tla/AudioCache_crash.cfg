SPECIFICATION Spec
CONSTANTS
  Keys = {k1, k2}
  Preparers = {p1}
  Quotas = {2, 4}
  FirstQuotas = {4}
  EntryLimit = 2
  MemoryLimit = 0
  MaxClears = 1
  MaxConfigures = 1
  MaxFaults = 1
  MaxRestarts = 1
  NoAudio = NoAudio
  NoKey = NoKey
  Nobody = Nobody
SYMMETRY Symmetry
INVARIANTS TypeOK ClearedIsGone BooksAreTrue IndexMatchesDirectory WithinLimits SettingsAreSaved
