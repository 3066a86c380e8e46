SPECIFICATION FairSpec
CONSTANTS
  Keys = {k1, k2}
  Preparers = {p1, p2}
  Quotas = {3}
  FirstQuotas = {3}
  EntryLimit = 2
  MemoryLimit = 1
  MaxClears = 2
  MaxConfigures = 0
  MaxFaults = 0
  MaxRestarts = 0
  NoAudio = NoAudio
  NoKey = NoKey
  Nobody = Nobody
INVARIANTS ClearedIsGone RightVoice
PROPERTIES ClearComesToAnEnd
