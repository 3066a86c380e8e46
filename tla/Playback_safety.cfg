CONSTANTS
  MaxRequests = 2
  MaxItems = 2
  Periods = 1
SPECIFICATION Spec
INVARIANTS
  TypeOK
  StateIsTruthful
  PauseReachesDevice
  ErrorsAreAttributed
  RowBelongsToActive
  ClosedIsQuiet
PROPERTIES
  SoundOnlyFromLiveRequest
  ImplementsContract
