CONSTANTS
  MaxRequests = 2
  MaxItems = 1
  Periods = 1
SPECIFICATION FairSpec
PROPERTIES
  StopCompletes
  RequestEnds
  ControlsReturn
  ShutdownCompletes
