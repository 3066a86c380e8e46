SPECIFICATION Spec
CONSTANTS
  gui = gui
  background = background
  Fields <- MCFields
  Values = {0, 1, 2}
  Threads = {gui, background}
  Owner <- MCOwner
  Defaults <- MCDefaults
  Nobody = Nobody
  MaxRequests = 3
  MaxFaults = 1
  MaxForeign = 1
  MaxRestarts = 1
INVARIANTS NothingIsLost MemoryIsAccepted FileAgreesWithMemory
CHECK_DEADLOCK FALSE
