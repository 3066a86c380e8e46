SPECIFICATION Spec
CONSTANTS
  Lines = {"", "a", "b", "r", " a"}
  Trim <- MCTrim
  MaxRevision = 3
  Sheets <- MCPadded
  Layouts = {}
  Values <- MCPaddedValues
  LastEdit = 3
  MaxSegments = 3
  MaxSessions = 1
  MaxPlayed = 1
  None = None
INVARIANTS ExportedIsCurrent
