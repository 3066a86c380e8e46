SPECIFICATION Spec
CONSTANTS
  Paths = {p}
  Sheets <- MCSheets
  HeaderRows = {1, 2}
  Versions = {1, 2}
  Columns <- MCColumns
  Languages = {l}
  Voices = {v}
  None = None
  MaxEdits = 2
  MaxSaves = 2
  MaxFaults = 1
  MaxRestarts = 1
INVARIANTS GridIsOfShownInput
PROPERTIES MappingComesBack
CHECK_DEADLOCK FALSE
