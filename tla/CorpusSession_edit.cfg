SPECIFICATION Spec
CONSTANTS
  Lines = {"", "a", "b", "r", " a"}
  Trim <- MCTrim
  MaxRevision = 3
  Sheets <- MCSheets
  Layouts <- MCLayouts
  Values <- MCValues
  LastEdit = 2
  MaxSegments = 3
  MaxSessions = 2
  MaxPlayed = 1
  None = None
INVARIANTS GridShowsSession MarksFitTheirText OwnersAreSound ExportIsOfThisSession PlayedTextIsShown
PROPERTIES NothingIsLostOnLeaving
