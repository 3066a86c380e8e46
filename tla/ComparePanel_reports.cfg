SPECIFICATION Spec
CONSTANTS
  Space = " "
  Punctuation = {"."}
  Fold <- MCFold
  Scale = 60
  Files = {"f", "g"}
  Contents <- MCContents
  Later <- MCLater
  Age <- MCAge
  Drafts <- MCDrafts
  NoPath = NoPath
  OptionChoices <- MCOptions
  Invalid = Invalid
  Nothing = Nothing
  Longest = 3
  MaxEdits = 2
  MaxComparisons = 2
  MaxChanges = 1
  MaxFaults = 1
INVARIANTS ReportIsCurrent ReportIsSound
PROPERTIES ComparisonEnds
CHECK_DEADLOCK FALSE
