SPECIFICATION Spec
CONSTANTS
  Names = {"ann", "bob", "cat"}
  Numbers = {1, 2}
  Data = {"x", "y"}
  Files <- MCFiles
  Starts <- MCStarts
  MaxRuns = 3
  MaxEdits = 1
CHECK_DEADLOCK FALSE
INVARIANTS TypeOK AppliedMatches AppliedTwice DryRunTells
PROPERTIES CopyAddsNew
