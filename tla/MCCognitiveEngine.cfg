SPECIFICATION FairEngineSpec
CONSTANTS
  Keys = {"user.name", "astronomy", "python"}
  Values = {"ann", "bob", "astronomy", "python"}
  Lines <- MCLines
  TopK = 2
  WorkingCapacity = 2
  MaxIds = 6
  MaxCycles = 3
INVARIANTS RepliesWithStoredName LearnedIsSaved TraceOfLastRecord
PROPERTIES CyclesEnd
CHECK_DEADLOCK FALSE
