SPECIFICATION FairSpec
CONSTANTS
  MaxLines = 5
  BlankLines = {3}
  MaxRead = 4
  MaxRemovals = 3
  MaxCrashes = 1
  Gentle = TRUE
INVARIANTS
  WholeLines
  NoneOvertaken
PROPERTIES
  EveryLineRead
