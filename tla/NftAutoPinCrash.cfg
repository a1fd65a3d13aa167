SPECIFICATION FairEachSpec
CONSTANTS
  t1 = t1
  t2 = t2
  file1 = file1
  file2 = file2
  folder = folder
  Tokens <- MCTokens
  Cids <- MCCids
  PinsOf <- MCPinsOf
  MaxPolls = 1
  MaxUpsets = 1
  MaxChanges = 0
  Upsets = {"crash"}
PROPERTIES
  LaunchesDaemonIfNeeded
CHECK_DEADLOCK FALSE
