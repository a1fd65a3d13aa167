SPECIFICATION FairSpec
CONSTANTS
  t1 = t1
  t2 = t2
  file1 = file1
  file2 = file2
  folder = folder
  Tokens <- MCTokens
  Cids <- MCCids
  PinsOf <- MCPinsOf
  MaxPolls = 1
  MaxUpsets = 1
  MaxChanges = 1
  Upsets = {"answer", "refused", "launch", "stop", "renew", "crash", "off", "reset", "restart"}
INVARIANTS
  TypeOK
  CurrentIsAwaited
  QueueAgrees
  JobsAreServed
  RecordedIsPresent
  PinnedIsRecorded
  SettledMatchesWallet
PROPERTIES
  WishesComeTrue
\* The bounds may be used up with nothing left to do.
CHECK_DEADLOCK FALSE
