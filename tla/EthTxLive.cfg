SPECIFICATION FairSpec
CONSTANTS
  NumTxs = 2
  Chains = {c1}
  Accounts = {a1}
  MaxNonce = 2
  MaxKept = 10
  None = None
  Stale = Stale
  Ops = {"lock", "revert"}
  MaxNotices = 1
  DefaultChain = c1
PROPERTIES
  ApprovalEnds
  MinedIsNoticed
\* All ids may be used up and everything answered: the model may stop.
CHECK_DEADLOCK FALSE
