SPECIFICATION Spec
CONSTANTS
  NumTxs = 2
  Chains = {c1}
  Accounts = {a1}
  MaxNonce = 3
  MaxKept = 10
  None = None
  Stale = Stale
  Ops = {"reconfirm"}
  MaxNotices = 2
  DefaultChain = c1
INVARIANTS
  AtMostOnce
\* All ids may be used up and everything answered: the model may stop.
CHECK_DEADLOCK FALSE
