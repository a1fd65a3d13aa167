SPECIFICATION Spec
CONSTANTS
  NumTxs = 1
  Chains = {c1, c2}
  Accounts = {a1}
  MaxNonce = 3
  MaxKept = 10
  None = None
  Stale = Stale
  Ops = {"switch", "interrupt"}
  MaxNotices = 2
  DefaultChain = c1
INVARIANTS
  PublishedIsFound
\* All ids may be used up and everything answered: the model may stop.
CHECK_DEADLOCK FALSE
