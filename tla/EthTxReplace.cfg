SPECIFICATION Spec
CONSTANTS
  NumTxs = 3
  Chains = {c1}
  Accounts = {a1}
  MaxNonce = 3
  MaxKept = 1
  None = None
  Stale = Stale
  Ops = {"retry", "replace", "gas", "panelclose"}
  MaxNotices = 2
  DefaultChain = c1
INVARIANTS
  AtMostOnce
  NoNonceGap
\* All ids may be used up and everything answered: the model may stop.
CHECK_DEADLOCK FALSE
