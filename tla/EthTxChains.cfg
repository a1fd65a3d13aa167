SPECIFICATION Spec
CONSTANTS
  NumTxs = 2
  Chains = {c1, c2}
  Accounts = {a1}
  MaxNonce = 2
  MaxKept = 10
  None = None
  Stale = Stale
  Ops = {"switch", "hardware", "signonly", "edit", "setnonce", "reject", "rejectall", "reset", "restart"}
  MaxNotices = 1
  DefaultChain = c1
INVARIANTS
  ConfirmedWasMined
PROPERTIES
  ImplementsLifecycle
\* All ids may be used up and everything answered: the model may stop.
CHECK_DEADLOCK FALSE
