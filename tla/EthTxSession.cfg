SPECIFICATION Spec
CONSTANTS
  NumTxs = 2
  Chains = {c1}
  Accounts = {a1}
  MaxNonce = 3
  MaxKept = 10
  None = None
  Stale = Stale
  Ops = {"reject", "rejectall", "retry", "revert", "outside", "restart", "lock"}
  MaxNotices = 2
  DefaultChain = c1
INVARIANTS
  TypeOK
  AssertionsHold
  RejectedIsNotSent
  PendingIsPolled
  LockedIsNotPolled
PROPERTIES
  DroppedIsDead
\* All ids may be used up and everything answered: the model may stop.
CHECK_DEADLOCK FALSE
