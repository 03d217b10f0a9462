SPECIFICATION MCSpec
CONSTANTS
  Refs = {1}
  NumConns = 2
  Calls = {c1, c2}
  RefundKeys = {k1, k2}
  Captures = {}
  MaxAmount = 1
  MaxTxns = 2
  MaxRefunds = 2
  ApiRequests <- MCOrderRequests
  MaxOrders = 1
SYMMETRY Symmetry
INVARIANTS
  TypeOK
  RefundsReconcile
  RefundsAreAudited
  AuditShowsStatus
  StatusIsBacked
  ProviderCallsAreBacked
  ChargedIfFulfilled
CHECK_DEADLOCK FALSE
