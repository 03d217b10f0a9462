SPECIFICATION FairSpec
CONSTANTS
  Refs = {r1, r2}
  NumConns = 2
  Calls = {c1}
  RefundKeys = {k1}
  Captures <- MCCaptures
  MaxAmount = 2
  MaxTxns = 2
  MaxRefunds = 2
INVARIANTS
  OneHoldPerRef
  BooksMatchProvider
  FailoverIsAccounted
PROPERTIES
  LifecycleSpec
  IntentLeavesRecord
CHECK_DEADLOCK FALSE
