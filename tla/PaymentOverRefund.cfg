SPECIFICATION Spec
CONSTANTS
  Refs = {r1}
  NumConns = 1
  Calls = {c1, c2}
  RefundKeys = {k1}
  Captures = {}
  MaxAmount = 1
  MaxTxns = 1
  MaxRefunds = 2
INVARIANTS
  RefundWithinCapture
CHECK_DEADLOCK FALSE
