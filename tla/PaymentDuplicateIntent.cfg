SPECIFICATION Spec
CONSTANTS
  Refs = {r1}
  NumConns = 1
  Calls = {c1, c2}
  RefundKeys = {k1}
  Captures = {}
  MaxAmount = 1
  MaxTxns = 2
  MaxRefunds = 1
INVARIANTS
  OneTxnPerKey
CHECK_DEADLOCK FALSE
