SPECIFICATION Spec
CONSTANTS
  Refs = {r1}
  NumConns = 1
  Calls = {c1}
  RefundKeys = {k1}
  Captures <- MCCaptures
  MaxAmount = 2
  MaxTxns = 1
  MaxRefunds = 2
INVARIANTS
  RefundsWerePaidOut
CHECK_DEADLOCK FALSE
