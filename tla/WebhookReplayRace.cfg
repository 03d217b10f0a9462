SPECIFICATION HookSpec
CONSTANTS
  Refs = {r1}
  NumConns = 1
  Calls = {c1}
  RefundKeys = {k1}
  Captures = {}
  MaxAmount = 1
  MaxTxns = 1
  MaxRefunds = 1
  EventIds = {e1}
  MaxDirect = 0
  Overlap = TRUE
SYMMETRY Symmetry
INVARIANTS
  DoneEventsHaveNoEffect
CHECK_DEADLOCK FALSE
