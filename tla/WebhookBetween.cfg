SPECIFICATION HookSpec
CONSTANTS
  Refs = {r1}
  NumConns = 1
  Calls = {c1}
  RefundKeys = {k1}
  Captures <- MCCaptures
  MaxAmount = 2
  MaxTxns = 1
  MaxRefunds = 2
  EventIds = {e1, e2, e3}
  MaxDirect = 2
  Overlap = FALSE
SYMMETRY Symmetry
INVARIANTS
  DoneEventsHaveNoEffect
  ProcessedEventsStand
  ReplayConverges
  
CHECK_DEADLOCK FALSE
