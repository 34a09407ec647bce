SPECIFICATION Spec
CONSTANTS
  w1 = w1
  w2 = w2
  Windows <- MCWindows
  Data = {"d"}
  MaxSessions = 1
  MaxExpiries = 1
  MaxFaults = 2
  MaxAbandoned = 0
SYMMETRY Symmetry
INVARIANTS TypeOK HeldBehindPrompt StoreIsCurrent
CHECK_DEADLOCK FALSE
