SPECIFICATION Spec
CONSTANTS
  w1 = w1
  w2 = w2
  Windows <- OneWindow
  Data = {"d", "e"}
  MaxSessions = 2
  MaxExpiries = 2
  MaxFaults = 0
  MaxAbandoned = 1
PROPERTY ExpiryIsPrompted
CHECK_DEADLOCK FALSE
