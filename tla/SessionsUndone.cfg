SPECIFICATION Spec
CHECK_DEADLOCK FALSE
CONSTANTS
  r1 = r1
  r2 = r2
  Requests <- MCRequests
  Kinds = {"call", "logout"}
  IdleTimeout = 2
  AbsoluteLifetime = 3
  ReauthGrace = 1
  TouchGranularity = 1
  MaxNow = 4
  MaxMinted = 3
  MaxVersion = 4
  MaxLostUpdates = 1
SYMMETRY Symmetry
PROPERTY EndedStaysEnded
