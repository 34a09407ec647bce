SPECIFICATION Spec
CHECK_DEADLOCK FALSE
CONSTANTS
  f1 = f1
  f2 = f2
  u1 = u1
  u2 = u2
  k1 = k1
  k2 = k2
  NoCall = NoCall
  Fields <- MCFields
  Forms <- MCForms
  Calls <- MCCalls
  Values <- MCValues
  Blank <- MCBlank
  AutoRetryLimit = 1
  MaxVersion = 3
  MaxRefused = 1
  MaxMoves = 3
SYMMETRY Symmetry
INVARIANTS TypeOK HistoryChains
PROPERTIES RemovedStaysRemoved OverwritesOnlySeen SavedWhatWasClicked
