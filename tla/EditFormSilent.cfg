SPECIFICATION Spec
CHECK_DEADLOCK FALSE
CONSTANTS
  f1 = f1
  f2 = f2
  u1 = u1
  u2 = u2
  k1 = k1
  k2 = k2
  NoCall = NoCall
  Fields <- MCFields
  Forms <- MCForms
  Calls = {k1}
  Values <- MCValues
  Blank <- MCBlank
  AutoRetryLimit = 1
  MaxVersion = 3
  MaxRefused = 0
  MaxMoves = 4
PROPERTY NeverOverwritesUnseen
