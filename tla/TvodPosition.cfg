\* The position the page is told of a programme shifted in time.
CONSTANTS
  Texts <- ShiftedTexts
  SetupTimes = 2
  Second = 4
  PtsModulus = 32
  MaxOffset = 4
  FirstPts <- SomePts
  Moves <- SomeMoves
  MaxCalls = 1
  MaxFaults = 2
  MaxLooks = 3
SPECIFICATION Spec
INVARIANTS TvodTold
CHECK_DEADLOCK FALSE
