\* Two media one after the other on one player, faults, and looks at the picture.
CONSTANTS
  Texts <- SampleTexts
  SetupTimes = 2
  Second = 4
  PtsModulus = 32
  MaxOffset = 4
  FirstPts <- SomePts
  Moves <- SomeMoves
  MaxCalls = 2
  MaxFaults = 2
  MaxLooks = 3
SPECIFICATION Spec
INVARIANTS TypeOK SetupAsksForGiven LicenceOfMedium PlaysFromStart PositionTold
CHECK_DEADLOCK FALSE
