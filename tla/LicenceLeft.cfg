\* One player, one clear film: its licence file is still there when the thread ended.
CONSTANTS
  Inst = {1}
  Wants <- SomeWants
  Lineup <- TwoFrequencies
  Kinds = {"clear"}
  MaxTries = 1
  MaxCalls = 2
  MaxFaults = 0
SPECIFICATION Spec
INVARIANT LicenceRemoved
CHECK_DEADLOCK FALSE
