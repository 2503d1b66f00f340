\* Two players on one receiver, every failure once.
CONSTANTS
  Inst = {1, 2}
  Wants <- SomeWants
  Lineup <- TwoFrequencies
  Kinds = {"live", "0", "clear", "dvb", "bad"}
  MaxTries = 2
  MaxCalls = 4
  MaxFaults = 1
SPECIFICATION Spec
INVARIANTS TypeOK TableThere TunedRight KeyDropped LicenceSpent TunnelFollows RepliesInStep
CHECK_DEADLOCK FALSE
