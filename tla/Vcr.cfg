\* Every trick mode against every interleaving, one fault.
CONSTANTS
  Ops <- AllOps
  ForwardSpeeds = {2, 4}
  RewindSpeeds <- Backwards
  Volumes = {1, 3}
  MaxVolume = 2
  SetupTypes = {"VOD", "TVS"}
  Notices = {"play", "quit"}
  QueueCap = 2
  MaxCalls = 3
  MaxFaults = 1
SPECIFICATION Spec
INVARIANTS TypeOK ModeAgrees PlaysNormally LastCommandWins
