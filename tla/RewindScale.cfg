\* What the page is told of a rewind, at the speeds the header allows.
CONSTANTS
  Ops <- TrickOps
  ForwardSpeeds = {2}
  RewindSpeeds <- AllowedBackwards
  Volumes = {1}
  MaxVolume = 2
  SetupTypes = {"VOD"}
  Notices = {}
  QueueCap = 2
  MaxCalls = 2
  MaxFaults = 0
SPECIFICATION Spec
INVARIANT RewindTold
