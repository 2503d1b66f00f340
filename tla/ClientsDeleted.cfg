\* A player object that has played one video is destroyed.
CONSTANTS
  Ops = {"setSingleMedia", "destroy"}
  Env = {}
  Dirty = {}
  Disciplined = TRUE
  MaxThreads = 1
  MaxCalls = 2
  QueueCap = 2
  NetTries = 1
  SearchTries = 1
SPECIFICATION Spec
INVARIANT TwoClients
CHECK_DEADLOCK FALSE
