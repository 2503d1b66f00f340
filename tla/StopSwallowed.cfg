\* stop of a video whose server announces the beginning of the stream.
CONSTANTS
  Ops = {"setSingleMedia", "stop"}
  Env = {"announce"}
  Dirty = {}
  Disciplined = TRUE
  MaxThreads = 2
  MaxCalls = 3
  QueueCap = 2
  NetTries = 1
  SearchTries = 1
SPECIFICATION FairSpec
PROPERTY QuitHonoured
CHECK_DEADLOCK FALSE
