\* Every operation in every order, every failure.
CONSTANTS
  Ops <- AllOps
  Env <- AllEnv
  Dirty = {"stype", "if_sm_setup"}
  Disciplined = FALSE
  MaxThreads = 2
  MaxCalls = 3
  QueueCap = 2
  NetTries = 2
  SearchTries = 2
SPECIFICATION Spec
INVARIANTS TypeOK OneActive NoStaleMessage DecoderOwned
PROPERTY QuitHeeded
CHECK_DEADLOCK FALSE
