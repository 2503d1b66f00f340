\* One medium after the other: every way out of a player thread.
CONSTANTS
  Ops <- PageOps
  Env <- PageEnv
  Dirty = {"stype", "setup_type", "if_sm_setup", "if_keep_alive_error", "player_status", "marks"}
  Disciplined = TRUE
  MaxThreads = 2
  MaxCalls = 4
  QueueCap = 2
  NetTries = 2
  SearchTries = 2
SPECIFICATION Spec
INVARIANT ExitReleasesAll
PROPERTIES KeepsContract BeatsKeepContract
CHECK_DEADLOCK FALSE
