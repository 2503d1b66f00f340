\* Heartbeat, trick commands and notices on one socket; the server may refuse,
\* answer late, fall silent or close, and select may fail.
CONSTANTS
  Env = {"silent", "closed", "select"}
  Scripts <- OneScript
  Announces = {"eos", "bos", "unknown"}
  MissMax = 2
  MaxCommands = 1
  MaxAnnounces = 1
  MaxRefused = 1
  MaxLate = 1
SPECIFICATION Spec
INVARIANTS TypeOK LiveServerKept ActedOnce
PROPERTY MsKeepsContract
