\* Both servers may stop answering at any time, under fair scheduling.
CONSTANTS
  Env = {"silent", "closed", "sm", "ssMiss"}
  Scripts <- OneScript
  Announces = {"bos"}
  MissMax = 2
  MaxCommands = 1
  MaxAnnounces = 0
  MaxRefused = 0
  MaxLate = 1
SPECIFICATION FairSpec
PROPERTIES LossNoticed SsKeepsContract
