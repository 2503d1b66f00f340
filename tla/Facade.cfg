\* One object that binds itself to either of the two slots, every operation.
CONSTANTS
  Page = {"a"}
  Volumes = {5}
  StoredVolume = 4
  Modes = {0, 1, 255}
  PageAreas = {"part"}
  Channels = {1, 2}
  XmlFails = TRUE
  QueueCap = 2
  MaxCalls = 6
SPECIFICATION FairSpec
INVARIANTS TypeOK NoOrphanThread QueueHeld JoinsAsked SoundScale FullscreenAgrees
PROPERTIES StopReturns
CHECK_DEADLOCK FALSE
