\* Two objects, each with its player: stopping one ends the thread of the other.
CONSTANTS
  Page = {"a", "b"}
  Volumes = {5}
  StoredVolume = 4
  Modes = {0}
  PageAreas = {"part"}
  Channels = {1, 2}
  XmlFails = FALSE
  QueueCap = 2
  MaxCalls = 6
SPECIFICATION Spec
CHECK_DEADLOCK FALSE
INVARIANTS StopsOnlyItself
