SPECIFICATION Spec
CONSTANTS
  Panes = {p1}
  Statuses = {idle, working}
  Unknown = Unknown
  Absent = Absent
  MaxBuffered = 2
  MaxBeats = 4
INVARIANTS EveryBeatCounted LossesAreCounted
PROPERTIES PostsRunForward BufferDrains AnnouncedPanesAreCovered ShutdownEnds
CHECK_DEADLOCK FALSE
