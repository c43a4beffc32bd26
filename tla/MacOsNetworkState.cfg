SPECIFICATION FairSpec
CONSTANT MaxQueued = 2
INVARIANTS
  TypeOK
  SnapshotCurrent
  NoLostWakeup
  NoUseAfterFree
PROPERTIES
  BarrierOpens
  AllReleased
  ImplementsReports
CHECK_DEADLOCK FALSE
