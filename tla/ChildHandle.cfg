SPECIFICATION FairSpec
CONSTANTS
  Leader = leader
  Workers = {w1, w2}
  Grace = 2
  MaxSent = 3
INVARIANT TypeOK
PROPERTIES
  NoStraySignal
  KillAfterGrace
  TerminateReturns
  KillClearsGroup
CHECK_DEADLOCK FALSE
