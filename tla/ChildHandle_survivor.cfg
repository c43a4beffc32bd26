SPECIFICATION Spec
CONSTANTS
  Leader = leader
  Workers = {w1}
  Grace = 2
  MaxSent = 2
INVARIANT NoSurvivorAfterTerminate
CHECK_DEADLOCK FALSE
