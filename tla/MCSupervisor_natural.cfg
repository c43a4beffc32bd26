SPECIFICATION FairSpec
CONSTANTS
  Leader = leader
  Workers = {}
  Grace = 1
  Poll = 1
  Debounce = 0
  Strict = FALSE
  KillOnChange = TRUE
  Delivered = {}
PROPERTY NaturalExitPropagated
CHECK_DEADLOCK FALSE
