SPECIFICATION OneCompositionSpec
CONSTANTS
  Leader = leader
  Workers = {}
  Grace = 0
  Poll = 1
  Debounce = 2
  Strict = FALSE
  KillOnChange = TRUE
  Delivered = {}
  Flags = {"expensive"}
  PredicateLists <- OnePredicate
  MaxReports = 2
PROPERTY BadPathEndsRun
CHECK_DEADLOCK FALSE
