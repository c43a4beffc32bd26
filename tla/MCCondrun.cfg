SPECIFICATION CondrunSpec
CONSTANTS
  Leader = leader
  Workers = {}
  Grace = 0
  Poll = 0
  Debounce = 0
  Strict = FALSE
  KillOnChange = TRUE
  Delivered = {"Hup"}
  Flags = {"expensive", "low_data"}
  PredicateLists <- BothPredicates
  MaxReports = 2
INVARIANTS
  LaunchWarranted
  FlipWarranted
  EvaluationCurrent
PROPERTY ImplementsSupervisor
CHECK_DEADLOCK FALSE
