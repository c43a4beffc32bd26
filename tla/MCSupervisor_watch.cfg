SPECIFICATION Spec
CONSTANTS
  Leader = leader
  Workers = {w1, w2}
  Grace = 2
  Poll = 2
  Debounce = 3
  Strict = TRUE
  KillOnChange = TRUE
  Delivered = {"Interrupt", "Hup"}
SYMMETRY WorkerSymmetry
INVARIANTS
  TypeOK
  NeverOrphans
  ExitCodeFaithful
  DebounceHonoured
  PromptKill
PROPERTIES
  NoStraySignal
  ImplementsLifecycle
CHECK_DEADLOCK FALSE
