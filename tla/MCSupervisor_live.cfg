SPECIFICATION FairSpec
CONSTANTS
  Leader = leader
  Workers = {w1}
  Grace = 1
  Poll = 0
  Debounce = 1
  Strict = FALSE
  KillOnChange = TRUE
  Delivered = {"Interrupt", "Hup"}
PROPERTIES
  SecondSignalEnds
  FlipEndsRun
  ExitNoticed
  SignalServed
  KeepsPromise
CHECK_DEADLOCK FALSE
