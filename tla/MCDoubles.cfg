SPECIFICATION Spec
CONSTANTS
  Scripts <- MCScripts
  Grace = 2
  MaxHandles = 1
  MaxSent = 2
  MaxInjected = 2
  Injectable = {"Interrupt"}
INVARIANT NoSleepOnSignal
PROPERTY ImplementsHandle
CHECK_DEADLOCK FALSE
