SPECIFICATION CliSpec
CONSTANTS
  Flags = {"expensive", "low_data"}
  PredicateLists <- CliPredicateLists
  MaxClock = 2
  MaxU64 = 69663
  Invocations <- MCInvocations
INVARIANTS
  ResultJustified
  StableVerdict
  ParseFaithful
  ArgumentsDecide
  CheckJustified
  ExplainAgrees
  LookupIsReplay
CHECK_DEADLOCK FALSE
