\* The taxonomy on an explicit FAIL after a retry, taken at its word.
SPECIFICATION GradingSpec
CONSTANTS
  Names = {graph}
  NoSlug = NoSlug
  BadEntry = BadEntry
  MaxEntries = 1
  ValidationRetryCap = 1
  PhaseRetryCap = 1
  Tick = 1
  Budget = 1
  OuterTimeout = 1
  Backoff = 1
  ErrorTexts <- AllErrorTexts
  Unprompted <- NothingUnprompted
  MaxTests = 1
INVARIANTS
  ExplicitFailIsSolverFail
CHECK_DEADLOCK FALSE
