\* The docstring of *overall-timeout-s* taken at its word.
SPECIFICATION Spec
CONSTANTS
  Names = {graph}
  NoSlug = NoSlug
  BadEntry = BadEntry
  MaxEntries = 1
  ValidationRetryCap = 0
  PhaseRetryCap = 1
  Tick = 2
  Budget = 3
  OuterTimeout = 2
  Backoff = 1
  ErrorTexts <- AllErrorTexts
  Unprompted <- NothingUnprompted
INVARIANTS
  HardCap
CHECK_DEADLOCK FALSE
