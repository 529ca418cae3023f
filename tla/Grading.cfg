\* One challenge of up to two subsystems from the first phase to its score.
SPECIFICATION GradingSpec
CONSTANTS
  Names = {graph, feed}
  NoSlug = NoSlug
  BadEntry = BadEntry
  MaxEntries = 2
  ValidationRetryCap = 1
  PhaseRetryCap = 1
  Tick = 1
  Budget = 1
  OuterTimeout = 1
  Backoff = 1
  ErrorTexts <- AllErrorTexts
  Unprompted <- NothingUnprompted
  MaxTests = 1
SYMMETRY Symmetric
INVARIANTS
  HeadlineHonest
  InfraNeverBlamed
  ZeroNeedsEvidence
  RetriesAreRejections
CHECK_DEADLOCK FALSE
