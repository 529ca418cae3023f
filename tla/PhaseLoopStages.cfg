\* Two subsystems, plan rejections, few retries, half-second steps of the
\* clock: the control flow, the overrun, the refinement and termination.
SPECIFICATION FairSpec
CONSTANTS
  Names = {graph, feed}
  NoSlug = NoSlug
  BadEntry = BadEntry
  MaxEntries = 2
  ValidationRetryCap = 1
  PhaseRetryCap = 1
  Tick = 2
  Budget = 1
  OuterTimeout = 3
  Backoff = 1
  ErrorTexts <- CleanOrTransient
  Unprompted <- NothingUnprompted
INVARIANTS
  TypeOK
  BoundedOverrun
  StopsAtFirstFailure
  BuildsAcceptedPlans
  PassIsEarned
  PlanAllowance
  FreshTranscript
PROPERTIES
  ImplementsPipeline
  Terminates
CHECK_DEADLOCK FALSE
