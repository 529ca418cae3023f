\* Two challenges; processes killed, and protected files encrypted by hand.
\* A process may find no challenge with a README.md, and no command left.
SPECIFICATION FairSpec
CONSTANTS
  bank = bank
  fanout = fanout
  Challenges = {bank, fanout}
  Files <- TwoChallenges
  HasSetup = {bank}
  MaxLayers = 4
  MaxCrashes = 2
  MaxCommands = 1
INVARIANTS
  SolverSees
  Restored
  GradesPlaintext
  NothingLost
  SomeChallengeRunnable
PROPERTIES
  ProcessesEnd
CHECK_DEADLOCK FALSE
