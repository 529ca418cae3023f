\* The advice of run-lanes.sh, taken at its word.
SPECIFICATION Spec
CONSTANTS
  bank = bank
  fanout = fanout
  Challenges = {bank, fanout}
  Files <- TwoChallenges
  HasSetup = {bank}
  MaxLayers = 2
  MaxCrashes = 1
  MaxCommands = 1
INVARIANTS
  DecryptRestores
