\* Two copies of a run, uploaded and uploaded again, and one fetcher.
SPECIFICATION Spec
CONSTANTS
  Workers = {w1, w2}
  NoWorker = NoWorker
  Stamps = {s1, s2}
  NoArchive = NoArchive
  MaxAttempts = 3
  MaxKills = 1
  Fetchers = {f1}
  NoRun = NoRun
  MaxFetches = 2
  MaxForces = 1
  MaxDeaths = 1
SYMMETRY Symmetric
INVARIANTS
  SuccessIsOnePair
  MergedIsWhole
  FailedMergeLeavesNothing
  SuccessIsImported
  MergedIsReleasedPair
PROPERTIES
  OnlyForceReplaces
CHECK_DEADLOCK FALSE
