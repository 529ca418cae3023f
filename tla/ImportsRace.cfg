\* --force and the skipping of imported runs, taken at their word.
SPECIFICATION Spec
CONSTANTS
  Workers = {w1}
  NoWorker = NoWorker
  Stamps = {s1}
  NoArchive = NoArchive
  MaxAttempts = 1
  MaxKills = 0
  Fetchers = {f1, f2}
  NoRun = NoRun
  MaxFetches = 2
  MaxForces = 0
  MaxDeaths = 0
PROPERTIES
  OnlyForceReplaces
CHECK_DEADLOCK FALSE
