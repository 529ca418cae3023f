\* Two lanes that end in the same second.
SPECIFICATION FairSpec
CONSTANTS
  Runs = {r1, r2}
  NoRun = NoRun
  Pieces = 3
INVARIANTS
  OwnArtifacts
  ManifestVouches
  NeverInterleaved
  RunsAreRecorded
PROPERTIES
  ArtifactsStay
  RunsEnd
CHECK_DEADLOCK FALSE
