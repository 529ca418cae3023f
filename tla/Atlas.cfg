\* Two challenges; searches, tabs and hash changes in any order.
SPECIFICATION FairSpec
CONSTANTS
  Graphs = {"bid", "bad"}
  Malformed = {"bad"}
  NoGraph = NoGraph
  MaxPages = 2
  MaxCalls = 2
  Slugs = {"bank", "chat"}
  Unknown = "elsewhere"
  Panel <- TwoChallenges
  Hits <- SearchBank
  Members <- EveryKind
  MaxEvents = 2
INVARIANTS
  PageAgrees
  NoCardForgotten
PROPERTIES
  Settles
