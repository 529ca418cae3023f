\* The Expand button as browser-check.mjs asserts it.
SPECIFICATION Spec
CONSTANTS
  Graphs = {"overview", "bid", "expire"}
  Malformed = {}
  NoGraph = NoGraph
  MaxPages = 1
  MaxCalls = 2
  Slugs = {"bank"}
  Unknown = "elsewhere"
  Panel <- OneChallenge
  Hits <- NoSearch
  Members <- NoFilter
  MaxEvents = 1
PROPERTIES
  ExpandToggles
