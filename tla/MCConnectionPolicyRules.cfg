CONSTANTS
  Uids <- MCIds
  Gids <- MCIds
  Peers <- MCPeers
  Priorities <- MCPrioritiesFromZero
  MaxRules = 2
  DistinctPriorities = TRUE

SPECIFICATION Spec

INVARIANT ConnectionDecisionIsHighestPriority
