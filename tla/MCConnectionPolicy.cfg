CONSTANTS
  Uids <- MCIds
  Gids <- MCIds
  Peers <- MCPeers
  Priorities <- MCPriorities
  MaxRules = 3
  DistinctPriorities = TRUE

SPECIFICATION Spec

INVARIANT TypeOK
INVARIANT TopWildcardDecidesEveryPeer
