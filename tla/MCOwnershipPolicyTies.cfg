CONSTANTS
  Keys <- MCKeys
  QueryNames <- MCQueryNames
  Priorities <- MCPriorities
  MaxRules = 2
  DistinctPriorities = FALSE

SPECIFICATION Spec

INVARIANT OwnershipDecisionIsHighestPriority
