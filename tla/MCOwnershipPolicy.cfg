CONSTANTS
  Keys <- MCKeys
  QueryNames <- MCQueryNames
  Priorities <- MCPriorities
  MaxRules = 3
  DistinctPriorities = TRUE

SPECIFICATION Spec

INVARIANT TypeOK
 
