CONSTANTS
  NULL = NULL
  Garbage = Garbage
  Driver = Driver
  DriverName = "org.freedesktop.DBus"
  BusNames <- MCBusNames
  Values <- MCValues
  EntryTypes <- MCEntryTypes
  RuleFields <- MCRuleFields
  Requests <- MCRequests
  Subjects <- MCSubjects
  Priorities <- MCPriorities
  MaxRules = 2
  UninitPointers = {NULL, Garbage}
  TailIsNul = {TRUE, FALSE}
  MallocMayFail = FALSE
  DistinctPriorities = TRUE

SPECIFICATION Spec

INVARIANT TransmissionDecisionIsHighestPriority
