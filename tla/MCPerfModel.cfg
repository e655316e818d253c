SPECIFICATION PerfSpec
CONSTANTS
  Models <- MCModels
  MaxTrace = 9
  BhtEntries = 2
  RasDepth = 2
  NoInstr = NoInstr
INVARIANTS
  OnePerPort
  HasExact
  ReturnsPredictedRight
PROPERTIES
  TraceRetires
CHECK_DEADLOCK FALSE
