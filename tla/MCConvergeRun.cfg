SPECIFICATION MCSpec
CONSTANTS
  Class = "Cascade"
  AgentIds = {ann, bob}
  RosterSize = 2
  Roster <- MCRoster
  Scalars = {2, 4, 8}
  FiniteScalars = {2, 4, 8}
  Start <- MCStart
  EventIds <- MCEventIds
  InitialEpoch = 0
  Epochs <- MCEpochs
  Events <- MCEvents
  MaxCalls = 16
  None = None
  Lead = 2
  PaperDemand <- MCPaperDemand
  I0 = 8
  Optimum <- MCOptimum
  R0 = 48
  Capacity = 60
  R_MIN = 2
  MaxRounds = 5
  PaperRounds = 4
  Improve = 0
  ann = ann
  bob = bob
  cat = cat
  eve = eve
INVARIANTS
  PlantsKeepTheirBooks
  ReportIsTheHistory
  LabelIsTrue
PROPERTIES
  HaltsAreEarned
  RunsEnd
