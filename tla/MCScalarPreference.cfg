SPECIFICATION Spec
CONSTANTS
  Class = "Preference"
  AgentIds = {ann, bob, eve}
  RosterSize = 2
  Roster <- MCRoster
  Scalars <- MCScalars
  FiniteScalars <- MCFiniteScalars
  Start <- MCStart
  EventIds <- MCEventIds
  InitialEpoch = 1
  Epochs <- MCEpochs
  Events <- MCEvents
  MaxCalls = 7
  None = None
  ann = ann
  bob = bob
  eve = eve
  nan = nan
INVARIANTS
  ScalarsAreTheirOwn
PROPERTIES
  FirstAnnouncementStands
  ImplementsRounds
CHECK_DEADLOCK FALSE
