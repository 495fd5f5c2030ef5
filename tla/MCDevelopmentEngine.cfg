SPECIFICATION Spec
CONSTANTS
  AgentCount = 3
  Participants <- MCParticipants
  LocalAgent = 3
  Artifacts = {art1, art2}
  EventIds <- MCEventIds
  Quorum = 2
  MaxRounds = 2
  InitialEpoch = 1
  Epochs <- MCEpochs
  Events <- MCEvents
  MaxCalls = 7
  None = None
  art1 = art1
  art2 = art2
INVARIANTS
  ExactlyOnce
  SelectedWasSubmitted
  NoIdleQuorum
PROPERTIES
  ImplementsRounds
CHECK_DEADLOCK FALSE
