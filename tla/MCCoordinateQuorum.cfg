SPECIFICATION MCSpec
CONSTANTS
  AgentCount = 3
  Participants <- MCParticipants
  LocalAgent = 3
  Artifacts <- MCArtifacts
  EventIds <- MCEventIds
  Quorum = 2
  MaxRounds = 1
  InitialEpoch = 0
  Epochs <- MCEpochs
  Events <- MCEvents
  MaxCalls = 18
  None = None
  Crew <- MCTrio
  CrewSize = 3
  Texts <- MCTexts
  NoClass = NoClass
  RequireHuman = FALSE
INVARIANTS
  WinnerHasMostEndorsements
