SPECIFICATION MCSpec
CONSTANTS
  AgentCount = 3
  Participants <- MCParticipants
  LocalAgent = 3
  Artifacts <- MCArtifacts
  EventIds <- MCEventIds
  Quorum = 3
  MaxRounds = 2
  InitialEpoch = 0
  Epochs <- MCEpochs
  Events <- MCEvents
  MaxCalls = 18
  None = None
  Crew <- MCTrio
  CrewSize = 3
  Texts <- MCTexts
  NoClass = NoClass
  RequireHuman = TRUE
INVARIANTS
  WinnerHasMostEndorsements
  LastOpinionDecides
PROPERTIES
  RunEnds
