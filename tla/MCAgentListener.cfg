\* Once the process is gone nothing happens.
CHECK_DEADLOCK FALSE
SPECIFICATION Spec
CONSTANTS
  Skills = {"skill"}
  Root = "configRoot"
INVARIANTS
  ListedIsReady
  ExitLeavesNothing
PROPERTIES
  StopsWhole
