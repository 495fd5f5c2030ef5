CHECK_DEADLOCK FALSE
SPECIFICATION Spec
CONSTANTS
  Skills = {"skill"}
  Root = "configRoot"
INVARIANT
  CtrlCWithdraws
