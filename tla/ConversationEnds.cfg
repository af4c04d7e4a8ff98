SPECIFICATION FairSpec
CONSTANTS
  Voice <- TwoDef
  Scenes <- KeptDef
  Calls = {"a1", "a2"}
  Arm = "arm"
  Timer = "timer"
  Watch = "watch"
  None = "none"
CHECK_DEADLOCK FALSE
PROPERTY TurnsEnd
