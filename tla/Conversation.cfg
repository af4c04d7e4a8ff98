SPECIFICATION Spec
CONSTANTS
  Voice <- VoiceDef
  Scenes <- ScenesDef
  Calls = {"a1", "a2"}
  Arm = "arm"
  Timer = "timer"
  Watch = "watch"
  None = "none"
CHECK_DEADLOCK FALSE
INVARIANTS TypeOK AnsweredOnce KeptStreamIsFree PauseCanBeLeft KeptStreamListens
