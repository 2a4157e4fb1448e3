SPECIFICATION Spec
CONSTANTS
  f1 = f1
  f2 = f2
  Fingers <- MCFingers
  Skills <- MCSkills
  Simple <- MCSimple
  MaxInputs = 3
  MaxPackets = 1
  MaxMoves = 3
INVARIANTS
  HudHolds
  TapsNotLost
  NothingStuck
PROPERTIES
  FramesGoOn
