SPECIFICATION FairSpec
CONSTANTS
  Frames = 2
  Chunks = 2
  NetSlots = 2
  Rotate = TRUE
  TopicDepth = 1
  MaxFlips = 1
  Width = 2
  Gain = 1
  Scenes <- TwoScenes
INVARIANTS OnlyRepeatsAreWrong
PROPERTIES EachFrameOnce SteersByTheObject NodeEnds DrivesOn
CHECK_DEADLOCK FALSE
