SPECIFICATION Spec
CONSTANTS
  FinishSteps = 2
  Poses <- SimPoses
  Pictures <- SimPictures
  Velocities <- SimVelocities
  Geometry <- SimGeometry
  Commands <- BoardCommands
  Outputs <- BoardOutputs
  Readings <- BoardReadings
  Strays <- BoardStrays
  Samples <- NoSamples
  Parameters <- PlantParameters
  UintMax = 7
  Frequencies <- AskedFrequencies
INVARIANTS MonitorCanBeDisabled
CHECK_DEADLOCK FALSE
