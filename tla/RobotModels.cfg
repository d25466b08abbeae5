SPECIFICATION Spec
CONSTANTS
  FinishSteps = 2
  Poses <- SimPoses
  Pictures <- SimPictures
  Velocities <- SimVelocities
  Geometry <- SimGeometry
  Commands <- BoardCommands
  Outputs <- BoardOutputs
  Readings <- BoardReadings
  Strays <- BoardStrays
  Samples <- AllSamples
  Parameters <- PlantParameters
  UintMax = 7
  Frequencies <- AskedFrequencies
INVARIANTS LibraryLaws PowerBalance ChannelsAgree CropInside PoseOfTheTime RatesAsAsked
CHECK_DEADLOCK FALSE
