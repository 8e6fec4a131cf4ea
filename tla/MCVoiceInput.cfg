SPECIFICATION InputSpec
CONSTANTS
  Window = 40
  IdleStart = 30
  BargeIn = 50
  EndSilence = 60
  PreRoll = 70
  RingCapacity = 170
  MaxUtterance = 180
  MaxGen = 3
  MaxSample = 280
  MaxCallbacks = 4
  MaxEpochs = 1
CHECK_DEADLOCK FALSE
INVARIANTS
  OnlyThresholdDropLoses
  CaptureHonest
  DropsExplained
  NoFencedSplice
