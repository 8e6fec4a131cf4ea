CONSTANTS
  Speakers = {s1, s2}
  MaxGen = 2
  MaxRequests = 2
  Chunks = 2
  PipeCapacity = 1
  AvCapacity = 2
  Threshold = 2
  MaxTrouble = 1
CHECK_DEADLOCK FALSE
SPECIFICATION MCSpec
INVARIANTS
  GptSpeaksItsOwn
PROPERTIES
  SentencesEnd
