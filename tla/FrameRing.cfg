SPECIFICATION FairSpec
CONSTANTS
  Capacity = 2
  CodecInputs = 1
  MaxFrames = 5
  MaxStarts = 2
INVARIANT TypeOK
PROPERTY DeliversGops
PROPERTY TornOnlyIfExcused
PROPERTY KeyframeGetsThrough
