SPECIFICATION FairSpec
CONSTANTS
  Keys = {serverRead, mobileRead, mobileWrite}
  Reads = {serverRead, mobileRead}
  ServerRun = {serverRead}
  MaxIterations = 4
  MaxFailures = 3
  MaxCalls = 2
INVARIANTS TranscriptPaired NoRepeatedRead SpiralBounded
PROPERTY TurnEnds
