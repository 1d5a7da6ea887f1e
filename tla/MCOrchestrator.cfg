SPECIFICATION FairSpec
CONSTANTS
  Specialists = {wallet, defi, market}
  Others = {core}
  Briefs = {b1, b2}
  MaxHops = 3
  MaxSteps = 2
INVARIANTS OneHopPerSpecialist NoStepLost
PROPERTY TurnEnds
