SPECIFICATION FairSpec
CONSTANTS
  Turns = {t1, t2}
  Calls = {c1, c2}
  Timeout = 2
  NoTurn = NoTurn
INVARIANTS ReplayComplete StreamedIsHeard LiveFlagNeedsLostCall
PROPERTY RestsAgain
