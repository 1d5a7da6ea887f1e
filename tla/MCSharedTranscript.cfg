\* Two turns and two calls on one transcript of up to five messages.
SPECIFICATION Spec
CONSTANTS
  Turns = {t1, t2}
  Calls = {c1, c2}
  MaxMessages = 5
SYMMETRY Symmetry
INVARIANTS
  ModelsSeePairs
  RepairIsLocal
  ResultsAreShown
  InterruptedIsOver
CHECK_DEADLOCK FALSE
