SPECIFICATION Spec
CONSTANTS
  Turns = {t1, t2, t3, t4}
  MaxMessages = 5
  RoundTrip = 5
  OneAtATime = TRUE
  LoadsFreshOnly = TRUE
SYMMETRY TurnSymmetry
INVARIANTS NothingLost ExactlyOnce ReloadInOrder TranscriptInOrder
CHECK_DEADLOCK FALSE
