SPECIFICATION RequestsSpec
CONSTANTS
  Requests = {r1, r2, r3}
  Sessions = {s1, s2}
  Wallets = {w1, w2}
  Conversations = {c1, c2}
  MaxReplies = 1
  OneAtATime = TRUE
  LoadsFreshOnly = TRUE
  Keys = {"right", "wrong"}
  Expected = "right"
SYMMETRY Interchangeable
INVARIANTS RequestsTypeOK TurnIsItsWallets RowsAreTheOwners
CHECK_DEADLOCK FALSE
