SPECIFICATION FairSpec
CONSTANTS
  Sessions = {s1}
  Calls = {c1, c2}
  Rounds = 2
  Timeout = 2
  TTL = 3
  Lateness = 1
INVARIANTS AnswerableIffWaiting ExpiryCutsNoCall
PROPERTIES ImplementsRendezvous AwaitsSettle
