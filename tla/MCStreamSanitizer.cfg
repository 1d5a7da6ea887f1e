\* Two steps of five units together; a substantial line has two units, a full buffer
\* three.
SPECIFICATION SanitizerSpec
CONSTANTS
  AnchorMinLen = 2
  MaxSegmentBuffer = 3
  MaxAssistantChars = 3
  MaxChunk = 2
  MaxText = 5
  MaxSteps = 2
INVARIANTS
  SanitizerTypeOK
  ChunksDoNotMatter
  NoLeakStreamed
CHECK_DEADLOCK FALSE
