SPECIFICATION GeneratorSpec
CONSTANTS
  MaxRequested = 3
  MaxAwaited = 1
  Unreplied = Unreplied
CHECK_DEADLOCK FALSE
INVARIANTS
  OwnReply
