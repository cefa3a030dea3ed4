SPECIFICATION Spec
CONSTANTS
  HasStreamHandler = TRUE
  MaxFrames = 2
CHECK_DEADLOCK FALSE
INVARIANT ResponseCompletes
