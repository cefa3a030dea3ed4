SPECIFICATION FairSpec
CONSTANTS
  HasStreamHandler = TRUE
  MaxFrames = 4
CHECK_DEADLOCK FALSE
INVARIANTS TypeOK InOrder NothingLeftBehind NoLostWakeup
PROPERTY Settles
