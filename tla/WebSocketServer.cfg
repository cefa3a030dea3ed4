SPECIFICATION FairSpec
CONSTANTS
  MaxServers = 2
  Closer = {k1, k2}
  Client = {i1, i2}
  MaxBeats = 3
  MaxPongs = 2
  MayOverlap = FALSE
CHECK_DEADLOCK FALSE
INVARIANTS TypeOK CloseStops NoServerLeaks SilentIsCut
PROPERTIES CutOnlySilent CloseSettles
