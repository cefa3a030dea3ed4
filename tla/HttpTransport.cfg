SPECIFICATION MCSpec
CONSTANTS
  Char <- MCChar
  Size <- MCSize
  Document <- MCDocument
  MaxInBody = 3
  HasCard = TRUE
  Exchange = {x1, x2}
  MaxEvents = 1
  MaxServers = 2
CHECK_DEADLOCK FALSE
INVARIANTS DoneMeansAnswered CloseDrains EventsSurviveChunks
PROPERTIES SendSettles CloseSettles CountsWholeEvents
