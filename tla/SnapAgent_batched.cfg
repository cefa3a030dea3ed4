SPECIFICATION Spec
CONSTANTS
  Call = {c1, c2}
  Message <- OneMessage
  StoreLives = {1}
  Batched = TRUE
  MaxAge = 6
  Lag = 0
  MaxClock = 7
  MaxLife = 1
  Drift = 1
  TicksPerSecond = 2
  Self = "bob"
  NoAddressee = "nobody"
  NoMessage = NoMessage
  Handlers = {"run"}
  StreamHandlers = {"run"}
CHECK_DEADLOCK FALSE
INVARIANT HandledAtMostOnce
