SPECIFICATION Spec
CONSTANTS
  Call = {c1, c2, c3}
  Message <- Copies
  StoreLives = {1}
  Batched = FALSE
  MaxAge = 5
  Lag = 0
  MaxClock = 9
  MaxLife = 1
  Drift = 1
  TicksPerSecond = 2
  Self = "bob"
  NoAddressee = "nobody"
  NoMessage = NoMessage
  Handlers = {"run"}
  StreamHandlers = {"run"}
CHECK_DEADLOCK FALSE
SYMMETRY Calls
INVARIANTS TypeOK HandledAtMostOnce StoreRemembers DuplicateIsJustified
