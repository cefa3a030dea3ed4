SPECIFICATION FairSpec
CONSTANTS
  Call = {c1, c2}
  Message <- Assorted
  StoreLives = {1, 3}
  Batched = FALSE
  MaxAge = 6
  Lag = 1
  MaxClock = 5
  MaxLife = 3
  Drift = 1
  TicksPerSecond = 2
  Self = "bob"
  NoAddressee = "nobody"
  NoMessage = NoMessage
  Handlers = {"run"}
  StreamHandlers = {"run"}
CHECK_DEADLOCK FALSE
INVARIANTS HandlerSeesVerified RejectedHasNoEffect
PROPERTIES EveryCallSettles SomeCopyIsAdmitted KeepsPromise
