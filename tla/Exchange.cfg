SPECIFICATION FairSpec
CONSTANTS
  N = 3
  MaxCalls = 2
  Transports = 3
  Streaming = {2, 3}
  HasReplayStore = TRUE
  MaxRestarts = 1
CHECK_DEADLOCK FALSE
INVARIANTS HandlerAfterChain CompleteChain StreamOnce
PROPERTIES ChainSettles KeepsPromise
