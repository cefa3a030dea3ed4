SPECIFICATION Spec
CONSTANTS
  Listener = listener
  Others = {other}
  Relay = {y1, y2}
  Request = {r1, r2}
  Lookback = 1
  Behind = 1
  MaxElapsed = 0
  MaxListens = 1
CHECK_DEADLOCK FALSE
SYMMETRY Interchangeable
INVARIANTS TypeOK OwnAnswer FastAnswerIsHeard ListenerCatchesUp
