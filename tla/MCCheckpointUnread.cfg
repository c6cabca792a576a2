SPECIFICATION Spec
CONSTANTS
  e1 = e1
  e2 = e2
  v1 = v1
  v2 = v2
  N = 3
  Readable = {1, 3}
  PageEnd = {1, 2, 3}
  EngineId = {e1, e2}
  NoEngine = NoEngine
  Pack = {v1}
  NoPack = NoPack
  MaxAttempts = 2
  EngineOf <- TwoEngines
  PackOf <- OnePack
INVARIANTS
  UnreadNotCompleted
CHECK_DEADLOCK FALSE
