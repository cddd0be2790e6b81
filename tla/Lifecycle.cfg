SPECIFICATION FairSpec
CONSTANTS
  s = s
  t = t
  p = p
  u = u
  Requests = {s, p, u}
  Streaming = {s, u}
  Batched = {u}
  MaxQueue = 2
  MaxDeltas = 1
  MaxCancels = 2
INVARIANTS
  TypeOK
  WorkerCovered
  Accounted
  StreamFaithful
PROPERTIES
  AllEnd
  GetterFreed
CHECK_DEADLOCK FALSE
