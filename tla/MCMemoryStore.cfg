CONSTANTS
  Tenants = {t1}
  Keys = {k1, k2}
  Incidents = {i1}
  Bodies = {b1}
  ActionIds = {a1}
  ActionDigests = {d1}
  MaxVersion = 1
  None = None
  Streams = {s1}
  BufferSize = 1
  StartCursors = {2}
  RetentionCount = 2
  MaxEvents = 4
SPECIFICATION MemFairSpec
INVARIANTS
  ReferenceStreamSound
PROPERTY StreamCatchesUp
CHECK_DEADLOCK FALSE
