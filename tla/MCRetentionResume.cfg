CONSTANTS
  Tenants = {t1}
  Keys = {k1, k2, k3}
  Incidents = {i1}
  Bodies = {b1}
  ActionIds = {}
  ActionDigests = {}
  MaxVersion = 0
  None = None
  Streams = {s1}
  BufferSize = 2
  StartCursors = {}
  RetentionCount = 2
  MaxEvents = 4
SPECIFICATION MemSpec
INVARIANT NoSilentGap
CHECK_DEADLOCK FALSE
