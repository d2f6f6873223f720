CONSTANTS
  Tenants = {t1}
  Keys = {k1, k2}
  Incidents = {i1}
  Bodies = {b1}
  ActionIds = {}
  ActionDigests = {}
  MaxVersion = 0
  None = None
  Requests = {r1, r2, r3}
  Existing <- MCExisting
  Streams = {s1}
  BufferSize = 2
  StartCursors = {}
SPECIFICATION ApiSpec
INVARIANT NoSilentGap
SYMMETRY Symmetry
CHECK_DEADLOCK FALSE
