CONSTANTS
  Tenants = {t1}
  Keys = {k1, k2}
  Incidents = {i1}
  Bodies = {b1}
  ActionIds = {a1}
  ActionDigests = {d1}
  MaxVersion = 0
  None = None
  Requests = {r1, r2, r3}
  Existing <- MCExisting
  Streams = {s1}
  BufferSize = 1
  StartCursors = {2}
SPECIFICATION ApiSpec
INVARIANTS
  StreamExact
SYMMETRY Symmetry
CHECK_DEADLOCK FALSE
