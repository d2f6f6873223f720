CONSTANTS
  t1 = t1
  i1 = i1
  Tenants = {t1}
  Keys = {k1}
  Incidents = {i1, i2}
  Bodies = {b1}
  ActionIds = {a1}
  ActionDigests = {d1}
  MaxVersion = 0
  None = None
  Requests = {r1, r2}
  Existing <- MCExisting
SPECIFICATION Spec
PROPERTY DuplicateGetsOriginal
CHECK_DEADLOCK FALSE
