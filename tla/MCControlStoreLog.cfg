CONSTANTS
  t1 = t1
  i1 = i1
  Tenants = {t1, t2}
  Keys = {k1, k2}
  Incidents = {i1, i2}
  Bodies = {b1}
  ActionIds = {a1}
  ActionDigests = {d1}
  MaxVersion = 1
  None = None
  Requests = {r1, r2}
  Existing <- MCExisting
SPECIFICATION FairSpec
INVARIANT TenantIsolation
PROPERTIES
  ImplementsLog
  EveryRequestAnswered
CHECK_DEADLOCK FALSE
