CONSTANTS
  t1 = t1
  i1 = i1
  Tenants = {t1}
  Keys = {k1, k2}
  Incidents = {i1, i2}
  Bodies = {b1}
  ActionIds = {a1}
  ActionDigests = {d1, d2}
  MaxVersion = 1
  None = None
  Requests = {r1, r2, r3}
  Existing <- MCExisting
SPECIFICATION Spec
INVARIANTS
  TypeOK
  ProjectionContiguous
  AppliedOnce
  OneAnswerPerKey
  RefusedLeavesNoTrace
PROPERTIES
  DecisionSpendsProposal
  TerminalStable
SYMMETRY Symmetry
CHECK_DEADLOCK FALSE
