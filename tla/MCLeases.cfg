CONSTANTS
  task = task
  other = other
  Transitions <- RuntimeTask
  Terminals <- RuntimeTaskTerminals
  InitialState = "PENDING"
  Idempotency <- MCIdempotency
  VersionCheck <- MCVersionCheck
  Aggregates = {task, other}
  Keys = {k1}
  Actors = {"SCHEDULER", "WORKER"}
  Nobody = Nobody
  Callers = {c1, c2}
  Writers = {w1, w2}
  LeaseState = "LEASED"
  MaxVersion <- MCMaxVersion
  MaxCheckpoint <- MCMaxCheckpoint
  Traces = {t1, t2}
  Digests = {d1, d2}
  Automatic <- OneSink
  Relayed = {langsmith}
  Ingests = {h1, h2}
  Loop = loop
  Drains = {r1}
  Relay = relay
  Capacity = 1
  Limit = 1
  MaxFailures = 1
  MaxStoreErrors = 1
  MaxCrashes = 1
  None = None
SPECIFICATION LeasesSpec
INVARIANTS
  HistoryIsPath
  KeyAppliedOnce
  FencedTransition
  BufferSound
PROPERTIES
  CheckpointAdvances
  AckedFinal
SYMMETRY Interchangeable
CHECK_DEADLOCK FALSE
