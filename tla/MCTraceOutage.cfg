CONSTANTS
  Traces = {t1, t2}
  Digests = {d1}
  Automatic <- OneSink
  Relayed = {}
  Ingests = {h1, h2}
  Loop = loop
  Drains = {w1}
  Relay = relay
  Capacity = 2
  Limit = 2
  MaxFailures = 1
  MaxStoreErrors = 0
  MaxCrashes = 0
  None = None
SPECIFICATION TraceFairSpec
PROPERTIES
  OutageTolerant
CHECK_DEADLOCK FALSE
