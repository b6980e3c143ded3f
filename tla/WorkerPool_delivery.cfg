\* Two nodes, entries of every kind, crashes, lost replies, restarts, a stop.
SPECIFICATION FairSpec
CONSTANTS
  Nodes = {n1, n2}
  Kinds = {"known", "unknown", "bad"}
  Concurrency = 1
  MaxEntries = 2
  MaxFaults = 2
  MaxStops = 1
INVARIANTS TypeOK OneFate
PROPERTIES AtMostOnce EveryEntryReported
