\* One node with two workers, shut down twice, at any moment.
SPECIFICATION FairSpec
CONSTANTS
  Nodes = {n1}
  Kinds = {"known", "unknown"}
  Concurrency = 2
  MaxEntries = 3
  MaxFaults = 1
  MaxStops = 2
INVARIANTS WaitGroupCounts ShutdownQuiesces AtMostOneLateTask
PROPERTIES GracefulExitLosesNothing ShutdownReturns
