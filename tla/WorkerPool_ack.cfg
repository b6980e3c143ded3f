\* What queue.go says of Ack.
SPECIFICATION Spec
CONSTANTS
  Nodes = {n1}
  Kinds = {"known"}
  Concurrency = 1
  MaxEntries = 1
  MaxFaults = 0
  MaxStops = 0
INVARIANTS AckCompletes
