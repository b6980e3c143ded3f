\* A run that is cancelled goes on.
SPECIFICATION FlowSpec
CONSTANTS
  a = a
  b = b
  c = c
  Runs = {r1}
  Nodes = {a, b, c}
  NoNode = NoNode
  Graphs <- Acyclic
CHECK_DEADLOCK FALSE
PROPERTIES CancelStops
