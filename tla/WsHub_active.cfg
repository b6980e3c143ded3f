\* Two connections of one user, two messages, channels of one or two.
SPECIFICATION Spec
CONSTANTS
  Conns = {c1, c2}
  Users = {u1}
  UserOf <- OneUser
  MaxOffered = 2
  SendCap = 1
  HubCap = 1
  BroadcastCap = 1
CHECK_DEADLOCK FALSE
INVARIANTS OnlyActiveConns

