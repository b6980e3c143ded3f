\* WebSocket hub: two connections of one user, two messages, channels of one.
\* SSE hub: two subscriptions, under two ids or one over the other, three events.
\* SDK: a stream of two events, a connection with two messages, one Wait.
\* UI: two requests, four sockets, two chats with an answer of two pieces each.
SPECIFICATION EdgeSpec
CONSTANTS
  Conns = {c1, c2}
  Users = {u1}
  UserOf <- OneUser
  MaxOffered = 2
  SendCap = 1
  HubCap = 1
  BroadcastCap = 1
  ClientIds = {i1, i2}
  Topics = {t1}
  Chans = {s1, s2}
  NoChan = NoChan
  Cap = 1
  MaxPublished = 3
  Streams = {r1}
  Types = {"delta", "error"}
  Payloads = {d1}
  BadPayload = bad
  NoData = nodata
  MaxEvents = 2
  Handlers = {h1, h2}
  Kind <- KindDef
  WsTypes = {"update", "pong"}
  Garbled = garbled
  MaxInbound = 2
  MaxSends = 1
  Waiters = {w1}
  Requests = {q1, q2}
  Sockets = {k1, k2, k3, k4}
  NoSocket = NoSocket
  Chats = {a1, a2}
  Sends = {x1, x2}
  Nothing = Nothing
  MaxPieces = 2
CHECK_DEADLOCK FALSE
INVARIANTS EdgeTypeOK StreamsFaithful SubscribedOpen PageConsistent
PROPERTIES ClosedOnce HubsEnd ClientsEnd
