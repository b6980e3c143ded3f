------------------------------- MODULE MCEdge -------------------------------
(* The edge of bzy-interface in one instance for TLC: the two hubs that     *)
(* push to clients, the Go SDK's event streams, WebSocket connection and    *)
(* Wait loops, and a page of the UI.  They share no state, so a behaviour   *)
(* runs one of them and leaves the others alone.                            *)
EXTENDS MCWsHub, SseHub, SdkStream, SdkWs, SdkWait, UiSession, UiSocket, UiChat

VARIABLE part   \* the part this behaviour is about

edgeVars == <<part, vars, ssevars, streamVars, wsVars, waitVars, uiVars, socketVars, chatVars>>

\* Two handlers for one type of message, and none for the other.
KindDef == [h \in Handlers |-> "update"]

EdgeInit ==
  /\ part \in {"wshub", "ssehub", "stream", "ws", "wait", "ui", "socket", "chat"}
  /\ Init /\ SseInit /\ StreamInit /\ WsInit /\ WaitInit /\ UiInit
  /\ SocketInit /\ ChatInit

EdgeNext ==
  /\ UNCHANGED part
  /\ \/ part = "wshub" /\ Next
     \/ part # "wshub" /\ UNCHANGED vars
  /\ \/ part = "ssehub" /\ SseNext
     \/ part # "ssehub" /\ UNCHANGED ssevars
  /\ \/ part = "stream" /\ StreamNext
     \/ part # "stream" /\ UNCHANGED streamVars
  /\ \/ part = "ws" /\ WsNext
     \/ part # "ws" /\ UNCHANGED wsVars
  /\ \/ part = "wait" /\ WaitNext
     \/ part # "wait" /\ UNCHANGED waitVars
  /\ \/ part = "ui" /\ UiNext
     \/ part # "ui" /\ UNCHANGED uiVars
  /\ \/ part = "socket" /\ SocketNext
     \/ part # "socket" /\ UNCHANGED socketVars
  /\ \/ part = "chat" /\ ChatNext
     \/ part # "chat" /\ UNCHANGED chatVars

\* What starts a part is never fair, so nothing is owed to the parts that a
\* behaviour leaves alone.
EdgeSpec ==
  /\ EdgeInit /\ [][EdgeNext]_edgeVars
  /\ Fairness /\ SseFairness /\ StreamFairness /\ WsFairness
  /\ WaitFairness /\ UiFairness /\ SocketFairness

-----------------------------------------------------------------------------
\* The state of every part is what its declarations say.
EdgeTypeOK ==
  /\ TypeOK /\ SseTypeOK /\ StreamTypeOK /\ WsTypeOK /\ WaitTypeOK
  /\ UiTypeOK /\ SocketTypeOK /\ ChatTypeOK

\* What either hub hands to a peer is what was put into its channel, in that
\* order, and a stream that completed has all of it (handler.go, streaming.go).
\* What a client's functions are called with is what was sent to it, in order,
\* and none of it is missed without an error (sse.go, ws.go).
StreamsFaithful == InOrder /\ StreamComplete /\ IterFaithful /\ HandlersFaithful

\* What belongs to a peer that is gone ends: the writer of a handler that
\* returned, the handler of a connection that was lost, however full the hub's
\* channels are, and the stream of a channel that was closed.
HubsEnd == WriterFollowsReader /\ HandlerReturns /\ ClosedEnds

\* A page sends no stale token (UiSendsFresh).  It has one connection at most,
\* and shows and pings none that is gone; until its layout is unmounted for the
\* first time it shows and pings the one there is (OneConnection).  The answer
\* of a send that no other of its chat overlaps, and that has text, is kept once
\* and whole behind its question (AnswersWhole) (client.ts, ws.ts, chat.ts).
PageConsistent == UiSendsFresh /\ OneConnection /\ AnswersWhole

\* At the client, an iteration whose stream has ended returns; a message is
\* dispatched, if none before it fails to decode, the connection stays and its
\* peer reads; the loops of a connection that is down end; and a Wait whose job
\* has ended returns.  In the page a request returns, unless it waits for a
\* refresh that waits for itself, and a lost connection is tried again until the
\* layout is unmounted for the first time.
ClientsEnd ==
  /\ IterEnds /\ InboundHandled /\ WsEnds /\ WaitEnds
  /\ UiReturns /\ Reconnects
=============================================================================
