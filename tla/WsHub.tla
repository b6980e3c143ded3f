-------------------------------- MODULE WsHub --------------------------------
(***************************************************************************)
(* The WebSocket hub of bzy-interface (internal/ws/handler.go): the HTTP   *)
(* handler and writer goroutine of every connection, the hub's own         *)
(* goroutine with its three channels, and callers of SendToUser.           *)
(*                                                                         *)
(* SendToUser holds the read lock and the hub writes under the write lock, *)
(* so each is one step.  A send on a channel the hub has closed panics in  *)
(* the caller, and the deferred RUnlock runs.                              *)
(***************************************************************************)
EXTENDS Naturals, Sequences, SequencesExt, FiniteSets

CONSTANTS
  Conns,       \* connections, each accepted once
  Users,
  UserOf,      \* the user of each connection
  SendCap,     \* of a connection's send channel (64)
  HubCap,      \* of register and unregister (32)
  BroadcastCap,\* of broadcast (256)
  MaxOffered   \* bound: messages handed to SendToUser; the n-th is the number n

ASSUME ConnsAssumption == UserOf \in [Conns -> Users]
ASSUME CapsAssumption ==
  SendCap \in Nat \ {0} /\ HubCap \in Nat \ {0} /\ BroadcastCap \in Nat \ {0}
  /\ MaxOffered \in Nat

VARIABLES
  reader,     \* the handler: upgrade, readPump and its deferred function
  writer,     \* writePump
  open,       \* the network connection is open
  send,       \* the connection's send channel
  closed,     \* the hub has closed it
  register, unregister, broadcast,   \* the hub's channels
  conns,      \* h.conns
  userConns,  \* h.userConns
  offered,    \* how many messages were handed to SendToUser
  sent,       \* what was put into each send channel, in order
  wrote,      \* what was written to each connection, in order
  panics      \* how often SendToUser panicked

cvars == <<reader, writer, open>>
hvars == <<register, unregister, broadcast, conns, userConns>>
mvars == <<offered, sent, wrote, panics>>
vars == <<cvars, send, closed, hvars, mvars>>

TypeOK ==
  /\ reader \in [Conns -> {"none", "registering", "reading", "inbound", "leaving", "gone"}]
  /\ writer \in [Conns -> {"none", "writing", "done"}]
  /\ open \in [Conns -> BOOLEAN] /\ closed \in [Conns -> BOOLEAN]
  /\ \A c \in Conns : send[c] \in Seq(1..MaxOffered) /\ Len(send[c]) <= SendCap
  /\ register \in Seq(Conns) /\ unregister \in Seq(Conns)
  /\ Len(register) <= HubCap /\ Len(unregister) <= HubCap
  /\ broadcast \in 0..BroadcastCap
  /\ conns \subseteq Conns
  /\ userConns \in [Users -> Seq(Conns)]
  /\ offered \in 0..MaxOffered
  /\ \A c \in Conns : sent[c] \in Seq(1..MaxOffered) /\ wrote[c] \in Seq(1..MaxOffered)
  /\ panics \in Nat

Init ==
  /\ reader = [c \in Conns |-> "none"] /\ writer = [c \in Conns |-> "none"]
  /\ open = [c \in Conns |-> FALSE] /\ closed = [c \in Conns |-> FALSE]
  /\ send = [c \in Conns |-> <<>>]
  /\ register = <<>> /\ unregister = <<>> /\ broadcast = 0
  /\ conns = {} /\ userConns = [u \in Users |-> <<>>]
  /\ offered = 0
  /\ sent = [c \in Conns |-> <<>>] /\ wrote = [c \in Conns |-> <<>>]
  /\ panics = 0

ReaderTo(c, label) == reader' = [reader EXCEPT ![c] = label]
Shut(c) == open' = [open EXCEPT ![c] = FALSE]

-----------------------------------------------------------------------------
(* A connection                                                            *)

\* The upgrade succeeded and the Conn exists.
Accept(c) ==
  /\ reader[c] = "none"
  /\ ReaderTo(c, "registering")
  /\ open' = [open EXCEPT ![c] = TRUE]
  /\ UNCHANGED <<writer, send, closed, hvars, mvars>>

\* h.register <- wsc, then the two pumps start.
Register(c) ==
  /\ reader[c] = "registering" /\ Len(register) < HubCap
  /\ register' = Append(register, c)
  /\ ReaderTo(c, "reading")
  /\ writer' = [writer EXCEPT ![c] = "writing"]
  /\ UNCHANGED <<open, send, closed, unregister, broadcast, conns, userConns, mvars>>

\* ReadJSON returned a message: hub.broadcast <- msg, which may have to wait.
ReadMessage(c) ==
  /\ reader[c] = "reading" /\ open[c]
  /\ ReaderTo(c, "inbound")
  /\ UNCHANGED <<writer, open, send, closed, hvars, mvars>>

Broadcast(c) ==
  /\ reader[c] = "inbound" /\ broadcast < BroadcastCap
  /\ broadcast' = broadcast + 1
  /\ ReaderTo(c, "reading")
  /\ UNCHANGED <<writer, open, send, closed, register, unregister, conns, userConns, mvars>>

\* ReadJSON failed: the peer is gone, or writePump closed the connection, or
\* what was read is no message.
ReadFails(c) ==
  /\ reader[c] = "reading"
  /\ ReaderTo(c, "leaving")
  /\ UNCHANGED <<writer, open, send, closed, hvars, mvars>>

\* The deferred function: hub.unregister <- c, and the connection is closed.
Unregister(c) ==
  /\ reader[c] = "leaving" /\ Len(unregister) < HubCap
  /\ unregister' = Append(unregister, c)
  /\ ReaderTo(c, "gone")
  /\ Shut(c)
  /\ UNCHANGED <<writer, send, closed, register, broadcast, conns, userConns, mvars>>

\* Variant for mutation: writePump unregisters as well before it returns.
WriteFailsUnregisters(c) ==
  /\ writer[c] = "writing" /\ send[c] # <<>> /\ Len(unregister) < HubCap
  /\ send' = [send EXCEPT ![c] = Tail(@)]
  /\ writer' = [writer EXCEPT ![c] = "done"]
  /\ unregister' = Append(unregister, c)
  /\ Shut(c)
  /\ UNCHANGED <<reader, closed, register, broadcast, conns, userConns, mvars>>

\* Variant for mutation: the message stays in the channel.
WriteTwice(c) ==
  /\ writer[c] = "writing" /\ send[c] # <<>> /\ open[c]
  /\ wrote' = [wrote EXCEPT ![c] = Append(@, Head(send[c]))]
  /\ UNCHANGED <<cvars, send, closed, hvars, offered, sent, panics>>

\* writePump takes the next message from its channel and writes it.
Write(c) ==
  /\ writer[c] = "writing" /\ send[c] # <<>> /\ open[c]
  /\ send' = [send EXCEPT ![c] = Tail(@)]
  /\ wrote' = [wrote EXCEPT ![c] = Append(@, Head(send[c]))]
  /\ UNCHANGED <<cvars, closed, hvars, offered, sent, panics>>

\* Variant for mutation: the deferred Close is missing.
WriteFailsKeepsOpen(c) ==
  /\ writer[c] = "writing" /\ send[c] # <<>>
  /\ send' = [send EXCEPT ![c] = Tail(@)]
  /\ writer' = [writer EXCEPT ![c] = "done"]
  /\ UNCHANGED <<reader, open, closed, hvars, mvars>>

\* WriteJSON fails: the peer is gone or the connection closed.
WriteFails(c) ==
  /\ writer[c] = "writing" /\ send[c] # <<>>
  /\ send' = [send EXCEPT ![c] = Tail(@)]
  /\ writer' = [writer EXCEPT ![c] = "done"]
  /\ Shut(c)
  /\ UNCHANGED <<reader, closed, hvars, mvars>>

\* The range over a closed channel ends when it is empty.
WriterEnds(c) ==
  /\ writer[c] = "writing" /\ send[c] = <<>> /\ closed[c]
  /\ writer' = [writer EXCEPT ![c] = "done"]
  /\ Shut(c)
  /\ UNCHANGED <<reader, send, closed, hvars, mvars>>

-----------------------------------------------------------------------------
(* The hub                                                                 *)

HubRegister ==
  /\ register # <<>>
  /\ LET c == Head(register) IN
       /\ conns' = conns \cup {c}
       /\ userConns' = [userConns EXCEPT ![UserOf[c]] = Append(@, c)]
  /\ register' = Tail(register)
  /\ UNCHANGED <<cvars, send, closed, unregister, broadcast, mvars>>

\* Variant for mutation: the send channel stays open.
HubUnregisterOpen ==
  /\ unregister # <<>>
  /\ conns' = conns \ {Head(unregister)}
  /\ unregister' = Tail(unregister)
  /\ UNCHANGED <<cvars, send, closed, register, broadcast, userConns, mvars>>

\* The connection leaves conns, not userConns, and its channel is closed.
HubUnregister ==
  /\ unregister # <<>>
  /\ LET c == Head(unregister) IN
       /\ conns' = conns \ {c}
       /\ closed' = [closed EXCEPT ![c] = TRUE]
  /\ unregister' = Tail(unregister)
  /\ UNCHANGED <<cvars, send, register, broadcast, userConns, mvars>>

\* The message is taken and goes nowhere.
HubBroadcast ==
  /\ broadcast > 0
  /\ broadcast' = broadcast - 1
  /\ UNCHANGED <<cvars, send, closed, register, unregister, conns, userConns, mvars>>

-----------------------------------------------------------------------------
(* SendToUser                                                              *)

\* The connections SendToUser gets to: it panics at the first closed channel.
Reached(u) ==
  LET all == userConns[u]
      bad == {k \in 1..Len(all) : closed[all[k]]} IN
  IF bad = {} THEN all ELSE SubSeq(all, 1, (CHOOSE k \in bad : \A j \in bad : k <= j) - 1)

\* Variant for mutation: the sender does not look whether there is room.
OffersAlways(u) == {c \in Range(Reached(u)) : TRUE}

\* The non-blocking send: a connection without room misses the message.
Offers(u) == {c \in Range(Reached(u)) : Len(send[c]) < SendCap}

SendToUser(u) ==
  LET takes == Offers(u) IN
  /\ offered < MaxOffered
  /\ offered' = offered + 1
  /\ send' = [c \in Conns |-> IF c \in takes THEN Append(send[c], offered') ELSE send[c]]
  /\ sent' = [c \in Conns |-> IF c \in takes THEN Append(sent[c], offered') ELSE sent[c]]
  /\ panics' = IF Reached(u) = userConns[u] THEN panics ELSE panics + 1
  /\ UNCHANGED <<cvars, closed, hvars, wrote>>

-----------------------------------------------------------------------------
Hub == HubRegister \/ HubUnregister \/ HubBroadcast
WritePump(c) == Write(c) \/ WriteFails(c) \/ WriterEnds(c)

\* What a connection's handler does by itself once the connection is lost.
Leave(c) ==
  \/ Register(c) \/ Broadcast(c) \/ Unregister(c)
  \/ ~ open[c] /\ ReadFails(c)

Next ==
  \/ \E c \in Conns : \/ Accept(c) \/ Register(c) \/ ReadMessage(c) \/ Broadcast(c)
                      \/ ReadFails(c) \/ Unregister(c) \/ WritePump(c)
  \/ Hub
  \/ \E u \in Users : SendToUser(u)

Spec == Init /\ [][Next]_vars

\* The goroutines run, each ready case of the hub's select is taken in the
\* end, and senders blocked on a channel are served in turn (hence strong
\* fairness, for others may fill it again in between); no peer has to connect, talk or hang up.
Fairness ==
  /\ WF_vars(HubRegister) /\ WF_vars(HubUnregister) /\ WF_vars(HubBroadcast)
  /\ \A c \in Conns : SF_vars(Leave(c)) /\ WF_vars(WritePump(c))

FairSpec == Spec /\ Fairness

-----------------------------------------------------------------------------
(* Properties                                                              *)

\* close(c.send) runs at most once for a connection; a second one would panic
\* in the hub's goroutine and stop the process.
ClosedOnce == [][HubUnregister => ~ closed[Head(unregister)]]_vars

\* Every connection gets what was put into its channel, in that order, and
\* nothing twice; what is not written yet is still in the channel, unless
\* writePump has given up.
InOrder ==
  \A c \in Conns :
    /\ IsPrefix(wrote[c], sent[c])
    /\ writer[c] # "done" => sent[c] = wrote[c] \o send[c]

\* Once a handler has returned, its writer goroutine ends too: the hub closes
\* the channel it ranges over.
WriterFollowsReader == \A c \in Conns : reader[c] = "gone" ~> writer[c] = "done"

\* A lost connection's handler returns, however full the hub's channels were.
HandlerReturns ==
  \A c \in Conns : reader[c] # "none" /\ writer[c] = "done" ~> reader[c] = "gone"

\* handler.go:61, "Hub manages all active WebSocket connections": once the
\* hub has caught up, a connection that is gone is not in conns.
OnlyActiveConns ==
  register = <<>> /\ unregister = <<>> =>
    \A c \in conns : reader[c] # "gone"
=============================================================================
