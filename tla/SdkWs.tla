------------------------------- MODULE SdkWs --------------------------------
(***************************************************************************)
(* The WebSocket connection of the Go SDK (pkg/client/ws.go).  One mutex   *)
(* guards the table of handlers and every write to the connection.  Send   *)
(* holds it while it writes, without a deadline; dispatch takes it only to *)
(* copy the handlers, and calls them without it, so that they may Send.    *)
(*                                                                         *)
(* The peer may stop reading, and a write to it then waits for as long as  *)
(* the connection stays.  The n-th message that arrives is the number n.   *)
(***************************************************************************)
EXTENDS Naturals, Sequences, FiniteSets, SequencesExt

CONSTANTS
  Handlers,   \* functions given to On
  Kind,       \* the type of message each of them is for
  WsTypes,    \* types of messages
  Garbled,    \* what arrives instead of a type in a message that does not decode
  MaxInbound, \* bound: messages that arrive
  MaxSends    \* bound: ticks of the ping loop and messages the user sends

ASSUME WsAssumption ==
  Kind \in [Handlers -> WsTypes] /\ Garbled \notin WsTypes /\ MaxInbound \in Nat /\ MaxSends \in Nat

VARIABLES
  link,       \* "none", "up", "closed" by Close, or "lost"
  peerReads,  \* the peer takes what is written
  arrived,    \* the types of the messages that arrived
  inbox,      \* messages not yet read
  handlers,   \* of each type of message, in order of registration
  since,      \* how many messages each found dispatched, or more than all
  mu,         \* who holds the mutex: "free", or a goroutine in Send
  done,       \* the channel is closed
  at,         \* where the goroutines are
  message,    \* what readLoop dispatches
  todo,       \* the handlers it has still to call
  called,     \* calls of handlers
  sends       \* ticks and sends of the user

wsVars ==
  <<link, peerReads, arrived, inbox, handlers, since, mu, done, at, message, todo, called, sends>>

Goroutines == {"reader", "pinger", "user"}
Messages == 1..MaxInbound
Frames == WsTypes \cup {Garbled}
Never == MaxInbound + 1

WsTypeOK ==
  /\ link \in {"none", "up", "closed", "lost"}
  /\ peerReads \in BOOLEAN /\ done \in BOOLEAN
  /\ arrived \in BoundedSeq(Frames, MaxInbound) /\ inbox \in BoundedSeq(Messages, MaxInbound)
  /\ handlers \in [WsTypes -> Seq(Handlers)]
  /\ since \in [Handlers -> 0..Never]
  /\ mu \in Goroutines \cup {"free"}
  /\ at \in [Goroutines -> {"idle", "locking", "calling", "sending", "ended"}]
  /\ message \in 0..MaxInbound
  /\ \A i \in DOMAIN todo : todo[i] \in Handlers
  /\ \A i \in DOMAIN called : called[i] \in Messages \X Handlers
  /\ sends \in 0..MaxSends

WsInit ==
  /\ link = "none" /\ peerReads = TRUE /\ arrived = <<>> /\ inbox = <<>>
  /\ handlers = [type \in WsTypes |-> <<>>] /\ since = [h \in Handlers |-> Never]
  /\ mu = "free" /\ done = FALSE
  /\ at = [g \in Goroutines |-> "idle"]
  /\ message = 0 /\ todo = <<>> /\ called = <<>> /\ sends = 0

loopVars == <<message, todo, called>>
tableVars == <<handlers, since>>
linkVars == <<link, peerReads, arrived, inbox>>

Moves(g, place) == at' = [at EXCEPT ![g] = place]

-----------------------------------------------------------------------------
(* The connection                                                          *)

\* Connect starts readLoop and pingLoop; when it fails there is nothing.
Connect ==
  /\ link = "none"
  /\ link' = "up"
  /\ UNCHANGED <<peerReads, arrived, inbox, tableVars, mu, done, at, loopVars, sends>>

Arrives(type) ==
  /\ link = "up" /\ Len(arrived) < MaxInbound
  /\ arrived' = Append(arrived, type)
  /\ inbox' = Append(inbox, Len(arrived) + 1)
  /\ UNCHANGED <<link, peerReads, tableVars, mu, done, at, loopVars, sends>>

PeerStalls ==
  /\ link = "up"
  /\ peerReads' = FALSE
  /\ UNCHANGED <<link, arrived, inbox, tableVars, mu, done, at, loopVars, sends>>

LinkLost ==
  /\ link = "up"
  /\ link' = "lost"
  /\ UNCHANGED <<peerReads, arrived, inbox, tableVars, mu, done, at, loopVars, sends>>

\* By any goroutine, one that is in Send included.
Close ==
  /\ link # "none"
  /\ done' = TRUE
  /\ link' = IF link = "up" THEN "closed" ELSE link
  /\ UNCHANGED <<peerReads, arrived, inbox, tableVars, mu, at, loopVars, sends>>

-----------------------------------------------------------------------------
(* On and Send                                                             *)

\* Variant for mutation: the last handler registered is called first.
OnFirst(h) ==
  /\ link # "none" /\ at["user"] = "idle" /\ mu = "free" /\ since[h] = Never
  /\ handlers' = [handlers EXCEPT ![Kind[h]] = <<h>> \o @]
  /\ since' = [since EXCEPT ![h] = IF at["reader"] = "locking" THEN message - 1 ELSE message]
  /\ UNCHANGED <<linkVars, mu, done, at, loopVars, sends>>

On(h) ==
  /\ link # "none" /\ at["user"] = "idle" /\ mu = "free" /\ since[h] = Never
  /\ handlers' = [handlers EXCEPT ![Kind[h]] = Append(@, h)]
  /\ since' = [since EXCEPT ![h] = IF at["reader"] = "locking" THEN message - 1 ELSE message]
  /\ UNCHANGED <<linkVars, mu, done, at, loopVars, sends>>

Attempts(g) ==
  /\ link # "none" /\ at[g] = "idle" /\ sends < MaxSends
  /\ Moves(g, "sending")
  /\ sends' = sends + 1
  /\ UNCHANGED <<linkVars, tableVars, mu, done, loopVars>>

UserSends == Attempts("user")

SendLocks(g) ==
  /\ at[g] = "sending" /\ mu = "free"
  /\ mu' = g
  /\ UNCHANGED <<linkVars, tableVars, done, at, loopVars, sends>>

Writable == peerReads \/ link # "up"

\* readLoop sends from a handler, and goes on with the next one.
AfterSend(g) ==
  IF g = "reader" /\ todo # <<>> THEN "calling" ELSE "idle"

\* WriteJSON returns, with an error when the connection is down.
SendReturns(g) ==
  /\ at[g] = "sending" /\ mu = g /\ Writable
  /\ mu' = "free"
  /\ Moves(g, AfterSend(g))
  /\ UNCHANGED <<linkVars, tableVars, done, loopVars, sends>>

-----------------------------------------------------------------------------
(* readLoop                                                                *)

Undecodable == inbox # <<>> /\ arrived[Head(inbox)] = Garbled

Reads ==
  /\ at["reader"] = "idle" /\ inbox # <<>> /\ ~Undecodable
  /\ message' = Head(inbox) /\ inbox' = Tail(inbox)
  /\ Moves("reader", "locking")
  /\ UNCHANGED <<link, peerReads, arrived, tableVars, mu, done, todo, called, sends>>

\* Any error of ReadJSON ends the loop, that of one message too: the connection
\* stays up with nobody to read it.
ReadEnds ==
  /\ at["reader"] = "idle"
  /\ link \in {"closed", "lost"} \/ Undecodable
  /\ Moves("reader", "ended") /\ done' = TRUE
  /\ UNCHANGED <<linkVars, tableVars, mu, loopVars, sends>>

\* Variant for mutation: the mutex is not given back before the calls.
DispatchKeepsLock ==
  /\ at["reader"] = "locking" /\ mu = "free"
  /\ todo' = handlers[arrived[message]]
  /\ mu' = IF todo' = <<>> THEN "free" ELSE "reader"
  /\ Moves("reader", IF todo' = <<>> THEN "idle" ELSE "calling")
  /\ UNCHANGED <<linkVars, tableVars, done, message, called, sends>>

\* The critical section of dispatch, from Lock to Unlock.
Dispatch ==
  /\ at["reader"] = "locking" /\ mu = "free"
  /\ todo' = handlers[arrived[message]]
  /\ Moves("reader", IF todo' = <<>> THEN "idle" ELSE "calling")
  /\ UNCHANGED <<linkVars, tableVars, mu, done, message, called, sends>>

\* The handler may Send; its error is dropped.
CallHandler ==
  /\ at["reader"] = "calling"
  /\ called' = Append(called, <<message, Head(todo)>>)
  /\ todo' = Tail(todo)
  /\ \E place \in {"sending", IF todo' = <<>> THEN "idle" ELSE "calling"} : Moves("reader", place)
  /\ UNCHANGED <<linkVars, tableVars, mu, done, message, sends>>

-----------------------------------------------------------------------------
(* pingLoop                                                                *)

\* With done closed and a tick due, select takes either.
PingTick == Attempts("pinger")

PingStops ==
  /\ at["pinger"] = "idle" /\ done
  /\ Moves("pinger", "ended")
  /\ UNCHANGED <<linkVars, tableVars, mu, done, loopVars, sends>>

-----------------------------------------------------------------------------
ReaderStep == Reads \/ ReadEnds \/ Dispatch \/ CallHandler

WsNext ==
  \/ Connect \/ Close \/ LinkLost \/ PeerStalls \/ (\E type \in Frames : Arrives(type))
  \/ ReaderStep \/ PingTick \/ PingStops
  \/ UserSends \/ (\E h \in Handlers : On(h))
  \/ \E g \in Goroutines : SendLocks(g) \/ SendReturns(g)

\* Goroutines run, and one that waits for the mutex gets it: it is free again
\* and again, as every Send that has the mutex ends.
WsFairness ==
  /\ WF_wsVars(ReaderStep) /\ WF_wsVars(PingStops)
  /\ \A g \in Goroutines : WF_wsVars(SendLocks(g) \/ SendReturns(g))

-----------------------------------------------------------------------------
(* Properties                                                              *)

\* A message past readLoop's dispatch, with all of its handlers called.
Past(n) == n < message \/ (n = message /\ at["reader"] # "locking" /\ todo = <<>>)

\* Handlers are called once for every message of their type that is dispatched
\* after they were registered, in the order in which the messages arrived and,
\* for one message, in order of registration (ws.go:92).
HandlersFaithful ==
  /\ \A i, j \in DOMAIN called :
       i < j => \/ called[i][1] < called[j][1]
                \/ /\ called[i][1] = called[j][1]
                   /\ since[called[i][2]] <= since[called[j][2]]
                   /\ called[i][2] # called[j][2]
  /\ \A n \in DOMAIN arrived : \A h \in Handlers :
       /\ <<n, h>> \in ToSet(called) => arrived[n] = Kind[h] /\ since[h] < n
       /\ Past(n) /\ arrived[n] = Kind[h] /\ since[h] < n => <<n, h>> \in ToSet(called)

\* How many messages arrived before the first that does not decode.
Decodable == Cardinality({n \in DOMAIN arrived : \A k \in 1..n : arrived[k] # Garbled})

\* The reader catches up with what arrived before a message that does not
\* decode, unless the connection goes down, or a Send waits, with the mutex, for
\* a peer that does not read.  What arrives after such a message is not handled
\* at all (ws.go:129).
InboundHandled ==
  arrived # <<>> ~> (Past(Decodable) \/ link \in {"closed", "lost"} \/ ~peerReads)

\* When the connection is down both loops end and no Send waits any more.
WsEnds ==
  link \in {"closed", "lost"} ~>
    (at["reader"] = "ended" /\ at["pinger"] = "ended" /\ at["user"] = "idle")
=============================================================================
