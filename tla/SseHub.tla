------------------------------- MODULE SseHub -------------------------------
(***************************************************************************)
(* The SSE hub of bzy-interface (internal/streaming/streaming.go): topics  *)
(* with subscribed channels, Publish, and the ServeSSE loops that write    *)
(* what the channels hold.  Subscribe, Unsubscribe and Publish run under   *)
(* the hub's lock and are one step each.  The handlers that would call     *)
(* them are stubs, so any goroutine may call any of them at any time; a    *)
(* channel is served by one ServeSSE.                                      *)
(***************************************************************************)
EXTENDS Naturals, Sequences

CONSTANTS
  ClientIds, Topics,
  Chans,     \* channels, each made by one Subscribe
  NoChan,    \* no channel: the client is not subscribed
  Cap,       \* of a channel (32)
  MaxPublished   \* bound: events published; the n-th is the number n

ASSUME ChanAssumption ==
  NoChan \notin Chans /\ Cap \in Nat \ {0} /\ MaxPublished \in Nat

VARIABLES
  clients,   \* h.clients: topic and client id to channel
  home,      \* the topic each channel was made for
  owner,     \* the client id each channel was made for
  unused,    \* channels not made yet
  chan,      \* what is in each channel
  shut,      \* the channel is closed
  serve,     \* its ServeSSE
  taken, streamed,   \* what went into the channel, and to the response, in order
  published          \* how many events were published

svars == <<serve, streamed>>
ssevars == <<clients, home, owner, unused, chan, shut, svars, taken, published>>

SseTypeOK ==
  /\ clients \in [Topics -> [ClientIds -> Chans \cup {NoChan}]]
  /\ unused \subseteq Chans
  /\ home \in [Chans \ unused -> Topics] /\ owner \in [Chans \ unused -> ClientIds]
  /\ chan \in [Chans -> Seq(1..MaxPublished)] /\ \A c \in Chans : Len(chan[c]) <= Cap
  /\ shut \in [Chans -> BOOLEAN]
  /\ serve \in [Chans -> {"none", "serving", "done", "cancelled"}]
  /\ taken \in [Chans -> Seq(1..MaxPublished)] /\ streamed \in [Chans -> Seq(1..MaxPublished)]
  /\ published \in 0..MaxPublished

SseInit ==
  /\ clients = [t \in Topics |-> [i \in ClientIds |-> NoChan]]
  /\ home = <<>> /\ owner = <<>> /\ unused = Chans
  /\ chan = [c \in Chans |-> <<>>] /\ shut = [c \in Chans |-> FALSE]
  /\ serve = [c \in Chans |-> "none"]
  /\ taken = [c \in Chans |-> <<>>] /\ streamed = [c \in Chans |-> <<>>]
  /\ published = 0

\* A channel that was there under the same id and topic is forgotten, open.
Subscribe(i, t) ==
  /\ unused # {}
  /\ LET c == CHOOSE d \in unused : TRUE IN
       /\ unused' = unused \ {c}
       /\ clients' = [clients EXCEPT ![t][i] = c]
       /\ home' = [d \in Chans \ unused' |-> IF d = c THEN t ELSE home[d]]
       /\ owner' = [d \in Chans \ unused' |-> IF d = c THEN i ELSE owner[d]]
       /\ serve' = [serve EXCEPT ![c] = "serving"]
  /\ UNCHANGED <<chan, shut, streamed, taken, published>>

\* Variant for mutation: the closed channel stays subscribed.
UnsubscribeKeeps(i, t) ==
  /\ clients[t][i] # NoChan
  /\ shut' = [shut EXCEPT ![clients[t][i]] = TRUE]
  /\ UNCHANGED <<clients, home, owner, unused, chan, svars, taken, published>>

Unsubscribe(i, t) ==
  /\ clients[t][i] # NoChan
  /\ shut' = [shut EXCEPT ![clients[t][i]] = TRUE]
  /\ clients' = [clients EXCEPT ![t][i] = NoChan]
  /\ UNCHANGED <<home, owner, unused, chan, svars, taken, published>>

\* The channels that take an event: the others are too slow and lose it.
Takes(t) ==
  {c \in {clients[t][i] : i \in ClientIds} \ {NoChan} : Len(chan[c]) < Cap}

Publish(t) ==
  LET takes == Takes(t) IN
  /\ published < MaxPublished
  /\ published' = published + 1
  /\ chan' = [c \in Chans |-> IF c \in takes THEN Append(chan[c], published') ELSE chan[c]]
  /\ taken' = [c \in Chans |-> IF c \in takes THEN Append(taken[c], published') ELSE taken[c]]
  /\ UNCHANGED <<clients, home, owner, unused, shut, svars>>

\* Variant for mutation: a closed channel ends the stream at once.
ServeEventOpenOnly(c) ==
  /\ serve[c] = "serving" /\ chan[c] # <<>> /\ ~ shut[c]
  /\ chan' = [chan EXCEPT ![c] = Tail(@)]
  /\ streamed' = [streamed EXCEPT ![c] = Append(@, Head(chan[c]))]
  /\ UNCHANGED <<clients, home, owner, unused, shut, serve, taken, published>>

\* ServeSSE takes an event and writes it; what is left in a channel that was
\* closed is written too.
ServeEvent(c) ==
  /\ serve[c] = "serving" /\ chan[c] # <<>>
  /\ chan' = [chan EXCEPT ![c] = Tail(@)]
  /\ streamed' = [streamed EXCEPT ![c] = Append(@, Head(chan[c]))]
  /\ UNCHANGED <<clients, home, owner, unused, shut, serve, taken, published>>

\* Variant for mutation: ServeSSE does not empty the channel first.
ServeDoneAtOnce(c) ==
  /\ serve[c] = "serving" /\ shut[c]
  /\ serve' = [serve EXCEPT ![c] = "done"]
  /\ UNCHANGED <<clients, home, owner, unused, chan, shut, streamed, taken, published>>

\* The channel is closed and empty: "event: done", and ServeSSE returns.
ServeDone(c) ==
  /\ serve[c] = "serving" /\ chan[c] = <<>> /\ shut[c]
  /\ serve' = [serve EXCEPT ![c] = "done"]
  /\ UNCHANGED <<clients, home, owner, unused, chan, shut, streamed, taken, published>>

\* The context ended, or an event could not be written.
ServeCancelled(c) ==
  /\ serve[c] = "serving"
  /\ serve' = [serve EXCEPT ![c] = "cancelled"]
  /\ UNCHANGED <<clients, home, owner, unused, chan, shut, streamed, taken, published>>

ServeSSE(c) == ServeEvent(c) \/ ServeDone(c)

SseNext ==
  \/ \E i \in ClientIds, t \in Topics : Subscribe(i, t) \/ Unsubscribe(i, t)
  \/ \E t \in Topics : Publish(t)
  \/ \E c \in Chans : ServeSSE(c) \/ ServeCancelled(c)

SseSpec == SseInit /\ [][SseNext]_ssevars

\* The ServeSSE loops run; nobody has to subscribe, publish or cancel.
SseFairness == \A c \in Chans : WF_ssevars(ServeSSE(c))

-----------------------------------------------------------------------------
(* Properties                                                              *)

\* What is subscribed is open and in the right place: Publish never sends on a
\* closed channel and Unsubscribe never closes one twice (either panics).
SubscribedOpen ==
  \A t \in Topics, i \in ClientIds :
    LET c == clients[t][i] IN c # NoChan =>
      ~ shut[c] /\ home[c] = t /\ owner[c] = i

\* Every stream is what was put into its channel, in that order; one that
\* completed has all of it, what was in the channel when it closed included.
StreamComplete ==
  \A c \in Chans :
    /\ serve[c] \in {"none", "serving"} => taken[c] = streamed[c] \o chan[c]
    /\ serve[c] = "done" => streamed[c] = taken[c]

\* A stream whose channel was closed ends.
ClosedEnds == \A c \in Chans : shut[c] ~> serve[c] \in {"done", "cancelled"}
=============================================================================
