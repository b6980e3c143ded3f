----------------------------- MODULE HubProofs -----------------------------
(***************************************************************************)
(* Proofs about SseHub and WsHub, for any number of clients, topics,       *)
(* channels, connections, users and messages, and channels of any size.    *)
(*                                                                         *)
(* SseHub: a channel is made once (Made), so it is subscribed in one place *)
(* at most and never again after it was closed; its stream is what was put *)
(* into it and not lost (StreamComplete), since nothing is put into a      *)
(* closed one.                                                             *)
(*                                                                         *)
(* WsHub: only a handler that returns asks for its connection to be        *)
(* unregistered, and it returns once, so a connection is in the hub's      *)
(* channel once at most and never after it was closed (AskedOnce).         *)
(***************************************************************************)
EXTENDS WsHub, SseHub, SequenceTheorems, TLAPS

-----------------------------------------------------------------------------
(* Sequences                                                               *)

LEMMA AppendLast ==
  ASSUME NEW S, NEW s \in Seq(S), NEW t \in Seq(S), NEW e \in S
  PROVE  s \o Append(t, e) = Append(s \o t, e)
<1>1. <<e>> \in Seq(S) /\ s \o t \in Seq(S)
  BY ConcatProperties
<1>2. Append(t, e) = t \o <<e>>
  BY AppendIsConcat
<1>3. Append(s \o t, e) = (s \o t) \o <<e>>
  BY <1>1, AppendIsConcat
<1>4. (s \o t) \o <<e>> = s \o (t \o <<e>>)
  BY <1>1, ConcatAssociative
<1> QED
  BY <1>2, <1>3, <1>4

LEMMA MoveHead ==
  ASSUME NEW S, NEW s \in Seq(S), NEW t \in Seq(S), t # <<>>
  PROVE  Append(s, Head(t)) \o Tail(t) = s \o t
<1> DEFINE h == <<Head(t)>>
<1>1. Head(t) \in S /\ Tail(t) \in Seq(S) /\ h \in Seq(S)
  BY HeadTailProperties
<1>2. Append(s, Head(t)) = s \o h
  BY <1>1, AppendIsConcat
<1>3. h \o Tail(t) = t
  BY <1>1
<1>4. (s \o h) \o Tail(t) = s \o (h \o Tail(t))
  BY <1>1, ConcatAssociative
<1> QED
  BY <1>2, <1>3, <1>4

-----------------------------------------------------------------------------
(* The SSE hub                                                             *)

\* What is subscribed was made; what was not made is open and not served.
Made ==
  /\ \A t \in Topics, i \in ClientIds : clients[t][i] \notin unused
  /\ \A c \in unused : ~ shut[c] /\ serve[c] = "none"
  /\ \A c \in Chans : serve[c] = "done" => shut[c]

SseInv == SseTypeOK /\ Made /\ SubscribedOpen /\ StreamComplete

LEMMA SseInvInit == SseInit => SseInv
BY ChanAssumption DEF SseInit, SseInv, SseTypeOK, Made, SubscribedOpen, StreamComplete

LEMMA SubscribeStep ==
  ASSUME SseInv, NEW i \in ClientIds, NEW t \in Topics, Subscribe(i, t)
  PROVE  SseInv'
<1>1. PICK c \in unused :
        /\ unused' = unused \ {c}
        /\ clients' = [clients EXCEPT ![t][i] = c]
        /\ home' = [d \in Chans \ unused' |-> IF d = c THEN t ELSE home[d]]
        /\ owner' = [d \in Chans \ unused' |-> IF d = c THEN i ELSE owner[d]]
        /\ serve' = [serve EXCEPT ![c] = "serving"]
  BY DEF Subscribe
<1>2. UNCHANGED <<chan, shut, streamed, taken, published>>
  BY DEF Subscribe
<1> USE <1>1, <1>2, ChanAssumption DEF SseInv, SseTypeOK
<1>3. SseTypeOK'
  OBVIOUS
<1>4. \A s \in Topics, j \in ClientIds :
        clients'[s][j] = IF s = t /\ j = i THEN c ELSE clients[s][j]
  OBVIOUS
<1>5. Made'
  BY <1>4 DEF Made
<1>6. SubscribedOpen'
  BY <1>4 DEF Made, SubscribedOpen
<1>7. StreamComplete'
  BY DEF Made, StreamComplete
<1> QED
  BY <1>3, <1>5, <1>6, <1>7

LEMMA UnsubscribeStep ==
  ASSUME SseInv, NEW i \in ClientIds, NEW t \in Topics, Unsubscribe(i, t)
  PROVE  SseInv'
<1> USE ChanAssumption DEF SseInv, SseTypeOK, Unsubscribe, svars
<1>1. SseTypeOK'
  OBVIOUS
<1>2. \A s \in Topics, j \in ClientIds :
        clients'[s][j] = IF s = t /\ j = i THEN NoChan ELSE clients[s][j]
  OBVIOUS
<1>3. \A c \in Chans : shut'[c] <=> (shut[c] \/ c = clients[t][i])
  OBVIOUS
<1>4. Made'
  BY <1>2, <1>3 DEF Made
<1>5. SubscribedOpen'
  BY <1>2, <1>3 DEF SubscribedOpen
<1>6. StreamComplete'
  BY DEF StreamComplete
<1> QED
  BY <1>1, <1>4, <1>5, <1>6

\* The types of what a channel holds, took and gave.
LEMMA ChannelTypes ==
  ASSUME SseInv, NEW c \in Chans
  PROVE  /\ chan[c] \in Seq(1..MaxPublished) /\ Len(chan[c]) <= Cap
         /\ taken[c] \in Seq(1..MaxPublished) /\ streamed[c] \in Seq(1..MaxPublished)
BY DEF SseInv, SseTypeOK

\* An event goes to open channels only, at their end.
LEMMA PublishStep ==
  ASSUME SseInv, NEW t \in Topics, Publish(t)
  PROVE  SseInv'
<1> DEFINE S == 1..MaxPublished
           e == published'
<1>1. /\ published' = published + 1 /\ published' \in S
      /\ UNCHANGED <<clients, home, owner, unused, shut, serve, streamed>>
  BY ChanAssumption DEF Publish, SseInv, SseTypeOK, svars
<1>2. \A c \in Chans :
        IF c \in Takes(t)
          THEN chan'[c] = Append(chan[c], e) /\ taken'[c] = Append(taken[c], e)
          ELSE chan'[c] = chan[c] /\ taken'[c] = taken[c]
  BY DEF Publish
<1>3. \A c \in Takes(t) : c \in Chans /\ ~ shut[c] /\ Len(chan[c]) < Cap
  BY DEF Takes, SseInv, SseTypeOK, SubscribedOpen
<1> HIDE DEF S, e
<1>4. ASSUME NEW c \in Chans
      PROVE  /\ chan'[c] \in Seq(S) /\ Len(chan'[c]) <= Cap /\ taken'[c] \in Seq(S)
             /\ taken[c] = streamed[c] \o chan[c] => taken'[c] = streamed[c] \o chan'[c]
  <2>1. /\ chan[c] \in Seq(S) /\ Len(chan[c]) <= Cap
        /\ taken[c] \in Seq(S) /\ streamed[c] \in Seq(S) /\ e \in S
    BY <1>1, ChannelTypes DEF S, e
  <2>2. CASE c \in Takes(t)
    <3>1. chan'[c] = Append(chan[c], e) /\ taken'[c] = Append(taken[c], e)
      BY <1>2, <2>2
    <3>2. /\ Append(chan[c], e) \in Seq(S) /\ Append(taken[c], e) \in Seq(S)
          /\ Len(Append(chan[c], e)) = Len(chan[c]) + 1
      BY <2>1, AppendProperties
    <3>3. streamed[c] \o Append(chan[c], e) = Append(streamed[c] \o chan[c], e)
      <4> DEFINE P(s, u, x) == s \o Append(u, x) = Append(s \o u, x)
      <4>1. \A s \in Seq(S), u \in Seq(S), x \in S : P(s, u, x)
        BY AppendLast
      <4> HIDE DEF P
      <4>2. P(streamed[c], chan[c], e)
        BY <2>1, <4>1
      <4> QED
        BY <4>2 DEF P
    <3>4. Len(chan[c]) \in Nat /\ Len(chan[c]) < Cap /\ Cap \in Nat
      BY <1>3, <2>1, <2>2, ChanAssumption
    <3>5. Len(chan'[c]) <= Cap
      BY <3>1, <3>2, <3>4
    <3>6. ASSUME taken[c] = streamed[c] \o chan[c]
          PROVE  taken'[c] = streamed[c] \o chan'[c]
      BY <3>1, <3>3, <3>6, Zenon
    <3> QED
      BY <3>1, <3>2, <3>5, <3>6, Zenon
  <2>3. CASE c \notin Takes(t)
    BY <1>2, <2>1, <2>3
  <2> QED
    BY <2>2, <2>3
<1>5. SseTypeOK'
  <2>1. chan' \in [Chans -> Seq(S)] /\ taken' \in [Chans -> Seq(S)]
    BY <1>4 DEF Publish
  <2>2. \A c \in Chans : Len(chan'[c]) <= Cap
    BY <1>4
  <2> QED
    BY <1>1, <2>1, <2>2 DEF SseInv, SseTypeOK, S
<1>6. Made' /\ SubscribedOpen'
  BY <1>1 DEF SseInv, Made, SubscribedOpen
<1>7. StreamComplete'
  <2> SUFFICES ASSUME NEW c \in Chans
               PROVE  /\ serve[c] \in {"none", "serving"} => taken'[c] = streamed[c] \o chan'[c]
                      /\ serve[c] = "done" => streamed[c] = taken'[c]
    BY <1>1 DEF StreamComplete
  <2>1. serve[c] = "done" => c \notin Takes(t)
    BY <1>3 DEF SseInv, Made
  <2> QED
    BY <1>2, <1>4, <2>1 DEF SseInv, StreamComplete
<1> QED
  BY <1>5, <1>6, <1>7 DEF SseInv

\* What leaves the channel goes to the stream.
LEMMA ServeEventStep ==
  ASSUME SseInv, NEW c \in Chans, ServeEvent(c)
  PROVE  SseInv'
<1> DEFINE S == 1..MaxPublished
<1>1. /\ chan[c] \in Seq(S) /\ Len(chan[c]) <= Cap /\ streamed[c] \in Seq(S)
      /\ chan[c] # <<>> /\ serve[c] = "serving"
  BY ChannelTypes DEF ServeEvent
<1>2. /\ \A d \in Chans : d # c => chan'[d] = chan[d] /\ streamed'[d] = streamed[d]
      /\ chan'[c] = Tail(chan[c]) /\ streamed'[c] = Append(streamed[c], Head(chan[c]))
      /\ DOMAIN chan' = DOMAIN chan /\ DOMAIN streamed' = DOMAIN streamed
  BY DEF SseInv, SseTypeOK, ServeEvent
<1>3. UNCHANGED <<clients, home, owner, unused, shut, serve, taken, published>>
  BY DEF ServeEvent
<1> HIDE DEF S
<1>4. Tail(chan[c]) \in Seq(S) /\ Len(Tail(chan[c])) <= Cap
      /\ Append(streamed[c], Head(chan[c])) \in Seq(S)
  <2>1. Head(chan[c]) \in S /\ Tail(chan[c]) \in Seq(S) /\ Len(Tail(chan[c])) = Len(chan[c]) - 1
    BY <1>1, HeadTailProperties
  <2>2. Len(chan[c]) \in Nat /\ Cap \in Nat
    BY <1>1, ChanAssumption
  <2> QED
    BY <1>1, <2>1, <2>2, AppendProperties
<1>5. Append(streamed[c], Head(chan[c])) \o Tail(chan[c]) = streamed[c] \o chan[c]
  BY <1>1, MoveHead
<1>6. SseTypeOK'
  <2>1. chan' \in [Chans -> Seq(S)] /\ streamed' \in [Chans -> Seq(S)]
    BY <1>4 DEF SseInv, SseTypeOK, ServeEvent, S
  <2>2. \A d \in Chans : Len(chan'[d]) <= Cap
    BY <1>2, <1>4 DEF SseInv, SseTypeOK
  <2> QED
    BY <1>3, <2>1, <2>2 DEF SseInv, SseTypeOK, S
<1>7. Made' /\ SubscribedOpen'
  BY <1>3 DEF SseInv, Made, SubscribedOpen
<1>8. StreamComplete'
  <2> SUFFICES ASSUME NEW d \in Chans
               PROVE  /\ serve[d] \in {"none", "serving"} => taken[d] = streamed'[d] \o chan'[d]
                      /\ serve[d] = "done" => streamed'[d] = taken[d]
    BY <1>3 DEF StreamComplete
  <2>1. CASE d = c
    BY <1>1, <1>2, <1>5, <2>1 DEF SseInv, StreamComplete
  <2>2. CASE d # c
    BY <1>2, <2>2 DEF SseInv, StreamComplete
  <2> QED
    BY <2>1, <2>2
<1> QED
  BY <1>6, <1>7, <1>8 DEF SseInv

LEMMA SseInvStep == SseInv /\ [SseNext]_ssevars => SseInv'
<1> SUFFICES ASSUME SseInv, [SseNext]_ssevars PROVE SseInv'
  OBVIOUS
<1>1. ASSUME NEW c \in Chans, ServeDone(c)
      PROVE  SseInv'
  <2> USE <1>1 DEF ServeDone, SseInv, SseTypeOK
  <2>1. SseTypeOK' /\ Made' /\ SubscribedOpen'
    BY DEF Made, SubscribedOpen
  <2>2. streamed[c] \o <<>> = streamed[c]
    BY ConcatEmptySeq
  <2>3. StreamComplete'
    BY <2>2 DEF StreamComplete
  <2> QED
    BY <2>1, <2>3
<1>2. ASSUME NEW c \in Chans, ServeCancelled(c)
      PROVE  SseInv'
  <2> USE <1>2 DEF ServeCancelled, SseInv, SseTypeOK
  <2>1. SseTypeOK'
    OBVIOUS
  <2>2. Made' /\ SubscribedOpen'
    BY DEF Made, SubscribedOpen
  <2>3. StreamComplete'
    BY DEF StreamComplete
  <2> QED
    BY <2>1, <2>2, <2>3
<1>3. CASE UNCHANGED ssevars
  <2> USE <1>3 DEF ssevars, svars, SseInv
  <2>1. SseTypeOK'
    BY DEF SseTypeOK
  <2>2. Made' /\ SubscribedOpen' /\ StreamComplete'
    BY DEF Made, SubscribedOpen, StreamComplete
  <2> QED
    BY <2>1, <2>2
<1> QED
  BY <1>1, <1>2, <1>3, SubscribeStep, UnsubscribeStep, PublishStep, ServeEventStep
     DEF SseNext, ServeSSE

-----------------------------------------------------------------------------
LEMMA SseInvariant == SseSpec => []SseInv
BY SseInvInit, SseInvStep, PTL DEF SseSpec

\* No event is sent to a closed channel and none is closed twice: a channel in
\* the hub's map is open, under the topic and the id it was made for
\* (streaming.go: Publish, Unsubscribe).
THEOREM SubscribedOpenCorrect == SseSpec => []SubscribedOpen
BY SseInvariant, PTL DEF SseInv

\* A stream has what was put into its channel, in that order, and all of it when
\* it completes (streaming.go: Publish, ServeSSE).
THEOREM StreamCompleteCorrect == SseSpec => []StreamComplete
BY SseInvariant, PTL DEF SseInv

-----------------------------------------------------------------------------
(* The WebSocket hub                                                       *)

\* What the channels of all connections hold, took and gave are functions.
Channels ==
  /\ send \in [Conns -> Seq(1..MaxOffered)]
  /\ sent \in [Conns -> Seq(1..MaxOffered)] /\ wrote \in [Conns -> Seq(1..MaxOffered)]

\* What was put into a channel is what was written and a rest, which is what
\* is in the channel until writePump gives up.
Prefixed ==
  \A c \in Conns :
    /\ \E rest \in Seq(1..MaxOffered) : sent[c] = wrote[c] \o rest
    /\ writer[c] # "done" => sent[c] = wrote[c] \o send[c]

\* A connection is in the hub's unregister channel once at most, after its
\* handler returned and before the hub closed its channel.
AskedOnce ==
  /\ \A c \in Conns : closed[c] => reader[c] = "gone"
  /\ \A k \in 1..Len(unregister) :
       reader[unregister[k]] = "gone" /\ ~ closed[unregister[k]]
  /\ \A j, k \in 1..Len(unregister) : unregister[j] = unregister[k] => j = k

\* writePump is not running before the connection was handed to the hub.
Started == \A c \in Conns : reader[c] \in {"none", "registering"} => writer[c] = "none"

WsInv == TypeOK /\ Channels /\ Prefixed /\ AskedOnce /\ Started

LEMMA PrefixOfConcat ==
  ASSUME NEW S, NEW s \in Seq(S), NEW u \in Seq(S)
  PROVE  IsPrefix(s, s \o u)
<1>1. /\ s \o u \in Seq(S) /\ Len(s \o u) = Len(s) + Len(u)
      /\ \A i \in 1..Len(s) : (s \o u)[i] = s[i]
  BY ConcatProperties
<1>2. Len(s) \in Nat /\ Len(u) \in Nat
  OBVIOUS
<1>3. SubSeq(s, 1, Len(s)) = SubSeq(s \o u, 1, Len(s))
  BY <1>1, <1>2
<1> QED
  BY <1>1, <1>2, <1>3 DEF IsPrefix

LEMMA WsInvInit == Init => WsInv
<1> SUFFICES ASSUME Init PROVE WsInv
  OBVIOUS
<1> USE CapsAssumption, ConnsAssumption DEF Init
<1>1. TypeOK /\ Channels
  BY DEF TypeOK, Channels
<1>2. <<>> \in Seq(1..MaxOffered) /\ <<>> \o <<>> = <<>>
  BY ConcatEmptySeq
<1>3. Prefixed
  BY <1>2 DEF Prefixed
<1>4. AskedOnce
  BY DEF AskedOnce
<1> QED
  BY <1>1, <1>3, <1>4 DEF WsInv, Started

\* A step that leaves the channels of the connections and what was closed alone.
LEMMA HandlerSteps ==
  ASSUME WsInv, NEW c \in Conns,
         Accept(c) \/ Register(c) \/ ReadMessage(c) \/ Broadcast(c) \/ ReadFails(c)
  PROVE  WsInv'
<1>1. /\ UNCHANGED <<send, closed, unregister, sent, wrote, offered, panics, conns, userConns>>
      /\ reader[c] # "gone"
      /\ \A d \in Conns : reader[d] = "gone" => reader'[d] = "gone"
      /\ \A d \in Conns : closed[d] => d # c
      /\ \A d \in Conns : writer'[d] # "done" => writer[d] # "done"
      /\ Started'
  <2> USE DEF WsInv, TypeOK, AskedOnce, Started, ReaderTo, hvars, mvars
  <2>1. CASE Accept(c)
    BY <2>1 DEF Accept
  <2>2. CASE Register(c)
    <3>1. writer' = [writer EXCEPT ![c] = "writing"] /\ reader[c] = "registering"
      BY <2>2 DEF Register
    <3>2. ~ closed[c] /\ writer[c] = "none"
      BY <3>1
    <3> QED
      BY <2>2, <3>1, <3>2 DEF Register
  <2>3. CASE ReadMessage(c) \/ ReadFails(c)
    BY <2>3 DEF ReadMessage, ReadFails
  <2>4. CASE Broadcast(c)
    BY <2>4 DEF Broadcast
  <2> QED
    BY <2>1, <2>2, <2>3, <2>4
<1>2. TypeOK'
  <2> USE CapsAssumption DEF WsInv, TypeOK, ReaderTo, hvars, mvars
  <2>1. CASE Accept(c)
    BY <2>1 DEF Accept
  <2>2. CASE Register(c)
    BY <2>2 DEF Register
  <2>3. CASE ReadMessage(c) \/ ReadFails(c)
    BY <2>3 DEF ReadMessage, ReadFails
  <2>4. CASE Broadcast(c)
    BY <2>4 DEF Broadcast
  <2> QED
    BY <2>1, <2>2, <2>3, <2>4
<1>3. Channels' /\ Prefixed'
  BY <1>1 DEF WsInv, Channels, Prefixed
<1>4. AskedOnce'
  <2>1. \A k \in 1..Len(unregister) : unregister[k] \in Conns
    BY DEF WsInv, TypeOK
  <2> QED
    BY <1>1, <2>1 DEF WsInv, AskedOnce
<1> QED
  BY <1>1, <1>2, <1>3, <1>4 DEF WsInv

LEMMA UnregisterStep ==
  ASSUME WsInv, NEW c \in Conns, Unregister(c)
  PROVE  WsInv'
<1>1. /\ unregister \in Seq(Conns) /\ unregister' = Append(unregister, c)
      /\ reader[c] = "leaving" /\ reader' = [reader EXCEPT ![c] = "gone"]
      /\ UNCHANGED <<writer, send, closed, sent, wrote>>
  BY DEF WsInv, TypeOK, Unregister, ReaderTo, mvars
<1>2. TypeOK' /\ Started'
  BY CapsAssumption DEF WsInv, TypeOK, Unregister, ReaderTo, Shut, mvars, Started
<1>3. Channels' /\ Prefixed'
  BY <1>1 DEF WsInv, Channels, Prefixed
<1>4. AskedOnce'
  <2>1. /\ Len(unregister') = Len(unregister) + 1 /\ Len(unregister) \in Nat
        /\ \A k \in 1..Len(unregister) : unregister'[k] = unregister[k] /\ unregister[k] \in Conns
        /\ unregister'[Len(unregister) + 1] = c
    BY <1>1
  <2>2. \A k \in 1..Len(unregister) : unregister[k] # c
    BY <1>1 DEF WsInv, AskedOnce
  <2>3. \A d \in Conns : reader'[d] = IF d = c THEN "gone" ELSE reader[d]
    BY <1>1 DEF WsInv, TypeOK
  <2>4. ~ closed[c]
    BY <1>1 DEF WsInv, AskedOnce
  <2> QED
    BY <1>1, <2>1, <2>2, <2>3, <2>4 DEF WsInv, AskedOnce
<1> QED
  BY <1>2, <1>3, <1>4 DEF WsInv

\* A step of writePump, which reads its channel and nothing of the hub's.
LEMMA WritePumpStep ==
  ASSUME WsInv, NEW c \in Conns, WritePump(c)
  PROVE  WsInv'
<1> DEFINE S == 1..MaxOffered
<1>1. UNCHANGED <<reader, closed, hvars, offered, sent, panics>>
  BY DEF WritePump, Write, WriteFails, WriterEnds, cvars, mvars
<1>2. AskedOnce' /\ Started'
  <2>1. \A d \in Conns : writer'[d] = "none" <=> writer[d] = "none"
    BY DEF WsInv, TypeOK, WritePump, Write, WriteFails, WriterEnds, cvars
  <2> QED
    BY <1>1, <2>1 DEF WsInv, AskedOnce, hvars, Started
<1>3. /\ send[c] \in Seq(S) /\ wrote[c] \in Seq(S) /\ sent[c] \in Seq(S)
      /\ Len(send[c]) <= SendCap /\ writer[c] = "writing"
      /\ sent[c] = wrote[c] \o send[c]
  BY DEF WsInv, TypeOK, Prefixed, WritePump, Write, WriteFails, WriterEnds
<1> HIDE DEF S
<1>4. send[c] # <<>> => /\ Head(send[c]) \in S /\ Tail(send[c]) \in Seq(S)
                        /\ Len(Tail(send[c])) <= SendCap
                        /\ Append(wrote[c], Head(send[c])) \in Seq(S)
  <2> SUFFICES ASSUME send[c] # <<>>
               PROVE  /\ Head(send[c]) \in S /\ Tail(send[c]) \in Seq(S)
                      /\ Len(Tail(send[c])) <= SendCap
                      /\ Append(wrote[c], Head(send[c])) \in Seq(S)
    OBVIOUS
  <2>1. Head(send[c]) \in S /\ Tail(send[c]) \in Seq(S) /\ Len(Tail(send[c])) = Len(send[c]) - 1
    BY <1>3, HeadTailProperties
  <2>2. Len(send[c]) \in Nat
    BY <1>3
  <2> QED
    BY <1>3, <2>1, <2>2, CapsAssumption, AppendProperties
<1>5. CASE Write(c)
  <2>1. /\ send[c] # <<>> /\ writer' = writer /\ open' = open
        /\ send' = [send EXCEPT ![c] = Tail(send[c])]
        /\ wrote' = [wrote EXCEPT ![c] = Append(wrote[c], Head(send[c]))]
    BY <1>5 DEF Write, cvars
  <2>2. Channels'
    BY <1>1, <1>4, <2>1 DEF WsInv, Channels, S
  <2>3. \A d \in Conns : Len(send'[d]) <= SendCap
    BY <1>4, <2>1 DEF WsInv, TypeOK, Channels
  <2>4. TypeOK'
    BY <1>1, <2>1, <2>2, <2>3 DEF WsInv, TypeOK, Channels, hvars
  <2>5. Append(wrote[c], Head(send[c])) \o Tail(send[c]) = wrote[c] \o send[c]
    BY <1>3, <2>1, MoveHead
  <2>6. /\ send'[c] = Tail(send[c]) /\ wrote'[c] = Append(wrote[c], Head(send[c]))
        /\ \A d \in Conns : d # c => send'[d] = send[d] /\ wrote'[d] = wrote[d]
    BY <2>1 DEF WsInv, Channels
  <2>7. Tail(send[c]) \in Seq(S)
    BY <1>4, <2>1
  <2>8. Prefixed'
    <3> SUFFICES ASSUME NEW d \in Conns
                 PROVE  /\ \E rest \in Seq(S) : sent[d] = wrote'[d] \o rest
                        /\ writer[d] # "done" => sent[d] = wrote'[d] \o send'[d]
      BY <1>1, <2>1 DEF Prefixed, S
    <3>1. CASE d = c
      BY <1>3, <2>5, <2>6, <2>7, <3>1
    <3>2. CASE d # c
      BY <2>6, <3>2 DEF WsInv, Prefixed, S
    <3> QED
      BY <3>1, <3>2
  <2> QED
    BY <1>2, <2>2, <2>4, <2>8 DEF WsInv
<1>6. CASE WriteFails(c) \/ WriterEnds(c)
  <2>1. /\ writer' = [writer EXCEPT ![c] = "done"] /\ Shut(c) /\ wrote' = wrote
        /\ \/ send[c] # <<>> /\ send' = [send EXCEPT ![c] = Tail(send[c])]
           \/ send' = send
    BY <1>6 DEF WriteFails, WriterEnds, mvars
  <2>2. Channels'
    BY <1>1, <1>4, <2>1 DEF WsInv, Channels, S
  <2>3. \A d \in Conns : Len(send'[d]) <= SendCap
    BY <1>4, <2>1 DEF WsInv, TypeOK, Channels
  <2>4. TypeOK'
    BY <1>1, <2>1, <2>2, <2>3 DEF WsInv, TypeOK, Channels, hvars, Shut
  <2>5. /\ writer'[c] = "done" 
        /\ \A d \in Conns : d # c => send'[d] = send[d] /\ writer'[d] = writer[d]
    BY <2>1 DEF WsInv, TypeOK, Channels
  <2>6. Prefixed'
    BY <1>1, <2>1, <2>5 DEF WsInv, Prefixed
  <2> QED
    BY <1>2, <2>2, <2>4, <2>6 DEF WsInv
<1> QED
  BY <1>5, <1>6 DEF WritePump

\* What the hub does: it closes the channels it is asked to.
LEMMA HubStep ==
  ASSUME WsInv, Hub
  PROVE  WsInv'
<1>1. UNCHANGED <<cvars, send, mvars>>
  BY DEF Hub, HubRegister, HubUnregister, HubBroadcast
<1>2. Channels' /\ Prefixed' /\ Started'
  BY <1>1 DEF WsInv, Channels, Prefixed, Started, cvars, mvars
<1>3. CASE HubRegister
  <2>1. Head(register) \in Conns /\ Tail(register) \in Seq(Conns) /\ Len(Tail(register)) <= HubCap
    BY <1>3, HeadTailProperties, CapsAssumption DEF HubRegister, WsInv, TypeOK
  <2>2. UserOf[Head(register)] \in Users
    BY <2>1, ConnsAssumption
  <2>3. Append(userConns[UserOf[Head(register)]], Head(register)) \in Seq(Conns)
    BY <2>1, <2>2 DEF WsInv, TypeOK
  <2>4. TypeOK'
    BY <1>1, <1>3, <2>1, <2>3 DEF HubRegister, WsInv, TypeOK, cvars, mvars
  <2>5. AskedOnce'
    BY <1>1, <1>3 DEF HubRegister, WsInv, AskedOnce, cvars
  <2> QED
    BY <1>2, <2>4, <2>5 DEF WsInv
<1>4. CASE HubUnregister
  <2> DEFINE c == Head(unregister)
  <2>1. /\ unregister # <<>> /\ unregister \in Seq(Conns)
        /\ unregister' = Tail(unregister) /\ closed' = [closed EXCEPT ![c] = TRUE]
        /\ conns' = conns \ {c} /\ UNCHANGED <<register, broadcast, userConns>>
    BY <1>4 DEF HubUnregister, WsInv, TypeOK
  <2>2. /\ c \in Conns /\ c = unregister[1] /\ 1 \in 1..Len(unregister)
        /\ Tail(unregister) \in Seq(Conns) /\ Len(Tail(unregister)) = Len(unregister) - 1
        /\ Len(unregister) \in Nat
        /\ \A k \in 1..Len(Tail(unregister)) :
             k + 1 \in 1..Len(unregister) /\ k + 1 # 1 /\ Tail(unregister)[k] = unregister[k + 1]
    BY <2>1, HeadTailProperties
  <2> HIDE DEF c
  <2>3. TypeOK'
    BY <1>1, <2>1, <2>2, CapsAssumption DEF WsInv, TypeOK, cvars, mvars
  <2>4. \A k \in 1..Len(unregister') : unregister'[k] # c
    BY <2>1, <2>2 DEF WsInv, AskedOnce
  <2>5. \A d \in Conns : closed'[d] <=> (closed[d] \/ d = c)
    BY <2>1, <2>2 DEF WsInv, TypeOK
  <2>6. reader' = reader /\ reader[c] = "gone"
    BY <1>1, <2>2 DEF WsInv, AskedOnce, cvars
  <2>7. \A k \in 1..Len(unregister') :
          unregister'[k] \in Conns /\ reader[unregister'[k]] = "gone" /\ ~ closed[unregister'[k]]
    BY <2>1, <2>2 DEF WsInv, AskedOnce
  <2>8. \A j, k \in 1..Len(unregister') : unregister'[j] = unregister'[k] => j = k
    BY <2>1, <2>2 DEF WsInv, AskedOnce
  <2>9. AskedOnce'
    BY <2>4, <2>5, <2>6, <2>7, <2>8 DEF WsInv, AskedOnce
  <2> QED
    BY <1>2, <2>3, <2>9 DEF WsInv
<1>5. CASE HubBroadcast
  <2>1. TypeOK'
    BY <1>1, <1>5, CapsAssumption DEF HubBroadcast, WsInv, TypeOK, cvars, mvars
  <2>2. AskedOnce'
    BY <1>1, <1>5 DEF HubBroadcast, WsInv, AskedOnce, cvars
  <2> QED
    BY <1>2, <2>1, <2>2 DEF WsInv
<1> QED
  BY <1>3, <1>4, <1>5 DEF Hub

\* A message goes to the end of the channels that have room.
LEMMA SendToUserStep ==
  ASSUME WsInv, NEW u \in Users, SendToUser(u)
  PROVE  WsInv'
<1> DEFINE S == 1..MaxOffered
           e == offered'
           takes == Offers(u)
<1>1. /\ offered' \in S /\ offered' \in 0..MaxOffered /\ panics' \in Nat
      /\ UNCHANGED <<cvars, closed, hvars, wrote>>
  BY CapsAssumption DEF SendToUser, WsInv, TypeOK
<1>2. /\ send' = [c \in Conns |-> IF c \in takes THEN Append(send[c], e) ELSE send[c]]
      /\ sent' = [c \in Conns |-> IF c \in takes THEN Append(sent[c], e) ELSE sent[c]]
  BY DEF SendToUser
<1>3. \A c \in takes : Len(send[c]) < SendCap
  BY DEF Offers
<1> HIDE DEF S, e, takes
<1>4. ASSUME NEW c \in Conns
      PROVE  /\ send'[c] \in Seq(S) /\ Len(send'[c]) <= SendCap /\ sent'[c] \in Seq(S)
             /\ \E rest \in Seq(S) : sent'[c] = wrote[c] \o rest
             /\ writer[c] # "done" => sent'[c] = wrote[c] \o send'[c]
  <2>1. /\ send[c] \in Seq(S) /\ Len(send[c]) <= SendCap
        /\ sent[c] \in Seq(S) /\ wrote[c] \in Seq(S) /\ e \in S
    BY <1>1 DEF WsInv, TypeOK, S, e
  <2>2. PICK rest \in Seq(S) : sent[c] = wrote[c] \o rest
    BY DEF WsInv, Prefixed, S
  <2>3. writer[c] # "done" => sent[c] = wrote[c] \o send[c]
    BY DEF WsInv, Prefixed
  <2>4. CASE c \in takes
    <3>1. send'[c] = Append(send[c], e) /\ sent'[c] = Append(sent[c], e)
      BY <1>2, <2>4
    <3>2. /\ Append(send[c], e) \in Seq(S) /\ Append(sent[c], e) \in Seq(S)
          /\ Append(rest, e) \in Seq(S)
          /\ Len(Append(send[c], e)) = Len(send[c]) + 1
      BY <2>1, AppendProperties
    <3> DEFINE P(s, t, x) == s \o Append(t, x) = Append(s \o t, x)
    <3>3. \A s \in Seq(S), t \in Seq(S), x \in S : P(s, t, x)
      BY AppendLast
    <3> HIDE DEF P
    <3>4. P(wrote[c], send[c], e) /\ P(wrote[c], rest, e)
      BY <2>1, <3>3
    <3>5. /\ wrote[c] \o Append(send[c], e) = Append(wrote[c] \o send[c], e)
          /\ wrote[c] \o Append(rest, e) = Append(wrote[c] \o rest, e)
      BY <3>4 DEF P
    <3>6. Len(send[c]) \in Nat /\ Len(send[c]) < SendCap /\ SendCap \in Nat
      BY <1>3, <2>1, <2>4, CapsAssumption
    <3>7. Len(send'[c]) <= SendCap
      BY <3>1, <3>2, <3>6
    <3>8. sent'[c] = wrote[c] \o Append(rest, e)
      BY <2>2, <3>1, <3>5, Zenon
    <3>9. writer[c] # "done" => sent'[c] = wrote[c] \o send'[c]
      BY <2>3, <3>1, <3>5, Zenon
    <3> QED
      BY <3>1, <3>2, <3>7, <3>8, <3>9, Zenon
  <2>5. CASE c \notin takes
    BY <1>2, <2>1, <2>2, <2>3, <2>5
  <2> QED
    BY <2>4, <2>5
<1>5. Channels'
  <2>1. send' \in [Conns -> Seq(S)] /\ sent' \in [Conns -> Seq(S)]
    BY <1>4 DEF SendToUser
  <2> QED
    BY <1>1, <2>1 DEF WsInv, Channels, S
<1>6. \A c \in Conns : Len(send'[c]) <= SendCap
  BY <1>4
<1>7. TypeOK'
  BY <1>1, <1>5, <1>6 DEF WsInv, TypeOK, Channels, cvars, hvars
<1>8. Prefixed'
  BY <1>1, <1>4 DEF Prefixed, cvars, S
<1>9. AskedOnce' /\ Started'
  BY <1>1 DEF WsInv, AskedOnce, Started, cvars, hvars
<1> QED
  BY <1>5, <1>7, <1>8, <1>9 DEF WsInv

LEMMA WsInvStep == WsInv /\ [Next]_vars => WsInv'
<1> SUFFICES ASSUME WsInv, [Next]_vars PROVE WsInv'
  OBVIOUS
<1>1. CASE UNCHANGED vars
  <2> USE <1>1 DEF vars, cvars, hvars, mvars, WsInv
  <2>1. TypeOK'
    BY DEF TypeOK
  <2>2. Channels' /\ Prefixed' /\ AskedOnce' /\ Started'
    BY DEF Channels, Prefixed, AskedOnce, Started
  <2> QED
    BY <2>1, <2>2
<1> QED
  BY <1>1, HandlerSteps, UnregisterStep, WritePumpStep, HubStep, SendToUserStep DEF Next

LEMMA WsInvariant == Spec => []WsInv
BY WsInvInit, WsInvStep, PTL DEF Spec

LEMMA WsInvImplies == WsInv => InOrder
<1> SUFFICES ASSUME WsInv, NEW c \in Conns PROVE IsPrefix(wrote[c], sent[c])
  BY DEF InOrder, WsInv, Prefixed
<1>1. PICK rest \in Seq(1..MaxOffered) : sent[c] = wrote[c] \o rest
  BY DEF WsInv, Prefixed
<1>2. wrote[c] \in Seq(1..MaxOffered)
  BY DEF WsInv, Channels
<1> QED
  BY <1>1, <1>2, PrefixOfConcat

\* The hub closes no channel twice (handler.go: Run, readPump).
LEMMA ClosesOpen == WsInv => (HubUnregister => ~ closed[Head(unregister)])
<1> SUFFICES ASSUME WsInv, HubUnregister PROVE ~ closed[Head(unregister)]
  OBVIOUS
<1>1. unregister # <<>> /\ unregister \in Seq(Conns)
  BY DEF HubUnregister, WsInv, TypeOK
<1>2. Head(unregister) = unregister[1] /\ 1 \in 1..Len(unregister)
  BY <1>1
<1> QED
  BY <1>2 DEF WsInv, AskedOnce

\* Every connection gets what was put into its channel, in that order, and
\* nothing twice (handler.go: SendToUser, writePump).
THEOREM InOrderCorrect == Spec => []InOrder
BY WsInvariant, WsInvImplies, PTL

\* close(c.send) runs at most once for a connection; a second one would panic
\* in the hub's goroutine and stop the process (handler.go: Run).
THEOREM ClosedOnceCorrect == Spec => ClosedOnce
BY WsInvariant, ClosesOpen, PTL DEF ClosedOnce, Spec
=============================================================================
