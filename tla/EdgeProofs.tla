----------------------------- MODULE EdgeProofs -----------------------------
(***************************************************************************)
(* Proofs about the edge: the Go SDK's event streams, WebSocket connection *)
(* and Wait loops, and a page of the UI, for any number of streams,        *)
(* handlers, requests, sockets, chats and answers, and the composition of  *)
(* these with the two hubs (HubProofs).                                    *)
(*                                                                         *)
(* A part's invariant says how what is under way relates to what was sent: *)
(* the lines on the wire are those of the events after the ones read       *)
(* (Follows), the handlers still to be called are those registered in time *)
(* and not called (StillToCall), what a chat shows as streaming is all     *)
(* that its send received (AloneReads).                                    *)
(***************************************************************************)
EXTENDS MCEdge, HubProofs, FiniteSetTheorems

-----------------------------------------------------------------------------
\* A bounded sequence is one that is not too long.
LEMMA BoundedSeqHas ==
  ASSUME NEW S, NEW s \in Seq(S), NEW n \in Nat, Len(s) \in 0..n
  PROVE  s \in BoundedSeq(S, n)
<1>1. s \in [1..Len(s) -> S]
  OBVIOUS
<1> QED
  BY <1>1 DEF BoundedSeq, SeqOf

-----------------------------------------------------------------------------
(* The event streams of the SDK                                            *)

LineSet ==
  [field : {"event"}, value : Types \cup {"done"}]
    \cup [field : {"data"}, value : Payloads \cup {BadPayload}] \cup {Blank}

\* The event with which the server completes a stream.
DoneEvent == [type |-> "done", data |-> CHOOSE p \in Payloads : TRUE]

\* The lines l are what follows the first b that were sent: three for each of
\* the events w and, when the server has ended the stream, those of the event
\* that completes it, or at most the first line of one it did not finish.
Follows(b, l, w, end, full) ==
  /\ \A i \in 1..Len(l) : \A k \in 1..Len(w) : \A j \in 1..3 :
       b + i = 3 * (k - 1) + j => l[i] = LinesOf(w[k])[j]
  /\ \A i \in 1..Len(l) : \A j \in 1..(b + Len(l)) :
       b + i = 3 * Len(w) + j =>
         /\ end # "open" /\ (j = 1 => l[i].field = "event")
         /\ j > 1 => full /\ j <= 3
         /\ full => l[i] = LinesOf(DoneEvent)[j]
  /\ end = "open" => b + Len(l) = 3 * Len(w) /\ ~full
  /\ end = "eof" => b + Len(l) >= 3 * Len(w) + (IF full THEN 3 ELSE 0)

\* What Next has assembled, ev, from the first j lines of the k-th event.
Assembled(j, k, ev, w, end, full) ==
  /\ j = 0 => ev = NoEvent
  /\ j = 1 => ev.data = NoData
  /\ j > 0 /\ k <= Len(w) => ev.type = w[k].type
  /\ j = 2 /\ k <= Len(w) => ev.data = w[k].data
  /\ j > 0 /\ k > Len(w) => end # "open" /\ (full => ev.type = "done") /\ (j = 2 => full)

GivenPrefix(g, w) ==
  Len(g) <= Len(w) /\ \A k \in 1..Len(g) : g[k] = w[k]

\* Where Iter is.
IterPlace(s) ==
  /\ GivenPrefix(given[s], written[s])
  /\ streamAt[s] # "returned" => result[s] = "none"
  /\ streamAt[s] = "none" =>
       /\ given[s] = <<>> /\ written[s] = <<>> /\ wire[s] = <<>>
       /\ ending[s] = "open" /\ ~whole[s]
  /\ streamAt[s] = "iter" =>
       Follows(3 * Len(given[s]), wire[s], written[s], ending[s], whole[s])
  /\ streamAt[s] = "next" =>
       \E j \in 0..2 :
         /\ Follows(3 * Len(given[s]) + j, wire[s], written[s], ending[s], whole[s])
         /\ Assembled(j, Len(given[s]) + 1, event[s], written[s], ending[s], whole[s])
  /\ streamAt[s] = "fn" =>
       /\ Len(given[s]) < Len(written[s]) /\ event[s] = written[s][Len(given[s]) + 1]
       /\ Follows(3 * Len(given[s]) + 3, wire[s], written[s], ending[s], whole[s])
  /\ result[s] = "nil" => Len(given[s]) = Len(written[s]) /\ ending[s] # "open"

EventSet == [type : Types \cup {"done", NoData}, data : Payloads \cup {BadPayload, NoData}]

\* The functions, and the sequences that bound what they hold.
StreamShapes ==
  /\ streamAt \in [Streams -> {"none", "iter", "next", "fn", "returned"}]
  /\ wire \in [Streams -> Seq(LineSet)]
  /\ written \in [Streams -> Seq(StreamEvents)] /\ given \in [Streams -> Seq(StreamEvents)]
  /\ ending \in [Streams -> {"open", "eof", "broken"}]
  /\ whole \in [Streams -> BOOLEAN] /\ over \in [Streams -> BOOLEAN]
  /\ event \in [Streams -> EventSet]
  /\ result \in [Streams -> {"none", "nil", "status", "read", "decode", "ctx", "fn"}]
  /\ \A s \in Streams : Len(written[s]) <= MaxEvents

StreamInv == StreamShapes /\ \A s \in Streams : IterPlace(s)

-----------------------------------------------------------------------------
LEMMA LinesFacts ==
  ASSUME NEW e, e.type \in Types \cup {"done"}, e.data \in Payloads \cup {BadPayload}
  PROVE  /\ LinesOf(e) \in Seq(LineSet) /\ Len(LinesOf(e)) = 3
         /\ LinesOf(e)[1] = [field |-> "event", value |-> e.type]
         /\ LinesOf(e)[2] = [field |-> "data", value |-> e.data]
         /\ LinesOf(e)[3] = Blank
BY DEF LinesOf, LineSet

LEMMA DoneFacts ==
  /\ DoneEvent.type = "done" /\ DoneEvent.data \in Payloads
BY StreamAssumption DEF DoneEvent

\* A line is read.
LEMMA FollowsTail ==
  ASSUME NEW b \in Nat, NEW l \in Seq(LineSet), l # <<>>, NEW w \in Seq(StreamEvents),
         NEW end, NEW full, Follows(b, l, w, end, full)
  PROVE  Follows(b + 1, Tail(l), w, end, full)
<1> DEFINE t == Tail(l)
<1>1. /\ t \in Seq(LineSet) /\ Len(t) = Len(l) - 1 /\ Len(l) \in Nat /\ Len(w) \in Nat
      /\ \A i \in 1..Len(t) : i + 1 \in 1..Len(l) /\ t[i] = l[i + 1]
  BY HeadTailProperties
<1> HIDE DEF t
<1>2. ASSUME NEW i \in 1..Len(t), NEW k \in 1..Len(w), NEW j \in 1..3,
             (b + 1) + i = 3 * (k - 1) + j
      PROVE  t[i] = LinesOf(w[k])[j]
  <2>1. i + 1 \in 1..Len(l) /\ t[i] = l[i + 1] /\ b + (i + 1) = 3 * (k - 1) + j
    BY <1>1, <1>2
  <2> QED
    BY <2>1 DEF Follows
<1>3. ASSUME NEW i \in 1..Len(t), NEW j \in 1..((b + 1) + Len(t)),
             (b + 1) + i = 3 * Len(w) + j
      PROVE  /\ end # "open" /\ (j = 1 => t[i].field = "event")
             /\ j > 1 => full /\ j <= 3
             /\ full => t[i] = LinesOf(DoneEvent)[j]
  <2>1. /\ i + 1 \in 1..Len(l) /\ t[i] = l[i + 1] /\ b + (i + 1) = 3 * Len(w) + j
        /\ j \in 1..(b + Len(l))
    BY <1>1, <1>3
  <2> QED
    BY <2>1 DEF Follows
<1>4. b + Len(l) = (b + 1) + Len(t)
  BY <1>1
<1> QED
  BY <1>2, <1>3, <1>4 DEF Follows, t

\* The next line is the one expected, after m events and j lines.
NextLine(m, j, l, w, end, full) ==
  /\ m < Len(w) => Head(l) = LinesOf(w[m + 1])[j + 1]
  /\ m = Len(w) => /\ end # "open" /\ (j = 0 => Head(l).field = "event")
                   /\ j > 0 => full
                   /\ full => Head(l) = LinesOf(DoneEvent)[j + 1]

LEMMA FollowsHead ==
  ASSUME NEW m \in Nat, NEW j \in 0..2, NEW l \in Seq(LineSet), l # <<>>,
         NEW w \in Seq(StreamEvents), m <= Len(w),
         NEW end, NEW full, Follows(3 * m + j, l, w, end, full)
  PROVE  NextLine(m, j, l, w, end, full)
<1>1. Len(l) \in Nat /\ 1 \in 1..Len(l) /\ Head(l) = l[1] /\ Len(w) \in Nat
  OBVIOUS
<1>2. ASSUME m < Len(w) PROVE Head(l) = LinesOf(w[m + 1])[j + 1]
  <2>1. m + 1 \in 1..Len(w) /\ j + 1 \in 1..3 /\ (3 * m + j) + 1 = 3 * ((m + 1) - 1) + (j + 1)
    BY <1>1, <1>2
  <2> QED
    BY <1>1, <2>1 DEF Follows
<1>3. ASSUME m = Len(w)
      PROVE  /\ end # "open" /\ (j = 0 => Head(l).field = "event")
             /\ j > 0 => full
             /\ full => Head(l) = LinesOf(DoneEvent)[j + 1]
  <2>1. j + 1 \in 1..((3 * m + j) + Len(l)) /\ (3 * m + j) + 1 = 3 * Len(w) + (j + 1)
    BY <1>1, <1>3
  <2>2. /\ end # "open" /\ (j + 1 = 1 => l[1].field = "event")
        /\ j + 1 > 1 => full
        /\ full => l[1] = LinesOf(DoneEvent)[j + 1]
    BY <1>1, <2>1 DEF Follows
  <2> QED
    BY <1>1, <2>2
<1> QED
  BY <1>2, <1>3 DEF NextLine

\* Lines are added at the end.
LEMMA LinesAdded ==
  ASSUME NEW l \in Seq(LineSet), NEW m \in Seq(LineSet)
  PROVE  /\ l \o m \in Seq(LineSet) /\ Len(l \o m) = Len(l) + Len(m)
         /\ Len(l) \in Nat /\ Len(m) \in Nat
         /\ \A i \in 1..Len(l \o m) :
              \/ i \in 1..Len(l) /\ (l \o m)[i] = l[i]
              \/ \E j \in 1..Len(m) : i = Len(l) + j /\ (l \o m)[i] = m[j]
<1>1. /\ l \o m \in Seq(LineSet) /\ Len(l \o m) = Len(l) + Len(m)
      /\ \A i \in 1..Len(l) : (l \o m)[i] = l[i]
      /\ \A j \in 1..Len(m) : (l \o m)[Len(l) + j] = m[j]
  BY ConcatProperties
<1>2. Len(l) \in Nat /\ Len(m) \in Nat
  OBVIOUS
<1>3. ASSUME NEW i \in 1..(Len(l) + Len(m))
      PROVE  i \in 1..Len(l) \/ \E j \in 1..Len(m) : i = Len(l) + j
  <2>1. CASE i <= Len(l)
    BY <1>2, <2>1
  <2>2. CASE i > Len(l)
    <3>1. i - Len(l) \in 1..Len(m) /\ i = Len(l) + (i - Len(l))
      BY <1>2, <2>2
    <3> QED
      BY <3>1
  <2> QED
    BY <1>2, <2>1, <2>2
<1>4. ASSUME NEW i \in 1..(Len(l) + Len(m))
      PROVE  \/ i \in 1..Len(l) /\ (l \o m)[i] = l[i]
             \/ \E j \in 1..Len(m) : i = Len(l) + j /\ (l \o m)[i] = m[j]
  BY Zenon, <1>1, <1>3
<1> QED
  BY Zenon, <1>1, <1>2, <1>4

LEMMA FollowsWritten ==
  ASSUME NEW b \in Nat, NEW l \in Seq(LineSet), NEW w \in Seq(StreamEvents), NEW full,
         Follows(b, l, w, "open", full), NEW e \in StreamEvents
  PROVE  Follows(b, l \o LinesOf(e), Append(w, e), "open", full)
<1> DEFINE d == LinesOf(e)
           v == Append(w, e)
           t == l \o d
<1>1. d \in Seq(LineSet) /\ Len(d) = 3
  BY LinesFacts DEF StreamEvents
<1>2. Len(v) = Len(w) + 1 /\ Len(w) \in Nat
  BY AppendProperties
<1>3. v[Len(w) + 1] = e /\ \A k \in 1..Len(w) : v[k] = w[k]
  BY AppendProperties
<1>4. b + Len(l) = 3 * Len(w) /\ ~full
  BY DEF Follows
<1> HIDE DEF d, v
<1>5. Len(t) = Len(l) + 3 /\ Len(l) \in Nat
  <2>1. Len(t) = Len(l) + Len(d)
    BY <1>1, LinesAdded
  <2> QED
    BY <1>1, <2>1
<1>6. ASSUME NEW i \in 1..Len(t)
      PROVE  \/ i \in 1..Len(l) /\ t[i] = l[i]
             \/ \E q \in 1..3 : i = Len(l) + q /\ t[i] = d[q]
  <2>1. \/ i \in 1..Len(l) /\ t[i] = l[i]
        \/ \E q \in 1..Len(d) : i = Len(l) + q /\ t[i] = d[q]
    BY <1>1, LinesAdded
  <2> QED
    BY <1>1, <2>1
<1> HIDE DEF t
<1>7. ASSUME NEW i \in 1..Len(t), NEW k \in 1..Len(v), NEW j \in 1..3, b + i = 3 * (k - 1) + j
      PROVE  t[i] = LinesOf(v[k])[j]
  <2>1. CASE i \in 1..Len(l) /\ t[i] = l[i]
    <3>1. k \in 1..Len(w)
      <4>1. /\ k \in 1..(Len(w) + 1) /\ Len(w) \in Nat /\ Len(l) \in Nat
            /\ b + i = 3 * (k - 1) + j /\ b + Len(l) = 3 * Len(w)
        BY <1>2, <1>4, <1>5, <1>7
      <4>2. i \in Nat /\ i <= Len(l)
        BY <2>1, <4>1
      <4>3. \A x, y, p, q \in Nat : b + x = 3 * y /\ p <= x /\ b + p = 3 * q + j => q < y
        OBVIOUS
      <4>4. k - 1 \in Nat
        BY <4>1
      <4>5. k - 1 < Len(w)
        BY Zenon, <4>1, <4>2, <4>3, <4>4
      <4> QED
        BY <4>1, <4>5
    <3>2. v[k] = w[k]
      BY <1>3, <3>1
    <3>3. i \in 1..Len(l) /\ t[i] = l[i]
      BY <2>1
    <3>4. l[i] = LinesOf(w[k])[j]
      BY <1>7, <3>1, <3>3 DEF Follows
    <3> QED
      BY <3>2, <3>3, <3>4, Zenon
  <2>2. ASSUME NEW q \in 1..3, i = Len(l) + q, t[i] = d[q]
        PROVE  t[i] = LinesOf(v[k])[j]
    <3>1. i = Len(l) + q /\ t[i] = d[q]
      BY <2>2
    <3>2. (b + Len(l)) + q = 3 * (k - 1) + j
      BY <1>5, <1>7, <3>1
    <3>3. k \in Int /\ k - 1 <= Len(w)
      BY <1>2
    <3>4. k - 1 = Len(w) /\ q = j
      BY <1>2, <1>4, <3>2, <3>3
    <3>5. k = Len(w) + 1
      BY <1>2, <3>4
    <3>6. v[k] = e
      BY <1>3, <3>5
    <3> QED
      BY <3>1, <3>4, <3>6 DEF d
  <2> QED
    BY <1>6, <2>1, <2>2
<1>8. ASSUME NEW i \in 1..Len(t), NEW j \in 1..(b + Len(t)), b + i = 3 * Len(v) + j
      PROVE  FALSE
  BY <1>2, <1>4, <1>5, <1>8
<1>9. b + Len(t) = 3 * Len(v)
  BY <1>2, <1>4, <1>5
<1> QED
  BY <1>4, <1>7, <1>8, <1>9 DEF Follows, t, d, v

\* The server completes a stream.
LEMMA FollowsDone ==
  ASSUME NEW b \in Nat, NEW l \in Seq(LineSet), NEW w \in Seq(StreamEvents), NEW full,
         Follows(b, l, w, "open", full)
  PROVE  Follows(b, l \o LinesOf(DoneEvent), w, "eof", TRUE)
<1> DEFINE d == LinesOf(DoneEvent)
           t == l \o d
<1>1. d \in Seq(LineSet) /\ Len(d) = 3 /\ d[1].field = "event"
  <2>1. DoneEvent.type \in Types \cup {"done"} /\ DoneEvent.data \in Payloads \cup {BadPayload}
    BY DoneFacts
  <2>2. d \in Seq(LineSet) /\ Len(d) = 3 /\ d[1] = [field |-> "event", value |-> DoneEvent.type]
    BY <2>1, LinesFacts, Zenon
  <2> HIDE DEF d
  <2> QED
    BY <2>2
<1>2. b + Len(l) = 3 * Len(w) /\ Len(w) \in Nat
  BY DEF Follows
<1> HIDE DEF d
<1>3. Len(t) = Len(l) + 3 /\ Len(l) \in Nat
  <2>1. Len(t) = Len(l) + Len(d)
    BY <1>1, LinesAdded
  <2> QED
    BY <1>1, <2>1
<1>4. ASSUME NEW i \in 1..Len(t)
      PROVE  \/ i \in 1..Len(l) /\ t[i] = l[i]
             \/ \E q \in 1..3 : i = Len(l) + q /\ t[i] = d[q]
  <2>1. \/ i \in 1..Len(l) /\ t[i] = l[i]
        \/ \E q \in 1..Len(d) : i = Len(l) + q /\ t[i] = d[q]
    BY <1>1, LinesAdded
  <2> QED
    BY <1>1, <2>1
<1> HIDE DEF t
<1>5. ASSUME NEW i \in 1..Len(t), NEW k \in 1..Len(w), NEW j \in 1..3, b + i = 3 * (k - 1) + j
      PROVE  t[i] = LinesOf(w[k])[j]
  <2>1. ~\E q \in 1..3 : i = Len(l) + q
    BY <1>2, <1>3, <1>5
  <2>2. i \in 1..Len(l) /\ t[i] = l[i]
    BY <1>4, <2>1
  <2> QED
    BY <1>5, <2>2 DEF Follows
<1>6. ASSUME NEW i \in 1..Len(t), NEW j \in 1..(b + Len(t)), b + i = 3 * Len(w) + j
      PROVE  j <= 3 /\ t[i] = d[j]
  <2>1. i = Len(l) + j /\ i \notin 1..Len(l)
    BY <1>2, <1>3, <1>6
  <2>2. PICK q \in 1..3 : i = Len(l) + q /\ t[i] = d[q]
    BY <1>4, <2>1
  <2>3. q = j
    BY <1>3, <2>1, <2>2
  <2> QED
    BY <2>2, <2>3
<1>7. b + Len(t) >= 3 * Len(w) + 3
  BY <1>2, <1>3
<1> QED
  BY <1>1, <1>5, <1>6, <1>7 DEF Follows, t, d

\* The server ends a stream without having completed it.
LEMMA FollowsShort ==
  ASSUME NEW b \in Nat, NEW l \in Seq(LineSet), NEW w \in Seq(StreamEvents), NEW full,
         Follows(b, l, w, "open", full), NEW m \in Seq(LineSet),
         m = <<>> \/ (Len(m) = 1 /\ m[1].field = "event")
  PROVE  Follows(b, l \o m, w, "eof", full)
<1> DEFINE t == l \o m
<1>1. b + Len(l) = 3 * Len(w) /\ Len(w) \in Nat /\ ~full
  BY DEF Follows
<1>2. Len(t) = Len(l) + Len(m) /\ Len(l) \in Nat /\ Len(m) \in Nat
  BY LinesAdded
<1>3. ASSUME NEW i \in 1..Len(t)
      PROVE  \/ i \in 1..Len(l) /\ t[i] = l[i]
             \/ \E q \in 1..Len(m) : i = Len(l) + q /\ t[i] = m[q]
  BY LinesAdded
<1> HIDE DEF t
<1>4. ASSUME NEW i \in 1..Len(t), NEW k \in 1..Len(w), NEW j \in 1..3, b + i = 3 * (k - 1) + j
      PROVE  t[i] = LinesOf(w[k])[j]
  <2>1. ~\E q \in 1..Len(m) : i = Len(l) + q
    BY <1>1, <1>2, <1>4
  <2>2. i \in 1..Len(l) /\ t[i] = l[i]
    BY <1>3, <2>1
  <2> QED
    BY <1>4, <2>2 DEF Follows
<1>5. ASSUME NEW i \in 1..Len(t), NEW j \in 1..(b + Len(t)), b + i = 3 * Len(w) + j
      PROVE  j = 1 /\ t[i].field = "event"
  <2>1. i = Len(l) + j /\ i \notin 1..Len(l)
    <3>1. (b + Len(l)) + j = b + i
      BY <1>1, <1>5
    <3> QED
      BY <1>2, <3>1
  <2>2. PICK q \in 1..Len(m) : i = Len(l) + q /\ t[i] = m[q]
    BY <1>3, <2>1
  <2>3. q = j /\ q = 1
    BY <1>2, <2>1, <2>2
  <2> QED
    BY <2>2, <2>3
<1>6. b + Len(t) >= 3 * Len(w)
  BY <1>1, <1>2
<1> QED
  BY <1>1, <1>4, <1>5, <1>6 DEF Follows, t

\* What was under way is lost.
LEMMA FollowsCut ==
  ASSUME NEW b \in Nat, NEW l \in Seq(LineSet), NEW w \in Seq(StreamEvents),
         NEW end, NEW full, Follows(b, l, w, end, full), NEW n \in 0..Len(l)
  PROVE  SubSeq(l, 1, n) \in Seq(LineSet) /\ Follows(b, SubSeq(l, 1, n), w, "broken", full)
<1> DEFINE t == SubSeq(l, 1, n)
<1>1. /\ t \in Seq(LineSet) /\ Len(t) = n /\ Len(l) \in Nat /\ Len(w) \in Nat
      /\ \A i \in 1..Len(t) : i \in 1..Len(l) /\ t[i] = l[i]
  BY SubSeqProperties
<1> HIDE DEF t
<1>2. ASSUME NEW i \in 1..Len(t), NEW j \in 1..(b + Len(t)), b + i = 3 * Len(w) + j
      PROVE  /\ j = 1 => t[i].field = "event"
             /\ j > 1 => full /\ j <= 3
             /\ full => t[i] = LinesOf(DoneEvent)[j]
  <2>1. i \in 1..Len(l) /\ t[i] = l[i] /\ j \in 1..(b + Len(l))
    BY <1>1
  <2> QED
    BY <1>2, <2>1 DEF Follows
<1>3. ASSUME NEW i \in 1..Len(t), NEW k \in 1..Len(w), NEW j \in 1..3, b + i = 3 * (k - 1) + j
      PROVE  t[i] = LinesOf(w[k])[j]
  BY <1>1, <1>3 DEF Follows
<1> QED
  BY <1>1, <1>2, <1>3 DEF Follows, t
-----------------------------------------------------------------------------
LEMMA StreamInvInit == StreamInit => StreamInv
<1> SUFFICES ASSUME StreamInit PROVE StreamInv
  OBVIOUS
<1> USE DEF StreamInit
<1>1. StreamShapes
  BY StreamAssumption DEF StreamShapes, NoEvent, EventSet
<1>2. \A s \in Streams : IterPlace(s)
  BY DEF IterPlace, GivenPrefix
<1> QED
  BY <1>1, <1>2 DEF StreamInv

\* A step is about one stream.
Same(d) ==
  /\ streamAt'[d] = streamAt[d] /\ wire'[d] = wire[d] /\ ending'[d] = ending[d]
  /\ whole'[d] = whole[d] /\ event'[d] = event[d] /\ written'[d] = written[d]
  /\ given'[d] = given[d] /\ result'[d] = result[d]

LEMMA OneStream ==
  ASSUME StreamInv, NEW s \in Streams, StreamShapes', IterPlace(s)',
         \A d \in Streams : d # s => Same(d)
  PROVE  StreamInv'
<1>1. ASSUME NEW d \in Streams, d # s PROVE IterPlace(d)'
  <2>1. Same(d) /\ IterPlace(d)
    BY <1>1 DEF StreamInv
  <2> QED
    BY <2>1 DEF Same, IterPlace
<1> QED
  BY <1>1 DEF StreamInv

\* What is known of one stream.
LEMMA StreamFacts ==
  ASSUME StreamInv, NEW s \in Streams
  PROVE  /\ wire[s] \in Seq(LineSet) /\ written[s] \in Seq(StreamEvents)
         /\ given[s] \in Seq(StreamEvents) /\ event[s] \in EventSet
         /\ Len(given[s]) \in Nat /\ Len(written[s]) \in Nat
         /\ GivenPrefix(given[s], written[s]) /\ Len(given[s]) <= Len(written[s])
BY DEF StreamInv, StreamShapes, IterPlace, GivenPrefix

LEMMA OpenSteps ==
  ASSUME StreamInv, NEW s \in Streams, OpenStream(s) \/ OpenFails(s) \/ IterCancelled(s)
  PROVE  StreamInv'
<1>1. StreamShapes'
  BY DEF StreamInv, StreamShapes, OpenStream, OpenFails, IterCancelled, Ends, serverVars
<1>2. \A d \in Streams : d # s => Same(d)
  BY DEF StreamInv, StreamShapes, OpenStream, OpenFails, IterCancelled, Ends, serverVars, Same
<1>3. IterPlace(s)
  BY DEF StreamInv
<1>4. CASE OpenStream(s)
  <2>1. /\ streamAt[s] = "none" /\ streamAt'[s] = "iter"
        /\ UNCHANGED <<wire, ending, whole, written, event, given, over, result>>
    BY <1>4 DEF StreamInv, StreamShapes, OpenStream, serverVars
  <2>2. /\ given[s] = <<>> /\ written[s] = <<>> /\ wire[s] = <<>>
        /\ ending[s] = "open" /\ ~whole[s] /\ result[s] = "none"
    BY <1>3, <2>1 DEF IterPlace
  <2>3. Follows(3 * Len(given[s]), wire[s], written[s], ending[s], whole[s])
    BY <2>2 DEF Follows
  <2>4. IterPlace(s)'
    BY <1>3, <2>1, <2>2, <2>3 DEF IterPlace
  <2> QED
    BY <1>1, <1>2, <2>4, OneStream
<1>5. CASE OpenFails(s)
  <2>1. /\ streamAt[s] = "none" /\ streamAt'[s] = "returned" /\ result'[s] = "status"
        /\ UNCHANGED <<wire, ending, whole, written, event, given, over>>
    BY <1>5 DEF StreamInv, StreamShapes, OpenFails, Ends, serverVars
  <2>2. IterPlace(s)'
    BY <1>3, <2>1 DEF IterPlace
  <2> QED
    BY <1>1, <1>2, <2>2, OneStream
<1>6. CASE IterCancelled(s)
  <2>1. UNCHANGED <<streamAt, wire, ending, whole, written, event, given, result>>
    BY <1>6 DEF IterCancelled, serverVars
  <2>2. IterPlace(s)'
    BY <1>3, <2>1 DEF IterPlace
  <2> QED
    BY <1>1, <1>2, <2>2, OneStream
<1> QED
  BY <1>4, <1>5, <1>6

\* An event the server adds is after those that were given.
LEMMA PrefixGrows ==
  ASSUME NEW g \in Seq(StreamEvents), NEW w \in Seq(StreamEvents), NEW e \in StreamEvents,
         GivenPrefix(g, w)
  PROVE  GivenPrefix(g, Append(w, e))
<1>1. /\ Len(Append(w, e)) = Len(w) + 1 /\ Len(w) \in Nat /\ Len(g) \in Nat /\ Len(g) <= Len(w)
  BY AppendProperties DEF GivenPrefix
<1>2. \A k \in 1..Len(w) : Append(w, e)[k] = w[k]
  BY AppendProperties
<1>3. ASSUME NEW k \in 1..Len(g) PROVE g[k] = Append(w, e)[k]
  <2>1. k \in 1..Len(w)
    BY <1>1
  <2> QED
    BY <1>2, <2>1 DEF GivenPrefix
<1> QED
  BY <1>1, <1>3 DEF GivenPrefix

\* So is what Next has assembled.
LEMMA AssembledGrows ==
  ASSUME NEW j \in 0..2, NEW k \in Nat, NEW ev, NEW w \in Seq(StreamEvents), NEW full,
         NEW e \in StreamEvents, Assembled(j, k, ev, w, "open", full), k # 0
  PROVE  Assembled(j, k, ev, Append(w, e), "open", full)
<1>1. Len(Append(w, e)) = Len(w) + 1 /\ Len(w) \in Nat
  BY AppendProperties
<1>2. \A i \in 1..Len(w) : Append(w, e)[i] = w[i]
  BY AppendProperties
<1>3. j > 0 => k <= Len(w)
  BY <1>1 DEF Assembled
<1>4. j > 0 => Append(w, e)[k] = w[k]
  BY <1>1, <1>2, <1>3
<1> QED
  BY <1>1, <1>3, <1>4 DEF Assembled

LEMMA WriteEventStep ==
  ASSUME StreamInv, NEW s \in Streams, NEW e \in StreamEvents, WriteEvent(s, e)
  PROVE  StreamInv'
<1> DEFINE l == wire[s]
           w == written[s]
           g == given[s]
           lx == l \o LinesOf(e)
           wx == Append(w, e)
<1>1. /\ l \in Seq(LineSet) /\ w \in Seq(StreamEvents) /\ g \in Seq(StreamEvents)
      /\ Len(g) \in Nat /\ Len(w) \in Nat /\ GivenPrefix(g, w)
  BY StreamFacts
<1>2. /\ streamAt[s] # "none" /\ ending[s] = "open" /\ Len(w) < MaxEvents
      /\ written' = [written EXCEPT ![s] = wx] /\ wire' = [wire EXCEPT ![s] = lx]
      /\ UNCHANGED <<streamAt, event, given, over, result, ending, whole>>
  BY DEF WriteEvent, Sending, readerVars
<1>3. lx \in Seq(LineSet)
  <2>1. LinesOf(e) \in Seq(LineSet)
    BY LinesFacts DEF StreamEvents
  <2> QED
    BY <1>1, <2>1, ConcatProperties
<1>4. wx \in Seq(StreamEvents) /\ Len(wx) <= MaxEvents
  <2>1. wx \in Seq(StreamEvents) /\ Len(wx) = Len(w) + 1
    BY <1>1, AppendProperties
  <2> QED
    BY <1>1, <1>2, <2>1, StreamAssumption
<1>5. GivenPrefix(g, wx)
  BY <1>1, PrefixGrows
<1>6. ASSUME NEW b \in Nat, Follows(b, l, w, "open", whole[s]) PROVE Follows(b, lx, wx, "open", whole[s])
  BY <1>1, <1>6, FollowsWritten
<1>7. ASSUME NEW j \in 0..2, Assembled(j, Len(g) + 1, event[s], w, "open", whole[s])
      PROVE  Assembled(j, Len(g) + 1, event[s], wx, "open", whole[s])
  <2>1. Len(g) + 1 \in Nat /\ Len(g) + 1 # 0
    BY <1>1
  <2> QED
    BY <1>1, <1>7, <2>1, AssembledGrows
<1>8. Len(g) < Len(w) => Len(g) < Len(wx) /\ wx[Len(g) + 1] = w[Len(g) + 1]
  <2>1. Len(wx) = Len(w) + 1
    BY <1>1, AppendProperties
  <2>2. Len(g) < Len(w) => Len(g) + 1 \in 1..Len(w)
    BY <1>1
  <2>3. \A k \in 1..Len(w) : wx[k] = w[k]
    BY <1>1, AppendProperties
  <2>4. Len(g) < Len(w) => Len(g) < Len(wx)
    BY <1>1, <2>1
  <2> QED
    BY <2>2, <2>3, <2>4
<1> HIDE DEF lx, wx
<1>9. StreamShapes'
  BY <1>2, <1>3, <1>4 DEF StreamInv, StreamShapes
<1>10. \A d \in Streams : d # s => Same(d)
  BY <1>2 DEF StreamInv, StreamShapes, Same
<1>11. wire'[s] = lx /\ written'[s] = wx
  BY <1>2 DEF StreamInv, StreamShapes
<1>12. IterPlace(s)
  BY DEF StreamInv
<1>13. 3 * Len(g) \in Nat /\ (3 * Len(g)) + 3 \in Nat /\ \A j \in 0..2 : (3 * Len(g)) + j \in Nat
  BY <1>1
<1>14. IterPlace(s)'
  <2>1. result[s] # "nil"
    BY <1>2, <1>12 DEF IterPlace
  <2>2. CASE streamAt[s] = "next"
    <3>1. PICK j \in 0..2 : /\ Follows(3 * Len(g) + j, l, w, "open", whole[s])
                            /\ Assembled(j, Len(g) + 1, event[s], w, "open", whole[s])
      BY <1>2, <1>12, <2>2 DEF IterPlace
    <3>2. /\ Follows(3 * Len(g) + j, lx, wx, "open", whole[s])
          /\ Assembled(j, Len(g) + 1, event[s], wx, "open", whole[s])
      BY <1>6, <1>7, <1>13, <3>1
    <3> QED
      BY <1>2, <1>5, <1>11, <1>12, <2>1, <2>2, <3>2 DEF IterPlace
  <2>3. CASE streamAt[s] = "iter"
    BY <1>2, <1>5, <1>6, <1>11, <1>12, <1>13, <2>1, <2>3 DEF IterPlace
  <2>4. CASE streamAt[s] = "fn"
    BY <1>2, <1>5, <1>6, <1>8, <1>11, <1>12, <1>13, <2>1, <2>4 DEF IterPlace
  <2>5. CASE streamAt[s] = "returned"
    BY <1>2, <1>5, <1>11, <1>12, <2>1, <2>5 DEF IterPlace
  <2> QED
    BY <1>2, <2>2, <2>3, <2>4, <2>5 DEF StreamInv, StreamShapes
<1> QED
  BY <1>9, <1>10, <1>14, OneStream

\* The server's end of the stream: what Next has read so far is as it was.
LEMMA ServerEnds ==
  ASSUME StreamInv, NEW s \in Streams, NEW lx \in Seq(LineSet), NEW full \in BOOLEAN,
         NEW how \in {"eof", "broken"},
         streamAt[s] # "none", ending[s] = "open" \/ (how = "broken" /\ full = whole[s]),
         \A b \in Nat : Follows(b, wire[s], written[s], ending[s], whole[s])
                          => Follows(b, lx, written[s], how, full),
         wire' = [wire EXCEPT ![s] = lx], ending' = [ending EXCEPT ![s] = how],
         whole' = [whole EXCEPT ![s] = full],
         UNCHANGED <<readerVars, written>>
  PROVE  StreamInv'
<1> DEFINE g == given[s]
           w == written[s]
<1>1. UNCHANGED <<streamAt, event, given, over, result, written>>
  BY DEF readerVars
<1>2. StreamShapes'
  BY <1>1 DEF StreamInv, StreamShapes
<1>3. \A d \in Streams : d # s => Same(d)
  BY <1>1 DEF StreamInv, StreamShapes, Same
<1>4. wire'[s] = lx /\ ending'[s] = how /\ whole'[s] = full
  BY DEF StreamInv, StreamShapes
<1>5. IterPlace(s)
  BY DEF StreamInv
<1>6. /\ Len(g) \in Nat /\ Len(w) \in Nat /\ Len(g) <= Len(w)
      /\ 3 * Len(g) \in Nat /\ (3 * Len(g)) + 3 \in Nat /\ \A j \in 0..2 : (3 * Len(g)) + j \in Nat
  BY StreamFacts
<1>7. ASSUME NEW j \in 0..2, Assembled(j, Len(g) + 1, event[s], w, ending[s], whole[s])
      PROVE  Assembled(j, Len(g) + 1, event[s], w, how, full)
  BY <1>7 DEF Assembled
<1>8. IterPlace(s)'
  <2>1. CASE streamAt[s] = "next"
    <3>1. PICK j \in 0..2 : /\ Follows(3 * Len(g) + j, wire[s], w, ending[s], whole[s])
                            /\ Assembled(j, Len(g) + 1, event[s], w, ending[s], whole[s])
      BY <1>5, <2>1 DEF IterPlace
    <3>2. /\ Follows(3 * Len(g) + j, lx, w, how, full)
          /\ Assembled(j, Len(g) + 1, event[s], w, how, full)
      BY <1>6, <1>7, <3>1
    <3> QED
      BY <1>1, <1>4, <1>5, <2>1, <3>2 DEF IterPlace
  <2>2. CASE streamAt[s] = "iter"
    BY <1>1, <1>4, <1>5, <1>6, <2>2 DEF IterPlace
  <2>3. CASE streamAt[s] = "fn"
    BY <1>1, <1>4, <1>5, <1>6, <2>3 DEF IterPlace
  <2>4. CASE streamAt[s] = "returned"
    BY <1>1, <1>4, <1>5, <2>4 DEF IterPlace
  <2> QED
    BY <2>1, <2>2, <2>3, <2>4 DEF StreamInv, StreamShapes
<1> QED
  BY <1>2, <1>3, <1>8, OneStream

LEMMA ServerSteps ==
  ASSUME StreamInv, NEW s \in Streams, Completes(s) \/ StopsShort(s) \/ Breaks(s)
  PROVE  StreamInv'
<1>1. /\ wire[s] \in Seq(LineSet) /\ written[s] \in Seq(StreamEvents)
      /\ whole[s] \in BOOLEAN /\ whole = [whole EXCEPT ![s] = whole[s]]
  BY DEF StreamInv, StreamShapes
<1>2. CASE Completes(s)
  <2> DEFINE lx == wire[s] \o LinesOf(DoneEvent)
  <2>1. /\ streamAt[s] # "none" /\ ending[s] = "open"
        /\ wire' = [wire EXCEPT ![s] = lx] /\ ending' = [ending EXCEPT ![s] = "eof"]
        /\ whole' = [whole EXCEPT ![s] = TRUE] /\ UNCHANGED <<readerVars, written>>
    BY <1>2 DEF Completes, Sending, DoneEvent
  <2>2. lx \in Seq(LineSet)
    <3>1. DoneEvent.type \in Types \cup {"done"} /\ DoneEvent.data \in Payloads \cup {BadPayload}
      BY DoneFacts
    <3>2. LinesOf(DoneEvent) \in Seq(LineSet)
      BY <3>1, LinesFacts, Zenon
    <3> QED
      BY <1>1, <3>2, ConcatProperties
  <2>3. ASSUME NEW b \in Nat, Follows(b, wire[s], written[s], ending[s], whole[s])
        PROVE  Follows(b, lx, written[s], "eof", TRUE)
    <3>1. Follows(b, wire[s], written[s], "open", whole[s])
      BY <2>1, <2>3
    <3> QED
      BY <1>1, <3>1, FollowsDone
  <2> HIDE DEF lx
  <2> QED
    BY <2>1, <2>2, <2>3, ServerEnds, Zenon
<1>3. CASE StopsShort(s)
  <2>1. PICK cut \in {<<>>} \cup {<<LinesOf([type |-> t, data |-> NoData])[1]>> : t \in Types} :
          wire' = [wire EXCEPT ![s] = @ \o cut]
    BY <1>3 DEF StopsShort
  <2> DEFINE lx == wire[s] \o cut
  <2>2. /\ streamAt[s] # "none" /\ ending[s] = "open"
        /\ wire' = [wire EXCEPT ![s] = lx] /\ ending' = [ending EXCEPT ![s] = "eof"]
        /\ whole' = [whole EXCEPT ![s] = whole[s]] /\ UNCHANGED <<readerVars, written>>
    BY <1>1, <1>3, <2>1 DEF StopsShort, Sending
  <2>3. cut \in Seq(LineSet) /\ (cut = <<>> \/ (Len(cut) = 1 /\ cut[1].field = "event"))
    <3>1. CASE cut = <<>>
      BY <3>1
    <3>2. ASSUME NEW t \in Types, cut = <<LinesOf([type |-> t, data |-> NoData])[1]>>
          PROVE  cut \in Seq(LineSet) /\ Len(cut) = 1 /\ cut[1].field = "event"
      <4>1. LinesOf([type |-> t, data |-> NoData])[1] = [field |-> "event", value |-> t]
        BY DEF LinesOf
      <4>2. cut = <<[field |-> "event", value |-> t]>>
        BY <3>2, <4>1
      <4>3. [field |-> "event", value |-> t] \in LineSet
        BY DEF LineSet
      <4> QED
        BY <4>2, <4>3
    <3> QED
      BY <2>1, <3>1, <3>2
  <2>4. lx \in Seq(LineSet)
    BY <1>1, <2>3, ConcatProperties
  <2>5. ASSUME NEW b \in Nat, Follows(b, wire[s], written[s], ending[s], whole[s])
        PROVE  Follows(b, lx, written[s], "eof", whole[s])
    <3>1. Follows(b, wire[s], written[s], "open", whole[s])
      BY <2>2, <2>5
    <3> QED
      BY <1>1, <2>3, <3>1, FollowsShort
  <2> HIDE DEF lx
  <2> QED
    BY <1>1, <2>2, <2>4, <2>5, ServerEnds, Zenon
<1>4. CASE Breaks(s)
  <2>1. PICK n \in 0..Len(wire[s]) : wire' = [wire EXCEPT ![s] = SubSeq(@, 1, n)]
    BY <1>4 DEF Breaks
  <2> DEFINE lx == SubSeq(wire[s], 1, n)
  <2>2. /\ streamAt[s] # "none"
        /\ wire' = [wire EXCEPT ![s] = lx] /\ ending' = [ending EXCEPT ![s] = "broken"]
        /\ whole' = [whole EXCEPT ![s] = whole[s]] /\ UNCHANGED <<readerVars, written>>
    BY <1>1, <1>4, <2>1 DEF Breaks
  <2>3. lx \in Seq(LineSet)
    BY <1>1, SubSeqProperties
  <2>4. ASSUME NEW b \in Nat, Follows(b, wire[s], written[s], ending[s], whole[s])
        PROVE  Follows(b, lx, written[s], "broken", whole[s])
    BY <1>1, <2>4, FollowsCut
  <2> HIDE DEF lx
  <2> QED
    BY <1>1, <2>2, <2>3, <2>4, ServerEnds, Zenon
<1> QED
  BY <1>2, <1>3, <1>4

-----------------------------------------------------------------------------
\* The context is looked at, and Next begins with nothing assembled.
LEMMA IterLoopsStep ==
  ASSUME StreamInv, NEW s \in Streams, IterLoops(s)
  PROVE  StreamInv'
<1>1. /\ streamAt[s] = "iter" /\ event'[s] = NoEvent
      /\ UNCHANGED <<wire, ending, whole, written, given, over>>
      /\ \/ streamAt'[s] = "returned" /\ result'[s] = "ctx"
         \/ streamAt'[s] = "next" /\ result'[s] = result[s]
  BY DEF StreamInv, StreamShapes, IterLoops, Ends, serverVars
<1>2. StreamShapes' /\ \A d \in Streams : d # s => Same(d)
  BY DEF StreamInv, StreamShapes, IterLoops, Ends, serverVars, Same, NoEvent, EventSet
<1>3. IterPlace(s)
  BY DEF StreamInv
<1>4. /\ Follows(3 * Len(given[s]) + 0, wire[s], written[s], ending[s], whole[s])
      /\ Assembled(0, Len(given[s]) + 1, event'[s], written[s], ending[s], whole[s])
  <2>1. (3 * Len(given[s])) + 0 = 3 * Len(given[s])
    BY StreamFacts
  <2>2. Follows(3 * Len(given[s]), wire[s], written[s], ending[s], whole[s])
    BY <1>1, <1>3 DEF IterPlace
  <2> QED
    BY <1>1, <2>1, <2>2 DEF Assembled
<1>5. IterPlace(s)'
  BY <1>1, <1>3, <1>4 DEF IterPlace
<1> QED
  BY <1>2, <1>5, OneStream

\* What Next has after j lines, and the next line.
LEMMA ReadLineStep ==
  ASSUME StreamInv, NEW s \in Streams, ReadLine(s)
  PROVE  StreamInv'
<1> DEFINE l == wire[s]
           h == Head(wire[s])
           w == written[s]
           g == given[s]
           k == Len(given[s]) + 1
           ev == event[s]
<1>1. /\ l \in Seq(LineSet) /\ w \in Seq(StreamEvents) /\ g \in Seq(StreamEvents)
      /\ Len(g) \in Nat /\ Len(w) \in Nat /\ Len(g) <= Len(w) /\ ev \in EventSet
      /\ GivenPrefix(g, w)
  BY StreamFacts
<1>2. /\ streamAt[s] = "next" /\ l # <<>> /\ wire' = [wire EXCEPT ![s] = Tail(l)]
      /\ UNCHANGED <<ending, whole, written, given, over>>
  BY DEF ReadLine
<1>3. h \in LineSet /\ Tail(l) \in Seq(LineSet) /\ (h = Blank <=> h.field = "blank")
  BY <1>1, <1>2, HeadTailProperties DEF LineSet, Blank
<1>4. IterPlace(s) /\ result[s] = "none"
  BY <1>2 DEF StreamInv, IterPlace
<1>5. PICK j \in 0..2 : /\ Follows(3 * Len(g) + j, l, w, ending[s], whole[s])
                        /\ Assembled(j, k, ev, w, ending[s], whole[s])
  BY <1>2, <1>4 DEF IterPlace
<1>6. Follows(3 * Len(g) + (j + 1), Tail(l), w, ending[s], whole[s])
  <2>1. (3 * Len(g)) + j \in Nat /\ ((3 * Len(g)) + j) + 1 = (3 * Len(g)) + (j + 1)
    <3>1. \A n \in Nat : (3 * n) + j \in Nat /\ ((3 * n) + j) + 1 = (3 * n) + (j + 1)
      OBVIOUS
    <3> QED
      BY <1>1, <3>1, Zenon
  <2>2. Follows(((3 * Len(g)) + j) + 1, Tail(l), w, ending[s], whole[s])
    BY <1>1, <1>2, <1>5, <2>1, FollowsTail
  <2> QED
    BY <2>1, <2>2
<1>7. /\ Len(g) < Len(w) => h = LinesOf(w[k])[j + 1]
      /\ Len(g) = Len(w) => /\ ending[s] # "open" /\ (j = 0 => h.field = "event")
                            /\ j > 0 => whole[s]
                            /\ whole[s] => h = LinesOf(DoneEvent)[j + 1]
  <2>1. NextLine(Len(g), j, l, w, ending[s], whole[s])
    BY <1>1, <1>2, <1>5, FollowsHead, Zenon
  <2> QED
    BY <2>1 DEF NextLine
<1>8. Len(g) < Len(w) => w[k] \in StreamEvents
  <2>1. Len(g) < Len(w) => k \in 1..Len(w)
    BY <1>1
  <2> QED
    BY <1>1, <2>1
<1>9. wire'[s] = Tail(l)
  BY <1>2 DEF StreamInv, StreamShapes
<1>10. k <= Len(w) <=> Len(g) < Len(w)
  BY <1>1
<1>11. k > Len(w) <=> Len(g) = Len(w)
  BY <1>1
<1> HIDE DEF h, k, ev
<1>12. CASE j = 0
  <2>1. h.field = "event" /\ h.value \in Types \cup {"done"}
    <3>1. CASE Len(g) < Len(w)
      <4>1. h = [field |-> "event", value |-> w[k].type]
        BY <1>7, <1>8, <1>12, <3>1 DEF LinesOf, StreamEvents
      <4> QED
        BY <1>8, <3>1, <4>1 DEF StreamEvents
    <3>2. CASE Len(g) = Len(w)
      BY <1>3, <1>7, <1>12, <3>2 DEF LineSet, Blank
    <3> QED
      BY <1>1, <3>1, <3>2
  <2> DEFINE nx == [ev EXCEPT !.type = h.value]
  <2>2. /\ event' = [event EXCEPT ![s] = nx] /\ UNCHANGED <<streamAt, result>>
    BY <1>3, <2>1 DEF ReadLine, Fill, h, ev
  <2>3. nx \in EventSet /\ nx.type = h.value /\ nx.data = ev.data
    BY <1>1, <2>1 DEF EventSet
  <2> HIDE DEF nx
  <2>4. event'[s] = nx
    BY <2>2 DEF StreamInv, StreamShapes
  <2>5. StreamShapes' /\ \A d \in Streams : d # s => Same(d)
    BY <1>2, <1>3, <2>2, <2>3 DEF StreamInv, StreamShapes, Same
  <2>6. Len(g) < Len(w) => h.value = w[k].type
    BY <1>7, <1>8, <1>12 DEF LinesOf, StreamEvents
  <2>7. Len(g) = Len(w) => ending[s] # "open" /\ (whole[s] => h.value = "done")
    BY <1>7, <1>12, DoneFacts DEF LinesOf
  <2>8. ev.data = NoData
    BY <1>5, <1>12 DEF Assembled, NoEvent
  <2>9. Assembled(1, k, nx, w, ending[s], whole[s])
    BY <1>10, <1>11, <2>3, <2>6, <2>7, <2>8 DEF Assembled
  <2>10. \E i \in 0..2 : /\ Follows(3 * Len(g) + i, Tail(l), w, ending[s], whole[s])
                         /\ Assembled(i, k, nx, w, ending[s], whole[s])
    BY <1>6, <1>12, <2>9
  <2>11. IterPlace(s)'
    BY <1>2, <1>4, <1>9, <2>2, <2>4, <2>10 DEF IterPlace, k
  <2> QED
    BY <2>5, <2>11, OneStream
<1>13. CASE j = 1
  <2>1. h.field = "data" /\ h.value \in Payloads \cup {BadPayload}
    <3>1. CASE Len(g) < Len(w)
      <4>1. h = [field |-> "data", value |-> w[k].data]
        BY <1>7, <1>8, <1>13, <3>1 DEF LinesOf, StreamEvents
      <4> QED
        BY <1>8, <3>1, <4>1 DEF StreamEvents
    <3>2. CASE Len(g) = Len(w)
      BY <1>7, <1>13, <3>2, DoneFacts DEF LinesOf
    <3> QED
      BY <1>1, <3>1, <3>2
  <2> DEFINE nx == [ev EXCEPT !.data = h.value]
  <2>2. /\ event' = [event EXCEPT ![s] = nx] /\ UNCHANGED <<streamAt, result>>
    BY <1>3, <2>1 DEF ReadLine, Fill, h, ev
  <2>3. nx \in EventSet /\ nx.type = ev.type /\ nx.data = h.value
    BY <1>1, <2>1 DEF EventSet
  <2> HIDE DEF nx
  <2>4. event'[s] = nx
    BY <2>2 DEF StreamInv, StreamShapes
  <2>5. StreamShapes' /\ \A d \in Streams : d # s => Same(d)
    BY <1>2, <1>3, <2>2, <2>3 DEF StreamInv, StreamShapes, Same
  <2>6. Len(g) < Len(w) => h.value = w[k].data
    BY <1>7, <1>8, <1>13 DEF LinesOf, StreamEvents
  <2>7. Len(g) = Len(w) => ending[s] # "open" /\ whole[s]
    BY <1>7, <1>13
  <2>8. /\ k <= Len(w) => ev.type = w[k].type
        /\ k > Len(w) /\ whole[s] => ev.type = "done"
    BY <1>5, <1>13 DEF Assembled
  <2>9. Assembled(2, k, nx, w, ending[s], whole[s])
    BY <1>10, <1>11, <2>3, <2>6, <2>7, <2>8 DEF Assembled
  <2>10. \E i \in 0..2 : /\ Follows(3 * Len(g) + i, Tail(l), w, ending[s], whole[s])
                         /\ Assembled(i, k, nx, w, ending[s], whole[s])
    BY <1>6, <1>13, <2>9
  <2>11. IterPlace(s)'
    BY <1>2, <1>4, <1>9, <2>2, <2>4, <2>10 DEF IterPlace, k
  <2> QED
    BY <2>5, <2>11, OneStream
<1>14. CASE j = 2
  <2>1. h = Blank
    <3>1. CASE Len(g) < Len(w)
      BY <1>7, <1>14, <3>1 DEF LinesOf
    <3>2. CASE Len(g) = Len(w)
      BY <1>7, <1>14, <3>2 DEF LinesOf
    <3> QED
      BY <1>1, <3>1, <3>2
  <2>2. EndsEvent(s)
    BY <2>1 DEF ReadLine, h
  <2>3. CASE Len(g) < Len(w)
    <3>1. ev.type = w[k].type /\ ev.data = w[k].data
      BY <1>5, <1>10, <1>14, <2>3 DEF Assembled
    <3>2. ev = w[k]
      BY <1>1, <1>8, <2>3, <3>1 DEF EventSet, StreamEvents
    <3>3. ev.type # "done" /\ ev.data # NoData
      BY <1>8, <2>3, <3>1, StreamAssumption DEF StreamEvents
    <3>4. streamAt' = [streamAt EXCEPT ![s] = "fn"] /\ UNCHANGED <<event, result>>
      BY <2>2, <3>3 DEF EndsEvent, IsDone, ev
    <3>5. StreamShapes' /\ streamAt'[s] = "fn" /\ \A d \in Streams : d # s => Same(d)
      BY <1>2, <1>3, <3>4 DEF StreamInv, StreamShapes, Same
    <3>6. Follows(3 * Len(g) + 3, Tail(l), w, ending[s], whole[s])
      BY <1>6, <1>14
    <3>7. IterPlace(s)'
      BY <1>2, <1>4, <1>9, <2>3, <3>2, <3>4, <3>5, <3>6 DEF IterPlace, k, ev
    <3> QED
      BY <3>5, <3>7, OneStream
  <2>4. CASE Len(g) = Len(w)
    <3>1. ending[s] # "open" /\ ev.type = "done"
      BY <1>5, <1>7, <1>11, <1>14, <2>4 DEF Assembled
    <3>2. /\ streamAt' = [streamAt EXCEPT ![s] = "returned"]
          /\ result' = [result EXCEPT ![s] = "nil"] /\ UNCHANGED event
      BY <2>2, <3>1 DEF EndsEvent, IsDone, Ends, ev
    <3>3. StreamShapes' /\ streamAt'[s] = "returned" /\ \A d \in Streams : d # s => Same(d)
      BY <1>2, <1>3, <3>2 DEF StreamInv, StreamShapes, Same
    <3>4. IterPlace(s)'
      BY <1>2, <1>4, <2>4, <3>1, <3>3 DEF IterPlace
    <3> QED
      BY <3>3, <3>4, OneStream
  <2> QED
    BY <1>1, <2>3, <2>4
<1> QED
  BY <1>12, <1>13, <1>14

\* At the end of the body.
LEMMA ReadEofStep ==
  ASSUME StreamInv, NEW s \in Streams, ReadEof(s)
  PROVE  StreamInv'
<1> DEFINE l == wire[s]
           w == written[s]
           g == given[s]
           ev == event[s]
<1>1. /\ w \in Seq(StreamEvents) /\ Len(g) \in Nat /\ Len(w) \in Nat /\ Len(g) <= Len(w)
      /\ ev \in EventSet
  BY StreamFacts
<1>2. /\ streamAt[s] = "next" /\ l = <<>> /\ ending[s] = "eof"
      /\ UNCHANGED <<wire, ending, whole, written, given, over>>
  BY DEF ReadEof, serverVars
<1>3. IterPlace(s) /\ result[s] = "none"
  BY <1>2 DEF StreamInv, IterPlace
<1>4. PICK j \in 0..2 : /\ Follows(3 * Len(g) + j, l, w, ending[s], whole[s])
                        /\ Assembled(j, Len(g) + 1, ev, w, ending[s], whole[s])
  BY <1>2, <1>3 DEF IterPlace
<1>5. 3 * Len(g) + j >= 3 * Len(w) + (IF whole[s] THEN 3 ELSE 0)
  <2>1. (3 * Len(g) + j) + Len(l) >= 3 * Len(w) + (IF whole[s] THEN 3 ELSE 0) /\ Len(l) = 0
    BY <1>2, <1>4 DEF Follows
  <2>2. \A n \in Nat : ((3 * n) + j) + 0 = (3 * n) + j
    OBVIOUS
  <2> QED
    BY <1>1, <2>1, <2>2
<1>6. Len(g) = Len(w) /\ ~whole[s]
  <2>1. \A m, n \in Nat :
          m <= n => /\ (3 * m) + j >= (3 * n) + 0 => m = n
                    /\ ~((3 * m) + j >= (3 * n) + 3)
    OBVIOUS
  <2>2. CASE whole[s]
    <3>1. (3 * Len(g)) + j >= (3 * Len(w)) + 3
      BY <1>5, <2>2
    <3> QED
      BY <1>1, <2>1, <3>1, Zenon
  <2>3. CASE ~whole[s]
    <3>1. (3 * Len(g)) + j >= (3 * Len(w)) + 0
      BY <1>5, <2>3
    <3> QED
      BY <1>1, <2>1, <2>3, <3>1, Zenon
  <2> QED
    BY <2>2, <2>3
<1>7. j # 2
  BY <1>1, <1>4, <1>6 DEF Assembled
<1>8. ev.data = NoData
  BY <1>4, <1>7 DEF Assembled, NoEvent
<1>9. /\ streamAt' = [streamAt EXCEPT ![s] = "returned"]
      /\ result' = [result EXCEPT ![s] = "nil"] /\ UNCHANGED event
  BY <1>8 DEF ReadEof, Ends, ev
<1>10. StreamShapes' /\ streamAt'[s] = "returned" /\ \A d \in Streams : d # s => Same(d)
  BY <1>2, <1>9 DEF StreamInv, StreamShapes, Same
<1>11. IterPlace(s)'
  BY <1>2, <1>3, <1>6, <1>10 DEF IterPlace
<1> QED
  BY <1>10, <1>11, OneStream

LEMMA ErrorSteps ==
  ASSUME StreamInv, NEW s \in Streams, ReadError(s) \/ DecodeFails(s)
  PROVE  StreamInv'
<1>1. /\ streamAt[s] # "returned" /\ \E how \in {"read", "decode"} : Ends(s, how)
      /\ UNCHANGED <<wire, ending, whole, written, event, given, over>>
  BY DEF ReadError, DecodeFails, serverVars
<1>2. StreamShapes' /\ \A d \in Streams : d # s => Same(d)
  BY <1>1 DEF StreamInv, StreamShapes, Ends, Same
<1>3. streamAt'[s] = "returned" /\ result'[s] # "nil"
  BY <1>1 DEF StreamInv, StreamShapes, Ends
<1>4. IterPlace(s)'
  BY <1>1, <1>3 DEF StreamInv, IterPlace
<1> QED
  BY <1>2, <1>4, OneStream

\* The caller's function gets the next event that was written.
LEMMA CallFnStep ==
  ASSUME StreamInv, NEW s \in Streams, CallFn(s)
  PROVE  StreamInv'
<1> DEFINE w == written[s]
           g == given[s]
           gx == Append(given[s], event[s])
<1>1. /\ w \in Seq(StreamEvents) /\ g \in Seq(StreamEvents)
      /\ Len(g) \in Nat /\ Len(w) \in Nat /\ GivenPrefix(g, w)
  BY StreamFacts
<1>2. /\ streamAt[s] = "fn" /\ given' = [given EXCEPT ![s] = gx]
      /\ UNCHANGED <<wire, ending, whole, written, event, over>>
      /\ \/ streamAt' = [streamAt EXCEPT ![s] = "iter"] /\ UNCHANGED result
         \/ Ends(s, "fn")
  BY DEF CallFn, serverVars
<1>3. /\ Len(g) < Len(w) /\ event[s] = w[Len(g) + 1] /\ result[s] = "none"
      /\ Follows(3 * Len(g) + 3, wire[s], w, ending[s], whole[s])
  BY <1>2 DEF StreamInv, IterPlace
<1>4. event[s] \in StreamEvents
  <2>1. Len(g) + 1 \in 1..Len(w)
    BY <1>1, <1>3
  <2> QED
    BY <1>1, <1>3, <2>1
<1>5. gx \in Seq(StreamEvents) /\ Len(gx) = Len(g) + 1
  BY <1>1, <1>4, AppendProperties
<1>6. gx[Len(g) + 1] = event[s] /\ \A k \in 1..Len(g) : gx[k] = g[k]
  BY <1>1, <1>4, AppendProperties
<1>7. GivenPrefix(gx, w)
  <2>1. Len(gx) <= Len(w)
    BY <1>1, <1>3, <1>5
  <2>2. ASSUME NEW k \in 1..Len(gx) PROVE gx[k] = w[k]
    <3>1. k \in 1..Len(g) \/ k = Len(g) + 1
      BY <1>1, <1>5
    <3> QED
      BY <1>1, <1>3, <1>6, <3>1 DEF GivenPrefix
  <2> QED
    BY <2>1, <2>2 DEF GivenPrefix
<1>8. 3 * Len(gx) = 3 * Len(g) + 3
  BY <1>1, <1>5
<1> HIDE DEF gx
<1>9. StreamShapes' /\ (\A d \in Streams : d # s => Same(d)) /\ given'[s] = gx
  BY <1>2, <1>5 DEF StreamInv, StreamShapes, Ends, Same
<1>10. \/ streamAt'[s] = "iter" /\ result'[s] = result[s]
       \/ streamAt'[s] = "returned" /\ result'[s] = "fn"
  BY <1>2 DEF StreamInv, StreamShapes, Ends
<1>11. Follows(3 * Len(gx), wire[s], w, ending[s], whole[s])
  BY <1>3, <1>8
<1>12. IterPlace(s)'
  BY <1>2, <1>3, <1>7, <1>9, <1>10, <1>11 DEF IterPlace
<1> QED
  BY <1>9, <1>12, OneStream

LEMMA StreamInvStep == StreamInv /\ [StreamNext]_streamVars => StreamInv'
<1> SUFFICES ASSUME StreamInv, [StreamNext]_streamVars PROVE StreamInv'
  OBVIOUS
<1>1. CASE UNCHANGED streamVars
  <2>1. StreamShapes'
    BY <1>1 DEF StreamInv, StreamShapes, streamVars
  <2>2. \A s \in Streams : IterPlace(s)'
    BY <1>1 DEF StreamInv, IterPlace, streamVars
  <2> QED
    BY <2>1, <2>2 DEF StreamInv
<1> QED
  BY <1>1, OpenSteps, WriteEventStep, ServerSteps, IterLoopsStep, ReadLineStep, ReadEofStep,
     ErrorSteps, CallFnStep DEF StreamNext, IterStep

LEMMA StreamInvImplies == StreamInv => IterFaithful /\ StreamTypeOK
<1> SUFFICES ASSUME StreamInv PROVE IterFaithful /\ StreamTypeOK
  OBVIOUS
<1>1. ASSUME NEW s \in Streams
      PROVE  /\ IsPrefix(given[s], written[s])
             /\ result[s] = "nil" => given[s] = written[s] /\ ending[s] # "open"
  <2> DEFINE w == written[s]
             g == given[s]
  <2>1. /\ w \in Seq(StreamEvents) /\ g \in Seq(StreamEvents) /\ Len(g) \in Nat /\ Len(w) \in Nat
        /\ Len(g) <= Len(w) /\ \A k \in 1..Len(g) : g[k] = w[k]
    BY StreamFacts DEF GivenPrefix
  <2>2. IsPrefix(g, w)
    <3>1. SubSeq(g, 1, Len(g)) = SubSeq(w, 1, Len(g))
      BY <2>1
    <3> QED
      BY <2>1, <3>1 DEF IsPrefix
  <2>3. Len(g) = Len(w) => g = w
    BY <2>1, SeqEqual
  <2> QED
    BY <2>2, <2>3 DEF StreamInv, IterPlace
<1>2. ASSUME NEW s \in Streams
      PROVE  /\ \A i \in DOMAIN wire[s] : wire[s][i].field \in {"event", "data", "blank"}
             /\ written[s] \in BoundedSeq(StreamEvents, MaxEvents)
             /\ given[s] \in BoundedSeq(StreamEvents, MaxEvents)
  <2>1. /\ wire[s] \in Seq(LineSet) /\ written[s] \in Seq(StreamEvents) /\ given[s] \in Seq(StreamEvents)
        /\ Len(written[s]) <= MaxEvents /\ Len(given[s]) <= Len(written[s])
        /\ Len(given[s]) \in Nat /\ Len(written[s]) \in Nat
    BY StreamFacts DEF StreamInv, StreamShapes
  <2>2. \A i \in DOMAIN wire[s] : wire[s][i] \in LineSet
    BY <2>1
  <2>3. \A x \in LineSet : x.field \in {"event", "data", "blank"}
    BY DEF LineSet, Blank
  <2>4. Len(written[s]) \in 0..MaxEvents /\ Len(given[s]) \in 0..MaxEvents
    BY <2>1, StreamAssumption
  <2>5. written[s] \in BoundedSeq(StreamEvents, MaxEvents)
    BY <2>1, <2>4, StreamAssumption, BoundedSeqHas
  <2>6. given[s] \in BoundedSeq(StreamEvents, MaxEvents)
    BY <2>1, <2>4, StreamAssumption, BoundedSeqHas
  <2> QED
    BY <2>2, <2>3, <2>5, <2>6
<1> QED
  BY <1>1, <1>2 DEF IterFaithful, StreamTypeOK, StreamInv, StreamShapes, EventSet
-----------------------------------------------------------------------------
(* The WebSocket connection of the SDK                                     *)

\* The last message whose handlers were looked up.
Seen == IF at["reader"] = "locking" THEN message - 1 ELSE message

WsShapes ==
  /\ link \in {"none", "up", "closed", "lost"}
  /\ peerReads \in BOOLEAN /\ done \in BOOLEAN
  /\ arrived \in Seq(Frames) /\ Len(arrived) <= MaxInbound
  /\ inbox \in Seq(Messages)
  /\ handlers \in [WsTypes -> Seq(Handlers)]
  /\ since \in [Handlers -> 0..Never]
  /\ mu \in Goroutines \cup {"free"}
  /\ at \in [Goroutines -> {"idle", "locking", "calling", "sending", "ended"}]
  /\ message \in 0..MaxInbound
  /\ todo \in Seq(Handlers) /\ called \in Seq(Messages \X Handlers)
  /\ sends \in 0..MaxSends

\* What waits to be read is what arrived after the message read last.
InboxRest ==
  /\ Len(arrived) = message + Len(inbox)
  /\ \A i \in 1..Len(inbox) : inbox[i] = message + i

\* readLoop dispatches what it could decode, and has handlers to call only
\* between two messages' dispatches.
LoopPlace ==
  /\ at["reader"] = "locking" => message >= 1 /\ todo = <<>> /\ arrived[message] \in WsTypes
  /\ at["reader"] = "calling" => todo # <<>>
  /\ todo # <<>> => at["reader"] \in {"calling", "sending"} /\ message >= 1

\* The table has every handler once, under its type, in order of registration.
Registered ==
  /\ \A type \in WsTypes : \A i \in 1..Len(handlers[type]) :
       Kind[handlers[type][i]] = type /\ since[handlers[type][i]] # Never
  /\ \A type \in WsTypes : \A i, j \in 1..Len(handlers[type]) :
       i < j => /\ since[handlers[type][i]] <= since[handlers[type][j]]
                /\ handlers[type][i] # handlers[type][j]
  /\ \A h \in Handlers : since[h] # Never =>
       since[h] <= Seen /\ \E i \in 1..Len(handlers[Kind[h]]) : handlers[Kind[h]][i] = h

\* Those still to be called are for this message, in order, and not called yet.
StillToCall ==
  /\ \A i \in 1..Len(todo) : Kind[todo[i]] = arrived[message] /\ since[todo[i]] < message
  /\ \A i, j \in 1..Len(todo) : i < j => since[todo[i]] <= since[todo[j]] /\ todo[i] # todo[j]
  /\ \A i \in 1..Len(todo) : \A k \in 1..Len(called) :
       called[k][1] = message => since[called[k][2]] <= since[todo[i]] /\ called[k][2] # todo[i]

\* The calls cs are for messages as up to seen, by the registrations ss.
CallsRight(as, ss, seen, cs) ==
  \A k \in 1..Len(cs) :
    /\ cs[k][1] <= seen
    /\ as[cs[k][1]] = Kind[cs[k][2]] /\ ss[cs[k][2]] < cs[k][1]

CallsSorted(ss, cs) ==
  \A i, j \in 1..Len(cs) :
    i < j => \/ cs[i][1] < cs[j][1]
             \/ /\ cs[i][1] = cs[j][1]
                /\ ss[cs[i][2]] <= ss[cs[j][2]]
                /\ cs[i][2] # cs[j][2]

CalledInOrder == CallsRight(arrived, since, Seen, called) /\ CallsSorted(since, called)

NoneForgotten ==
  \A n \in 1..Seen : \A h \in Handlers :
    arrived[n] = Kind[h] /\ since[h] < n =>
      \/ \E k \in 1..Len(called) : called[k] = <<n, h>>
      \/ n = message /\ \E i \in 1..Len(todo) : todo[i] = h

LinkInv ==
  WsShapes /\ InboxRest /\ LoopPlace /\ Registered /\ StillToCall /\ CalledInOrder /\ NoneForgotten

-----------------------------------------------------------------------------
LEMMA LinkInvInit == WsInit => LinkInv
<1> SUFFICES ASSUME WsInit PROVE LinkInv
  OBVIOUS
<1> USE WsAssumption DEF WsInit, Goroutines, Never, Messages
<1>1. WsShapes
  <2>1. 0 \in 0..MaxSends /\ 0 \in 0..MaxInbound /\ MaxInbound + 1 \in 0..(MaxInbound + 1)
    OBVIOUS
  <2>2. since \in [Handlers -> 0..Never] /\ handlers \in [WsTypes -> Seq(Handlers)]
    BY <2>1
  <2>3. at \in [Goroutines -> {"idle", "locking", "calling", "sending", "ended"}]
    OBVIOUS
  <2>4. <<>> \in Seq(Frames) /\ <<>> \in Seq(1..MaxInbound) /\ <<>> \in Seq(Handlers)
    OBVIOUS
  <2>5. <<>> \in Seq((1..MaxInbound) \X Handlers) /\ Len(arrived) = 0 /\ 0 <= MaxInbound
    OBVIOUS
  <2>6. mu \in {"reader", "pinger", "user"} \cup {"free"} /\ TRUE \in BOOLEAN /\ FALSE \in BOOLEAN
    OBVIOUS
  <2> HIDE DEF Never
  <2> QED
    BY Zenon, <2>1, <2>2, <2>3, <2>4, <2>5, <2>6 DEF WsShapes
<1>2. InboxRest /\ LoopPlace
  BY DEF InboxRest, LoopPlace
<1>3. Registered
  BY DEF Registered
<1>4. StillToCall /\ CalledInOrder /\ NoneForgotten
  BY DEF StillToCall, CalledInOrder, CallsRight, CallsSorted, NoneForgotten, Seen
<1> QED
  BY <1>1, <1>2, <1>3, <1>4 DEF LinkInv

\* What is known of the parts.
LEMMA LinkTypes ==
  ASSUME LinkInv
  PROVE  /\ message \in Nat /\ message <= MaxInbound /\ MaxInbound \in Nat
         /\ Len(arrived) \in Nat /\ Len(arrived) <= MaxInbound /\ Len(inbox) \in Nat
         /\ Len(todo) \in Nat /\ Len(called) \in Nat
         /\ Len(arrived) = message + Len(inbox) /\ message <= Len(arrived)
         /\ Seen \in Int /\ Seen <= message
BY WsAssumption DEF LinkInv, WsShapes, InboxRest, Seen

LEMMA CalledTypes ==
  ASSUME LinkInv, NEW k \in 1..Len(called)
  PROVE  called[k][1] \in 1..MaxInbound /\ called[k][2] \in Handlers
         /\ called[k] = <<called[k][1], called[k][2]>>
<1>1. called[k] \in Messages \X Handlers
  BY DEF LinkInv, WsShapes
<1> QED
  BY <1>1 DEF Messages

LEMMA TodoTypes ==
  ASSUME LinkInv, NEW i \in 1..Len(todo)
  PROVE  todo[i] \in Handlers
BY DEF LinkInv, WsShapes

\* A step that leaves alone what was read, registered and called.
LEMMA QuietStep ==
  ASSUME LinkInv, WsShapes', LoopPlace',
         UNCHANGED <<arrived, inbox, handlers, since, message, todo, called>>,
         at'["reader"] = "locking" <=> at["reader"] = "locking"
  PROVE  LinkInv'
<1>1. Seen' = Seen
  BY DEF Seen
<1>2. InboxRest' /\ Registered'
  <2>1. InboxRest'
    BY DEF LinkInv, InboxRest
  <2>2. Registered'
    <3>1. Registered
      BY DEF LinkInv
    <3> QED
      BY ONLY <1>1, <3>1, UNCHANGED <<handlers, since>> DEF Registered
  <2> QED
    BY <2>1, <2>2
<1>3. StillToCall'
  BY DEF LinkInv, StillToCall
<1>4. CalledInOrder'
  BY <1>1 DEF LinkInv, CalledInOrder
<1>5. NoneForgotten'
  BY Zenon, <1>1 DEF LinkInv, NoneForgotten
<1> QED
  BY <1>2, <1>3, <1>4, <1>5 DEF LinkInv

LEMMA QuietSteps ==
  ASSUME LinkInv,
         \/ Connect \/ Close \/ LinkLost \/ PeerStalls \/ ReadEnds
         \/ PingTick \/ PingStops \/ UserSends
         \/ \E g \in Goroutines : SendLocks(g) \/ SendReturns(g)
  PROVE  LinkInv'
<1> USE DEF LinkInv, WsShapes, Goroutines
<1>1. UNCHANGED <<arrived, inbox, handlers, since, message, todo, called>>
  BY DEF Connect, Close, LinkLost, PeerStalls, ReadEnds, PingTick, PingStops, UserSends,
         Attempts, SendLocks, SendReturns, linkVars, tableVars, loopVars
<1>2. CASE Connect \/ Close \/ LinkLost \/ PeerStalls
  <2>1. at' = at
    BY <1>2 DEF Connect, Close, LinkLost, PeerStalls
  <2>2. WsShapes'
    BY <1>2 DEF Connect, Close, LinkLost, PeerStalls, tableVars, loopVars
  <2>3. LoopPlace'
    BY <1>1, <2>1 DEF LoopPlace
  <2> QED
    BY <1>1, <2>1, <2>2, <2>3, QuietStep
<1>3. CASE ReadEnds
  <2>1. at["reader"] = "idle" /\ at' = [at EXCEPT !["reader"] = "ended"]
    BY <1>3 DEF ReadEnds, Moves
  <2>2. WsShapes'
    BY <1>3, <2>1 DEF ReadEnds, linkVars, tableVars, loopVars
  <2>3. LoopPlace' /\ (at'["reader"] = "locking" <=> at["reader"] = "locking")
    BY <1>1, <2>1 DEF LoopPlace
  <2> QED
    BY <1>1, <2>2, <2>3, QuietStep
<1>4. CASE PingTick \/ PingStops \/ UserSends
  <2>1. \E g \in {"pinger", "user"}, place \in {"sending", "ended"} : at' = [at EXCEPT ![g] = place]
    BY <1>4 DEF PingTick, PingStops, UserSends, Attempts, Moves
  <2>2. at'["reader"] = at["reader"]
    BY <2>1
  <2>3. sends' \in 0..MaxSends
    BY <1>4, WsAssumption DEF PingTick, PingStops, UserSends, Attempts
  <2>4. at' \in [Goroutines -> {"idle", "locking", "calling", "sending", "ended"}]
    BY <2>1
  <2>5. WsShapes'
    BY <1>4, <2>3, <2>4
       DEF PingTick, PingStops, UserSends, Attempts, linkVars, tableVars, loopVars
  <2>6. LoopPlace'
    BY <1>1, <2>2 DEF LoopPlace
  <2> QED
    BY <1>1, <2>2, <2>5, <2>6, QuietStep
<1>5. ASSUME NEW g \in Goroutines, SendLocks(g) PROVE LinkInv'
  <2>1. at' = at /\ WsShapes'
    BY <1>5 DEF SendLocks, linkVars, tableVars, loopVars
  <2>2. LoopPlace'
    BY <1>1, <2>1 DEF LoopPlace
  <2> QED
    BY <1>1, <2>1, <2>2, QuietStep
<1>6. ASSUME NEW g \in Goroutines, SendReturns(g) PROVE LinkInv'
  <2>1. /\ at[g] = "sending" /\ at' = [at EXCEPT ![g] = AfterSend(g)]
        /\ AfterSend(g) \in {"calling", "idle"}
    BY <1>6 DEF SendReturns, Moves, AfterSend
  <2>2. WsShapes'
    BY <1>6, <2>1 DEF SendReturns, linkVars, tableVars, loopVars
  <2>3. LoopPlace' /\ (at'["reader"] = "locking" <=> at["reader"] = "locking")
    <3>1. CASE g = "reader"
      BY <1>1, <2>1, <3>1 DEF LoopPlace, AfterSend
    <3>2. CASE g # "reader"
      BY <1>1, <2>1, <3>2 DEF LoopPlace
    <3> QED
      BY <3>1, <3>2
  <2> QED
    BY <1>1, <2>2, <2>3, QuietStep
<1> QED
  BY <1>2, <1>3, <1>4, <1>5, <1>6

LEMMA ArrivesStep ==
  ASSUME LinkInv, NEW type \in Frames, Arrives(type)
  PROVE  LinkInv'
<1>1. /\ arrived' = Append(arrived, type) /\ inbox' = Append(inbox, Len(arrived) + 1)
      /\ UNCHANGED <<handlers, since, at, message, todo, called>>
  BY DEF Arrives, tableVars, loopVars
<1>2. Len(arrived) + 1 <= MaxInbound /\ Len(arrived) + 1 \in 1..MaxInbound
  BY LinkTypes DEF Arrives
<1>3. arrived \in Seq(Frames) /\ inbox \in Seq(Messages)
  BY DEF LinkInv, WsShapes
<1>4. /\ arrived' \in Seq(Frames) /\ Len(arrived') = Len(arrived) + 1
      /\ \A n \in 1..Len(arrived) : arrived'[n] = arrived[n]
  BY <1>1, <1>3
<1>5. /\ inbox' \in Seq(Messages) /\ Len(inbox') = Len(inbox) + 1
      /\ \A i \in 1..Len(inbox) : inbox'[i] = inbox[i]
      /\ inbox'[Len(inbox) + 1] = Len(arrived) + 1
  BY <1>1, <1>2, <1>3 DEF Messages
<1>6. Seen' = Seen
  BY <1>1 DEF Seen
<1>7. WsShapes'
  BY <1>2, <1>4, <1>5 DEF Arrives, LinkInv, WsShapes, tableVars, loopVars
<1>8. InboxRest'
  <2>1. Len(arrived') = message' + Len(inbox')
    <3>1. message' = message /\ Len(arrived') = Len(arrived) + 1 /\ Len(inbox') = Len(inbox) + 1
      BY <1>1, <1>4, <1>5
    <3>2. /\ Len(arrived) = message + Len(inbox)
          /\ Len(arrived) \in Nat /\ Len(inbox) \in Nat /\ message \in Nat
      BY LinkTypes
    <3> QED
      BY <3>1, <3>2
  <2>2. ASSUME NEW i \in 1..Len(inbox') PROVE inbox'[i] = message' + i
    <3>1. i \in 1..Len(inbox) \/ i = Len(inbox) + 1
      BY <1>5, LinkTypes
    <3>2. CASE i \in 1..Len(inbox)
      BY <1>1, <1>5, <3>2 DEF LinkInv, InboxRest
    <3>3. CASE i = Len(inbox) + 1
      BY <1>1, <1>5, <3>3, LinkTypes
    <3> QED
      BY <3>1, <3>2, <3>3
  <2> QED
    BY <2>1, <2>2 DEF InboxRest
<1>9. LoopPlace' /\ Registered'
  <2>1. at["reader"] = "locking" => arrived'[message] = arrived[message]
    <3> SUFFICES ASSUME at["reader"] = "locking" PROVE arrived'[message] = arrived[message]
      OBVIOUS
    <3>1. message \in 1..Len(arrived)
      BY LinkTypes DEF LinkInv, LoopPlace
    <3> QED
      BY <3>1, <1>4
  <2>2. LoopPlace'
    <3>1. LoopPlace
      BY DEF LinkInv
    <3>2. at' = at /\ message' = message /\ todo' = todo
      BY <1>1
    <3>3. at["reader"] = "locking" => arrived'[message] \in WsTypes
      BY <2>1, <3>1 DEF LoopPlace
    <3> QED
      BY <3>1, <3>2, <3>3 DEF LoopPlace
  <2>3. Registered'
    <3>1. Registered
      BY DEF LinkInv
    <3>2. handlers' = handlers /\ since' = since
      BY <1>1
    <3> QED
      BY <1>6, <3>1, <3>2 DEF Registered
  <2> QED
    BY <2>2, <2>3
<1>10. StillToCall'
  <2>1. ASSUME NEW i \in 1..Len(todo) PROVE arrived'[message] = arrived[message]
    <3>1. todo # <<>>
      BY LinkTypes
    <3>2. message \in 1..Len(arrived)
      BY <3>1, LinkTypes DEF LinkInv, LoopPlace
    <3> QED
      BY <3>2, <1>4
  <2> QED
    BY <2>1, <1>1 DEF LinkInv, StillToCall
<1>11. CalledInOrder'
  <2>1. ASSUME NEW k \in 1..Len(called) PROVE arrived'[called[k][1]] = arrived[called[k][1]]
    <3>1. called[k][1] \in 1..MaxInbound /\ called[k][1] <= Seen
      BY CalledTypes DEF LinkInv, CalledInOrder, CallsRight, CallsSorted
    <3>2. called[k][1] \in 1..Len(arrived)
      BY <3>1, LinkTypes
    <3> QED
      BY <3>2, <1>4
  <2>2. \A k \in 1..Len(called) :
          /\ called[k][1] <= Seen
          /\ arrived'[called[k][1]] = Kind[called[k][2]] /\ since[called[k][2]] < called[k][1]
    BY <2>1 DEF LinkInv, CalledInOrder, CallsRight, CallsSorted
  <2>3. CallsRight(arrived', since, Seen, called)
    BY <2>2 DEF CallsRight
  <2> QED
    BY <2>3, <1>1, <1>6 DEF LinkInv, CalledInOrder
<1>12. NoneForgotten'
  <2>1. ASSUME NEW n \in 1..Seen PROVE arrived'[n] = arrived[n]
    <3>1. n \in 1..Len(arrived)
      BY LinkTypes
    <3> QED
      BY <3>1, <1>4
  <2> QED
    BY <2>1, <1>1, <1>6 DEF LinkInv, NoneForgotten
<1> QED
  BY <1>7, <1>8, <1>9, <1>10, <1>11, <1>12 DEF LinkInv

\* A handler that is registered now is neither called nor to be called.
LEMMA OnStep ==
  ASSUME LinkInv, NEW h \in Handlers, On(h)
  PROVE  LinkInv'
<1>1. /\ since[h] = Never
      /\ handlers' = [handlers EXCEPT ![Kind[h]] = Append(@, h)]
      /\ since' = [since EXCEPT ![h] = Seen]
      /\ UNCHANGED <<link, peerReads, arrived, inbox, mu, done, at, message, todo, called, sends>>
  BY DEF On, Seen, linkVars, loopVars
<1>2. /\ handlers \in [WsTypes -> Seq(Handlers)] /\ since \in [Handlers -> 0..Never]
      /\ Kind \in [Handlers -> WsTypes]
  BY WsAssumption DEF LinkInv, WsShapes
<1>3. Seen' = Seen /\ Seen # Never /\ Seen \in 0..Never
  <2>1. Seen >= 0
    BY LinkTypes DEF Seen, LinkInv, LoopPlace
  <2> QED
    BY <1>1, <2>1, LinkTypes DEF Seen, Never
<1>4. /\ \A x \in Handlers : x # h => since'[x] = since[x]
      /\ since'[h] = Seen
  BY <1>1, <1>2
<1>5. /\ handlers'[Kind[h]] = Append(handlers[Kind[h]], h)
      /\ \A type \in WsTypes : type # Kind[h] => handlers'[type] = handlers[type]
  BY <1>1, <1>2
<1>6. Kind[h] \in WsTypes /\ handlers[Kind[h]] \in Seq(Handlers)
  BY <1>2
<1> DEFINE old == handlers[Kind[h]]
           new == handlers'[Kind[h]]
<1>7. /\ new \in Seq(Handlers) /\ Len(new) = Len(old) + 1 /\ new[Len(old) + 1] = h
      /\ \A i \in 1..Len(old) : new[i] = old[i]
      /\ Len(old) \in Nat
  BY <1>5, <1>6
<1>8. handlers' \in [WsTypes -> Seq(Handlers)] /\ since' \in [Handlers -> 0..Never]
  BY <1>1, <1>2, <1>3
<1>9. WsShapes'
  BY <1>1, <1>8 DEF LinkInv, WsShapes
<1>10. InboxRest' /\ LoopPlace'
  BY <1>1 DEF LinkInv, InboxRest, LoopPlace
<1>11. \A i \in 1..Len(old) : /\ Kind[old[i]] = Kind[h] /\ old[i] \in Handlers
                              /\ since[old[i]] # Never /\ old[i] # h /\ since[old[i]] <= Seen
  BY <1>1, <1>6 DEF LinkInv, Registered
<1>12. \A type \in WsTypes : type # Kind[h] =>
         \A i \in 1..Len(handlers[type]) : handlers[type][i] \in Handlers /\ handlers[type][i] # h
  BY <1>2 DEF LinkInv, Registered
<1> HIDE DEF old, new
<1>13. ASSUME NEW i \in 1..Len(new) PROVE i \in 1..Len(old) \/ i = Len(old) + 1
  BY <1>7
<1>14. \A type \in WsTypes : \A i \in 1..Len(handlers'[type]) :
         Kind[handlers'[type][i]] = type /\ since'[handlers'[type][i]] # Never
  <2>1. ASSUME NEW i \in 1..Len(new) PROVE Kind[new[i]] = Kind[h] /\ since'[new[i]] # Never
    BY <1>3, <1>4, <1>7, <1>11, <1>13
  <2>2. ASSUME NEW type \in WsTypes, type # Kind[h], NEW i \in 1..Len(handlers'[type])
        PROVE  Kind[handlers'[type][i]] = type /\ since'[handlers'[type][i]] # Never
    BY <2>2, <1>4, <1>5, <1>12 DEF LinkInv, Registered
  <2> QED
    BY <2>1, <2>2 DEF new
<1>15. \A type \in WsTypes : \A i, j \in 1..Len(handlers'[type]) :
         i < j => /\ since'[handlers'[type][i]] <= since'[handlers'[type][j]]
                  /\ handlers'[type][i] # handlers'[type][j]
  <2>1. ASSUME NEW i \in 1..Len(new), NEW j \in 1..Len(new), i < j
        PROVE  since'[new[i]] <= since'[new[j]] /\ new[i] # new[j]
    <3>1. i \in 1..Len(old) /\ (j \in 1..Len(old) \/ j = Len(old) + 1)
      BY <2>1, <1>7
    <3>2. CASE j \in 1..Len(old)
      <4>1. new[i] = old[i] /\ new[j] = old[j]
        BY <3>1, <3>2, <1>7
      <4>2. since'[old[i]] = since[old[i]] /\ since'[old[j]] = since[old[j]]
        BY <3>1, <3>2, <1>4, <1>11
      <4>3. since[old[i]] <= since[old[j]] /\ old[i] # old[j]
        BY <3>1, <3>2, <2>1, <1>6 DEF LinkInv, Registered, old
      <4> QED
        BY <4>1, <4>2, <4>3
    <3>3. CASE j = Len(old) + 1
      BY <3>1, <3>3, <1>4, <1>7, <1>11
    <3> QED
      BY <3>1, <3>2, <3>3
  <2>2. ASSUME NEW type \in WsTypes, type # Kind[h]
        PROVE  \A i, j \in 1..Len(handlers'[type]) :
                 i < j => /\ since'[handlers'[type][i]] <= since'[handlers'[type][j]]
                          /\ handlers'[type][i] # handlers'[type][j]
    BY <2>2, <1>4, <1>5, <1>12 DEF LinkInv, Registered
  <2> QED
    BY <2>1, <2>2 DEF new
<1>16. ASSUME NEW x \in Handlers, since'[x] # Never
       PROVE  since'[x] <= Seen /\ \E i \in 1..Len(handlers'[Kind[x]]) : handlers'[Kind[x]][i] = x
  <2>1. CASE x = h
    <3>1. Len(old) + 1 \in 1..Len(new) /\ new[Len(old) + 1] = x
      BY <1>7, <2>1
    <3> QED
      BY <2>1, <3>1, <1>3, <1>4 DEF new
  <2>2. CASE x # h
    <3>1. since'[x] = since[x] /\ since[x] # Never
      BY <1>4, <1>16, <2>2
    <3>2. PICK i \in 1..Len(handlers[Kind[x]]) : handlers[Kind[x]][i] = x
      BY <3>1 DEF LinkInv, Registered
    <3>3. since[x] <= Seen
      BY <3>1 DEF LinkInv, Registered
    <3>4. CASE Kind[x] = Kind[h]
      <4>1. i \in 1..Len(old) /\ old[i] = x
        BY <3>2, <3>4 DEF old
      <4>2. i \in 1..Len(new) /\ new[i] = x
        BY <4>1, <1>7
      <4> QED
        BY <3>1, <3>3, <3>4, <4>2 DEF new
    <3>5. CASE Kind[x] # Kind[h]
      BY <3>1, <3>2, <3>3, <3>5, <1>2, <1>5
    <3> QED
      BY <3>4, <3>5
  <2> QED
    BY <2>1, <2>2
<1>17. Registered'
  BY <1>3, <1>14, <1>15, <1>16 DEF Registered
<1>18. \A i \in 1..Len(todo) : todo[i] \in Handlers /\ since'[todo[i]] = since[todo[i]]
  <2> SUFFICES ASSUME NEW i \in 1..Len(todo) PROVE todo[i] \in Handlers /\ since'[todo[i]] = since[todo[i]]
    OBVIOUS
  <2>1. todo[i] \in Handlers /\ since[todo[i]] < message
    BY TodoTypes DEF LinkInv, StillToCall
  <2>2. todo[i] # h
    BY <2>1, <1>1, LinkTypes DEF Never
  <2> QED
    BY <2>1, <2>2, <1>4
<1>19. \A k \in 1..Len(called) : since'[called[k][2]] = since[called[k][2]]
  <2> SUFFICES ASSUME NEW k \in 1..Len(called) PROVE since'[called[k][2]] = since[called[k][2]]
    OBVIOUS
  <2>1. /\ called[k][1] \in 1..MaxInbound /\ called[k][2] \in Handlers
        /\ since[called[k][2]] < called[k][1]
    BY CalledTypes DEF LinkInv, CalledInOrder, CallsRight, CallsSorted
  <2>2. called[k][2] # h
    BY <2>1, <1>1, LinkTypes DEF Never
  <2> QED
    BY <2>1, <2>2, <1>4
<1>20. StillToCall'
  BY <1>1, <1>18, <1>19 DEF LinkInv, StillToCall
<1>21. CalledInOrder'
  BY <1>1, <1>3, <1>19 DEF LinkInv, CalledInOrder, CallsRight, CallsSorted
<1>22. NoneForgotten'
  <2> SUFFICES ASSUME NEW n \in 1..Seen, NEW x \in Handlers, arrived[n] = Kind[x], since'[x] < n
               PROVE  \/ \E k \in 1..Len(called) : called[k] = <<n, x>>
                      \/ n = message /\ \E i \in 1..Len(todo) : todo[i] = x
    BY <1>1, <1>3 DEF NoneForgotten
  <2>1. x # h
    BY <1>4, <1>3
  <2>2. since[x] < n
    BY <2>1, <1>4
  <2> QED
    BY <2>2 DEF LinkInv, NoneForgotten
<1> QED
  BY <1>9, <1>10, <1>17, <1>20, <1>21, <1>22 DEF LinkInv

LEMMA ReadsStep ==
  ASSUME LinkInv, Reads
  PROVE  LinkInv'
<1>1. /\ at["reader"] = "idle" /\ inbox # <<>> /\ arrived[Head(inbox)] # Garbled
      /\ message' = Head(inbox) /\ inbox' = Tail(inbox)
      /\ at' = [at EXCEPT !["reader"] = "locking"]
      /\ UNCHANGED <<link, peerReads, arrived, handlers, since, mu, done, todo, called, sends>>
  BY DEF Reads, Undecodable, Moves, tableVars
<1>2. /\ inbox \in Seq(Messages)
      /\ at \in [Goroutines -> {"idle", "locking", "calling", "sending", "ended"}]
  BY DEF LinkInv, WsShapes
<1>3. at' \in [Goroutines -> {"idle", "locking", "calling", "sending", "ended"}] /\ at'["reader"] = "locking"
  BY <1>1, <1>2 DEF Goroutines
<1>4. /\ Len(inbox) >= 1 /\ inbox' \in Seq(Messages) /\ Len(inbox') = Len(inbox) - 1
      /\ message' = inbox[1] /\ \A i \in 1..Len(inbox') : inbox'[i] = inbox[i + 1]
  BY <1>1, <1>2, LinkTypes
<1>5. message' = message + 1 /\ message' \in 1..MaxInbound
  <2>1. 1 \in 1..Len(inbox)
    BY <1>4, LinkTypes
  <2>2. message' = message + 1
    BY <2>1, <1>4 DEF LinkInv, InboxRest
  <2>3. message + 1 <= Len(arrived)
    BY <1>4, LinkTypes
  <2> QED
    BY <2>2, <2>3, LinkTypes
<1>6. Seen = message /\ Seen' = message
  BY <1>1, <1>3, <1>5, LinkTypes DEF Seen
<1>7. todo = <<>>
  BY <1>1 DEF LinkInv, LoopPlace
<1>8. WsShapes'
  <2>1. message' \in 0..MaxInbound
    BY <1>5, LinkTypes
  <2> QED
    BY <2>1, <1>1, <1>3, <1>4 DEF LinkInv, WsShapes
<1>9. InboxRest'
  <2>1. Len(arrived') = message' + Len(inbox')
    BY <1>1, <1>4, <1>5, LinkTypes
  <2>2. ASSUME NEW i \in 1..Len(inbox') PROVE inbox'[i] = message' + i
    <3>1. i + 1 \in 1..Len(inbox) /\ i \in Nat
      BY <1>4, LinkTypes
    <3>2. inbox[i + 1] = message + (i + 1)
      BY <3>1 DEF LinkInv, InboxRest
    <3> QED
      BY <3>1, <3>2, <1>4, <1>5, LinkTypes
  <2> QED
    BY <2>1, <2>2 DEF InboxRest
<1>10. LoopPlace'
  <2>1. message' \in 1..Len(arrived) /\ arrived \in Seq(Frames)
    BY <1>4, <1>5, LinkTypes DEF LinkInv, WsShapes
  <2>2. arrived[message'] \in WsTypes
    BY <1>1, <2>1 DEF Frames
  <2> QED
    BY <1>1, <1>3, <1>5, <1>7, <2>2 DEF LoopPlace
<1>11. Registered'
  BY <1>1, <1>6 DEF LinkInv, Registered
<1>12. StillToCall'
  BY <1>1, <1>7 DEF StillToCall
<1>13. CalledInOrder'
  BY <1>1, <1>6 DEF LinkInv, CalledInOrder
<1>14. NoneForgotten'
  <2> SUFFICES ASSUME NEW n \in 1..Seen, NEW h \in Handlers, arrived[n] = Kind[h], since[h] < n
               PROVE  \E k \in 1..Len(called) : called[k] = <<n, h>>
    BY <1>1, <1>6 DEF NoneForgotten
  <2>1. ~ \E i \in 1..Len(todo) : todo[i] = h
    BY <1>7
  <2> QED
    BY <2>1 DEF LinkInv, NoneForgotten
<1> QED
  BY <1>8, <1>9, <1>10, <1>11, <1>12, <1>13, <1>14 DEF LinkInv

\* The copy that dispatch takes is of the handlers registered before.
LEMMA DispatchStep ==
  ASSUME LinkInv, Dispatch
  PROVE  LinkInv'
<1>1. /\ at["reader"] = "locking"
      /\ todo' = handlers[arrived[message]]
      /\ at' = [at EXCEPT !["reader"] = IF todo' = <<>> THEN "idle" ELSE "calling"]
      /\ UNCHANGED <<link, peerReads, arrived, inbox, handlers, since, mu, done, message, called, sends>>
  BY DEF Dispatch, Moves, linkVars, tableVars
<1>2. /\ handlers \in [WsTypes -> Seq(Handlers)] /\ arrived \in Seq(Frames)
      /\ since \in [Handlers -> 0..Never]
      /\ at \in [Goroutines -> {"idle", "locking", "calling", "sending", "ended"}]
  BY DEF LinkInv, WsShapes
<1>3. message \in 1..Len(arrived) /\ message >= 1
  BY <1>1, LinkTypes DEF LinkInv, LoopPlace
<1>4. arrived[message] \in WsTypes /\ todo' \in Seq(Handlers)
  <2>1. arrived[message] \in WsTypes
    BY <1>1 DEF LinkInv, LoopPlace
  <2> QED
    BY <1>1, <1>2, <2>1
<1>5. /\ at' \in [Goroutines -> {"idle", "locking", "calling", "sending", "ended"}]
      /\ at'["reader"] = IF todo' = <<>> THEN "idle" ELSE "calling"
  BY <1>1, <1>2 DEF Goroutines
<1>6. Seen = message - 1 /\ Seen' = message
  BY <1>1, <1>5 DEF Seen
<1>7. \A i \in 1..Len(todo') : /\ todo'[i] \in Handlers
                               /\ Kind[todo'[i]] = arrived[message] /\ since[todo'[i]] < message
  <2> SUFFICES ASSUME NEW i \in 1..Len(todo')
               PROVE  /\ todo'[i] \in Handlers
                      /\ Kind[todo'[i]] = arrived[message] /\ since[todo'[i]] < message
    OBVIOUS
  <2>1. todo'[i] \in Handlers /\ since[todo'[i]] \in Int
    BY <1>2, <1>4
  <2>2. Kind[todo'[i]] = arrived[message] /\ since[todo'[i]] # Never
    BY <1>1, <1>4 DEF LinkInv, Registered
  <2>3. since[todo'[i]] <= Seen
    BY <2>1, <2>2 DEF LinkInv, Registered
  <2> QED
    BY <2>1, <2>2, <2>3, <1>6, LinkTypes
<1>8. WsShapes'
  BY <1>1, <1>4, <1>5 DEF LinkInv, WsShapes
<1>9. InboxRest'
  BY <1>1 DEF LinkInv, InboxRest
<1>10. LoopPlace'
  BY <1>1, <1>3, <1>5 DEF LoopPlace
<1>11. Registered'
  <2>1. \A h \in Handlers : since[h] # Never => since[h] <= message
    <3> SUFFICES ASSUME NEW h \in Handlers, since[h] # Never PROVE since[h] <= message
      OBVIOUS
    <3>1. since[h] <= Seen /\ since[h] \in Int
      BY <1>2 DEF LinkInv, Registered
    <3> QED
      BY <3>1, <1>6, LinkTypes
  <2> QED
    BY <1>1, <1>6, <2>1 DEF LinkInv, Registered
<1>12. \A k \in 1..Len(called) : called[k][1] <= message /\ called[k][1] # message
  <2> SUFFICES ASSUME NEW k \in 1..Len(called) PROVE called[k][1] <= message /\ called[k][1] # message
    OBVIOUS
  <2>1. called[k][1] \in 1..MaxInbound /\ called[k][1] <= Seen
    BY CalledTypes DEF LinkInv, CalledInOrder, CallsRight, CallsSorted
  <2> QED
    BY <2>1, <1>6, LinkTypes
<1>13. StillToCall'
  <2>1. \A i, j \in 1..Len(todo') : i < j => since[todo'[i]] <= since[todo'[j]] /\ todo'[i] # todo'[j]
    BY <1>1, <1>4 DEF LinkInv, Registered
  <2> QED
    BY <2>1, <1>1, <1>7, <1>12 DEF StillToCall
<1>14. CalledInOrder'
  <2>1. \A k \in 1..Len(called) :
          /\ called[k][1] <= message
          /\ arrived[called[k][1]] = Kind[called[k][2]] /\ since[called[k][2]] < called[k][1]
    BY <1>12 DEF LinkInv, CalledInOrder, CallsRight, CallsSorted
  <2>2. CallsRight(arrived, since, message, called)
    BY <2>1 DEF CallsRight
  <2> QED
    BY <2>2, <1>1, <1>6 DEF LinkInv, CalledInOrder
<1>15. NoneForgotten'
  <2> SUFFICES ASSUME NEW n \in 1..message, NEW h \in Handlers, arrived[n] = Kind[h], since[h] < n
               PROVE  \/ \E k \in 1..Len(called) : called[k] = <<n, h>>
                      \/ n = message /\ \E i \in 1..Len(todo') : todo'[i] = h
    BY <1>1, <1>6 DEF NoneForgotten
  <2>1. CASE n = message
    <3>1. since[h] # Never
      BY <2>1, LinkTypes DEF Never
    <3>2. \E i \in 1..Len(handlers[Kind[h]]) : handlers[Kind[h]][i] = h
      BY <3>1 DEF LinkInv, Registered
    <3> QED
      BY <2>1, <3>2, <1>1
  <2>2. CASE n # message
    <3>1. n \in 1..Seen
      BY <2>2, <1>6, LinkTypes
    <3> QED
      BY <2>2, <3>1 DEF LinkInv, NoneForgotten
  <2> QED
    BY <2>1, <2>2
<1> QED
  BY <1>8, <1>9, <1>10, <1>11, <1>13, <1>14, <1>15 DEF LinkInv

LEMMA CallHandlerStep ==
  ASSUME LinkInv, CallHandler
  PROVE  LinkInv'
<1>1. /\ at["reader"] = "calling"
      /\ called' = Append(called, <<message, Head(todo)>>) /\ todo' = Tail(todo)
      /\ UNCHANGED <<link, peerReads, arrived, inbox, handlers, since, mu, done, message, sends>>
  BY DEF CallHandler, linkVars, tableVars
<1>2. PICK place \in {"sending", IF todo' = <<>> THEN "idle" ELSE "calling"} :
        at' = [at EXCEPT !["reader"] = place]
  BY DEF CallHandler, Moves
<1>3. /\ todo \in Seq(Handlers) /\ called \in Seq(Messages \X Handlers)
      /\ at \in [Goroutines -> {"idle", "locking", "calling", "sending", "ended"}]
      /\ since \in [Handlers -> 0..Never]
  BY DEF LinkInv, WsShapes
<1>4. /\ at' \in [Goroutines -> {"idle", "locking", "calling", "sending", "ended"}]
      /\ at'["reader"] = place
  BY <1>2, <1>3 DEF Goroutines
<1>5. todo # <<>> /\ message \in 1..MaxInbound /\ message \in 1..Len(arrived)
  BY <1>1, LinkTypes DEF LinkInv, LoopPlace
<1>6. Seen = message /\ Seen' = message
  BY <1>1, <1>2, <1>4 DEF Seen
<1> DEFINE h == Head(todo)
           last == Len(called) + 1
<1>7. /\ h \in Handlers /\ h = todo[1] /\ 1 \in 1..Len(todo)
      /\ todo' \in Seq(Handlers) /\ Len(todo') = Len(todo) - 1
      /\ \A i \in 1..Len(todo') : todo'[i] = todo[i + 1] /\ i + 1 \in 1..Len(todo) /\ 1 < i + 1
  BY <1>1, <1>3, <1>5, LinkTypes
<1>8. <<message, h>> \in Messages \X Handlers
  BY <1>5, <1>7 DEF Messages
<1>9. /\ called' \in Seq(Messages \X Handlers) /\ Len(called') = last /\ last \in Nat
      /\ called'[last] = <<message, h>>
      /\ \A k \in 1..Len(called) : called'[k] = called[k]
      /\ \A k \in 1..Len(called') : k \in 1..Len(called) \/ k = last
      /\ \A k \in 1..Len(called) : k \in 1..Len(called') /\ k < last
  BY <1>1, <1>3, <1>8
<1>10. last \in 1..Len(called')
  BY <1>9
<1>11. /\ Kind[h] = arrived[message] /\ since[h] < message
       /\ \A k \in 1..Len(called) :
            /\ called[k][1] <= message
            /\ called[k][1] = message => since[called[k][2]] <= since[h] /\ called[k][2] # h
       /\ \A i \in 1..Len(todo) : 1 < i => since[h] <= since[todo[i]] /\ h # todo[i]
  BY <1>6, <1>7 DEF LinkInv, StillToCall, CalledInOrder, CallsRight, CallsSorted
<1> HIDE DEF h, last
<1>12. WsShapes'
  BY <1>1, <1>4, <1>7, <1>9 DEF LinkInv, WsShapes
<1>13. InboxRest' /\ Registered'
  BY <1>1, <1>6 DEF LinkInv, InboxRest, Registered
<1>14. LoopPlace'
  BY <1>1, <1>2, <1>4, <1>5 DEF LoopPlace
<1>15. StillToCall'
  <2>1. \A i \in 1..Len(todo') : Kind[todo'[i]] = arrived[message] /\ since[todo'[i]] < message
    <3> SUFFICES ASSUME NEW i \in 1..Len(todo')
                 PROVE  Kind[todo'[i]] = arrived[message] /\ since[todo'[i]] < message
      OBVIOUS
    <3>1. i + 1 \in 1..Len(todo) /\ todo'[i] = todo[i + 1]
      BY <1>7
    <3>2. \A j \in 1..Len(todo) : Kind[todo[j]] = arrived[message] /\ since[todo[j]] < message
      BY DEF LinkInv, StillToCall
    <3> QED
      BY Zenon, <3>1, <3>2
  <2>2. ASSUME NEW i \in 1..Len(todo'), NEW j \in 1..Len(todo'), i < j
        PROVE  since[todo'[i]] <= since[todo'[j]] /\ todo'[i] # todo'[j]
    <3>1. i + 1 < j + 1
      BY <2>2
    <3>2. /\ i + 1 \in 1..Len(todo) /\ j + 1 \in 1..Len(todo)
          /\ todo'[i] = todo[i + 1] /\ todo'[j] = todo[j + 1]
      BY <1>7
    <3>3. \A a, b \in 1..Len(todo) : a < b => since[todo[a]] <= since[todo[b]] /\ todo[a] # todo[b]
      BY DEF LinkInv, StillToCall
    <3> QED
      BY <3>1, <3>2, <3>3
  <2>3. ASSUME NEW i \in 1..Len(todo'), NEW k \in 1..Len(called'), called'[k][1] = message
        PROVE  since[called'[k][2]] <= since[todo'[i]] /\ called'[k][2] # todo'[i]
    <3>1. CASE k \in 1..Len(called)
      BY <2>3, <3>1, <1>7, <1>9 DEF LinkInv, StillToCall
    <3>2. CASE k = last
      BY <3>2, <1>7, <1>9, <1>11
    <3> QED
      BY <3>1, <3>2, <1>9
  <2> QED
    BY <2>1, <2>2, <2>3, <1>1 DEF StillToCall
<1>16. CalledInOrder'
  <2>1. ASSUME NEW k \in 1..Len(called')
        PROVE  /\ called'[k][1] <= message
               /\ arrived[called'[k][1]] = Kind[called'[k][2]] /\ since[called'[k][2]] < called'[k][1]
    <3>1. CASE k \in 1..Len(called)
      BY <3>1, <1>9, <1>11 DEF LinkInv, CalledInOrder, CallsRight, CallsSorted
    <3>2. CASE k = last
      BY <3>2, <1>5, <1>9, <1>11
    <3> QED
      BY <3>1, <3>2, <1>9
  <2>2. ASSUME NEW i \in 1..Len(called'), NEW j \in 1..Len(called'), i < j
        PROVE  \/ called'[i][1] < called'[j][1]
               \/ /\ called'[i][1] = called'[j][1]
                  /\ since[called'[i][2]] <= since[called'[j][2]]
                  /\ called'[i][2] # called'[j][2]
    <3>1. i \in 1..Len(called)
      BY <2>2, <1>9
    <3>2. CASE j \in 1..Len(called)
      BY <2>2, <3>1, <3>2, <1>9 DEF LinkInv, CalledInOrder, CallsRight, CallsSorted
    <3>3. CASE j = last
      <4>1. called'[i] = called[i] /\ called'[j][1] = message /\ called'[j][2] = h
        BY <3>1, <3>3, <1>9
      <4>2. called[i][1] \in Int /\ message \in Int /\ called[i][1] <= message
        BY <3>1, <1>11, CalledTypes, LinkTypes
      <4>3. called[i][1] = message => since[called[i][2]] <= since[h] /\ called[i][2] # h
        BY <3>1, <1>11
      <4> QED
        BY <4>1, <4>2, <4>3
    <3> QED
      BY <3>2, <3>3, <1>9
  <2>3. CallsRight(arrived, since, message, called') /\ CallsSorted(since, called')
    BY <2>1, <2>2 DEF CallsRight, CallsSorted
  <2> QED
    BY <2>3, <1>1, <1>6 DEF CalledInOrder
<1>17. NoneForgotten'
  <2> SUFFICES ASSUME NEW n \in 1..message, NEW x \in Handlers, arrived[n] = Kind[x], since[x] < n
               PROVE  \/ \E k \in 1..Len(called') : called'[k] = <<n, x>>
                      \/ n = message /\ \E i \in 1..Len(todo') : todo'[i] = x
    BY <1>1, <1>6 DEF NoneForgotten
  <2>1. CASE \E k \in 1..Len(called) : called[k] = <<n, x>>
    BY <2>1, <1>9
  <2>2. CASE n = message /\ \E i \in 1..Len(todo) : todo[i] = x
    <3>1. PICK i \in 1..Len(todo) : todo[i] = x
      BY <2>2
    <3>2. CASE i = 1
      BY <2>2, <3>1, <3>2, <1>7, <1>9, <1>10
    <3>3. CASE i # 1
      <4>1. i - 1 \in 1..Len(todo') /\ (i - 1) + 1 = i
        BY <3>3, <1>7, LinkTypes
      <4>2. todo'[i - 1] = x
        BY <3>1, <4>1, <1>7
      <4> QED
        BY <2>2, <4>1, <4>2
    <3> QED
      BY <3>2, <3>3
  <2> QED
    BY <2>1, <2>2, <1>6 DEF LinkInv, NoneForgotten
<1> QED
  BY <1>12, <1>13, <1>14, <1>15, <1>16, <1>17 DEF LinkInv

LEMMA LinkInvStep == LinkInv /\ [WsNext]_wsVars => LinkInv'
<1> SUFFICES ASSUME LinkInv, [WsNext]_wsVars PROVE LinkInv'
  OBVIOUS
<1>1. CASE UNCHANGED wsVars
  <2>1. WsShapes' /\ LoopPlace'
    BY <1>1 DEF wsVars, LinkInv, WsShapes, LoopPlace
  <2> QED
    BY <1>1, <2>1, QuietStep DEF wsVars
<1> QED
  BY Zenon, <1>1, QuietSteps, ArrivesStep, OnStep, ReadsStep, DispatchStep, CallHandlerStep
     DEF WsNext, ReaderStep

LEMMA LinkInvImplies == LinkInv => HandlersFaithful /\ WsTypeOK
<1> SUFFICES ASSUME LinkInv PROVE HandlersFaithful /\ WsTypeOK
  OBVIOUS
<1>1. called \in Seq(Messages \X Handlers) /\ DOMAIN called = 1..Len(called)
  BY DEF LinkInv, WsShapes
<1>2. ASSUME NEW n \in DOMAIN arrived, NEW h \in Handlers, <<n, h>> \in ToSet(called)
      PROVE  arrived[n] = Kind[h] /\ since[h] < n
  <2>1. PICK k \in 1..Len(called) : called[k] = <<n, h>>
    BY <1>1, <1>2 DEF ToSet
  <2>2. called[k][1] = n /\ called[k][2] = h
    BY <2>1
  <2> QED
    BY <2>2 DEF LinkInv, CalledInOrder, CallsRight, CallsSorted
<1>3. ASSUME NEW n \in DOMAIN arrived, NEW h \in Handlers, Past(n), arrived[n] = Kind[h], since[h] < n
      PROVE  <<n, h>> \in ToSet(called)
  <2>1. n \in 1..Len(arrived)
    BY DEF LinkInv, WsShapes
  <2>2. n \in 1..Seen
    BY <1>3, <2>1, LinkTypes DEF Past, Seen
  <2>3. ~(n = message /\ \E i \in 1..Len(todo) : todo[i] = h)
    BY <1>3, LinkTypes DEF Past
  <2>4. PICK k \in 1..Len(called) : called[k] = <<n, h>>
    BY <1>3, <2>2, <2>3 DEF LinkInv, NoneForgotten
  <2> QED
    BY <2>4, <1>1 DEF ToSet
<1>4. HandlersFaithful
  BY Zenon, <1>1, <1>2, <1>3 DEF HandlersFaithful, LinkInv, CalledInOrder, CallsRight, CallsSorted
<1>5. arrived \in BoundedSeq(Frames, MaxInbound) /\ inbox \in BoundedSeq(Messages, MaxInbound)
  <2>1. Len(arrived) \in 0..MaxInbound /\ Len(inbox) \in 0..MaxInbound /\ MaxInbound \in Nat
    BY LinkTypes
  <2> QED
    BY <2>1, BoundedSeqHas DEF LinkInv, WsShapes
<1>6. /\ \A i \in DOMAIN todo : todo[i] \in Handlers
      /\ \A i \in DOMAIN called : called[i] \in Messages \X Handlers
  BY DEF LinkInv, WsShapes
<1> QED
  BY <1>4, <1>5, <1>6 DEF WsTypeOK, LinkInv, WsShapes

-----------------------------------------------------------------------------
(* Wait of the SDK                                                         *)

LEMMA WaitTypeInit == WaitInit => WaitTypeOK
BY DEF WaitInit, WaitTypeOK, Statuses

LEMMA WaitTypeStep == WaitTypeOK /\ [WaitNext]_waitVars => WaitTypeOK'
<1> SUFFICES ASSUME WaitTypeOK, [WaitNext]_waitVars PROVE WaitTypeOK'
  OBVIOUS
<1> USE DEF WaitTypeOK
<1>1. CASE UNCHANGED waitVars
  BY <1>1 DEF waitVars
<1>2. ASSUME NEW w \in Waiters, Wait(w) \/ WaitCancelled(w) \/ SleepEnds(w) PROVE WaitTypeOK'
  BY <1>2 DEF Wait, WaitCancelled, SleepEnds
<1>3. ASSUME NEW w \in Waiters, NEW status \in Statuses, JobMoves(w, status) PROVE WaitTypeOK'
  BY <1>3 DEF JobMoves
<1>4. ASSUME NEW w \in Waiters, GetFails(w) \/ SleepCancelled(w) PROVE WaitTypeOK'
  BY <1>4 DEF GetFails, SleepCancelled, WaitReturns
<1>5. ASSUME NEW w \in Waiters, GetAnswers(w) PROVE WaitTypeOK'
  <2>1. job[w] \in Statuses
    OBVIOUS
  <2> QED
    BY <1>5, <2>1 DEF GetAnswers, WaitReturns
<1> QED
  BY <1>1, <1>2, <1>3, <1>4, <1>5 DEF WaitNext, PollStep
-----------------------------------------------------------------------------
(* The session of a page                                                   *)

\* A request that waits has a refresh to wait for, and one that is sent has a
\* token that is good: nothing else is needed to show that it stays so.
UiInv == UiTypeOK /\ UiSendsFresh

LEMMA UiInvInit == UiInit => UiInv
BY DEF UiInit, UiInv, UiTypeOK, UiSendsFresh, NoRequest, Waiting

LEMMA UiInvStep == UiInv /\ [UiNext]_uiVars => UiInv'
<1> SUFFICES ASSUME UiInv, [UiNext]_uiVars PROVE UiInv'
  OBVIOUS
<1> USE DEF UiInv, UiTypeOK, UiSendsFresh, NoRequest, Waiting
<1>1. CASE Logout \/ Ages
  BY <1>1 DEF Logout, Ages
<1>2. CASE Reload
  BY <1>2 DEF Reload
<1>3. CASE RefreshStep
  <2>1. CASE Imported
    BY <2>1 DEF Imported
  <2>2. ASSUME NEW pair \in {"fresh", "none"}, Settles(pair) PROVE UiInv'
    BY <2>2 DEF Settles
  <2> QED
    BY <1>3, <2>1, <2>2 DEF RefreshStep, Refreshed, RefreshRefused
<1>4. ASSUME NEW r \in Requests, AuthHeaders(r) PROVE UiInv'
  BY <1>4 DEF AuthHeaders, Fetch
<1>5. ASSUME NEW r \in Requests, Succeeds(r) \/ Fails(r) PROVE UiInv'
  BY <1>5 DEF Succeeds, Fails
<1>6. ASSUME NEW r \in Requests, NEW kind \in {"api", "login"}, Begins(r, kind) PROVE UiInv'
  BY <1>6 DEF Begins
<1>7. CASE UNCHANGED uiVars
  BY <1>7 DEF uiVars
<1> QED
  BY <1>1, <1>2, <1>3, <1>4, <1>5, <1>6, <1>7 DEF UiNext, UiStep

-----------------------------------------------------------------------------
(* The WebSocket of a page                                                 *)

Live(s) == ready[s] \in {"connecting", "open"}

\* The client's socket is the only one that lives, and there is none while the
\* layout is unmounted or the timer of a lost one runs; disconnect stops every
\* timer, for retryTimer is the last that was set and there is no other.  Until
\* then no socket ends after another was made, so connected and pings are right.
OneLive ==
  /\ \A s \in Sockets : Live(s) => s = socket /\ mounted /\ retries = {}
  /\ again => \A s \in Sockets : ready[s] \in {"unused", "closed"} \/ Live(s)
  /\ again /\ ~mounted => socket = NoSocket
  /\ retries # {} => again /\ mounted /\ retries = {retryTimer}
  /\ pings # {} => pings = {pingTimer} /\ pingTimer \in Sockets /\ ready[pingTimer] = "open"
  /\ connected => \E s \in Sockets : ready[s] \in {"open", "closing"}
  /\ again => /\ connected <=> \E s \in Sockets : ready[s] = "open"
              /\ pings = {s \in Sockets : ready[s] = "open"}

SocketInv == SocketTypeOK /\ OneLive

LEMMA SocketInvInit == SocketInit => SocketInv
BY SocketAssumption DEF SocketInit, SocketInv, SocketTypeOK, OneLive, Live

\* A new socket is made only when there is none that lives.
LEMMA ConnectStep ==
  ASSUME SocketInv, ConnectSocket, mounted', again' = again, pingTimer' = pingTimer,
         pings' = pings, connected' = connected, retryTimer' = retryTimer,
         \/ ~mounted /\ retries' = retries
         \/ retries # {} /\ retries' = {}
  PROVE  SocketInv'
<1> USE SocketAssumption DEF SocketInv, SocketTypeOK
<1>1. \A s \in Sockets : ~Live(s)
  BY DEF OneLive
<1>2. PICK n \in Sockets : /\ ready[n] = "unused" /\ socket' = n
                           /\ ready' = [ready EXCEPT ![n] = "connecting"]
  BY <1>1 DEF ConnectSocket, IsOpen, Unused, Live
<1>3. \A s \in Sockets : ready'[s] = IF s = n THEN "connecting" ELSE ready[s]
  BY <1>2
<1>4. retries' = {}
  BY DEF OneLive
<1>5. again => \A s \in Sockets : ready[s] \in {"unused", "closed"}
  BY <1>1 DEF OneLive, Live
<1>6. SocketTypeOK'
  BY <1>2, <1>4
<1>7. OneLive'
  BY <1>1, <1>2, <1>3, <1>4, <1>5 DEF OneLive, Live
<1> QED
  BY <1>6, <1>7

LEMMA SocketInvStep == SocketInv /\ [SocketNext]_socketVars => SocketInv'
<1> SUFFICES ASSUME SocketInv, [SocketNext]_socketVars PROVE SocketInv'
  OBVIOUS
<1> USE SocketAssumption DEF SocketInv, SocketTypeOK
<1>1. CASE Mount
  BY <1>1, ConnectStep DEF Mount
<1>2. ASSUME NEW s \in Sockets, Retry(s) PROVE SocketInv'
  <2>1. retries # {} /\ retries' = {} /\ mounted
    BY <1>2 DEF Retry, OneLive
  <2> QED
    BY <1>2, <2>1, ConnectStep DEF Retry
<1>3. CASE Unmount
  <2>1. SocketTypeOK'
    BY <1>3 DEF Unmount, StopPing, AfterClose
  <2>2. retries' = {} /\ pings' = {} /\ again' = FALSE
    BY <1>3 DEF Unmount, StopPing, OneLive
  <2>3. \A s \in Sockets :
          /\ ready'[s] \notin {"connecting", "open"}
          /\ ready[s] \in {"open", "closing"} => ready'[s] \in {"open", "closing"}
    BY <1>3 DEF Unmount, OneLive, Live, AfterClose
  <2>4. OneLive'
    BY <1>3, <2>2, <2>3 DEF OneLive, Live, Unmount
  <2> QED
    BY <2>1, <2>4
<1>4. ASSUME NEW s \in Sockets, Opens(s) PROVE SocketInv'
  <2>1. /\ ready[s] = "connecting" /\ s = socket /\ mounted /\ retries = {}
        /\ \A t \in Sockets : ready'[t] = IF t = s THEN "open" ELSE ready[t]
        /\ ready' \in [Sockets -> {"unused", "connecting", "open", "closing", "failed", "closed"}]
    BY <1>4 DEF Opens, OneLive, Live
  <2>2. pings = {}
    BY <2>1 DEF OneLive, Live
  <2>3. UNCHANGED <<mounted, socket, again, retryTimer, retries>> /\ pingTimer' = s /\ pings' = {s}
        /\ connected' = TRUE
    BY <1>4, <2>2 DEF Opens
  <2> QED
    BY <2>1, <2>3 DEF OneLive, Live
<1>5. ASSUME NEW s \in Sockets, NEW failed \in BOOLEAN, Closes(s, failed) PROVE SocketInv'
  <2>1. /\ ready' = [t \in Sockets |-> IF t = s THEN "closed"
                                  ELSE IF failed /\ t = socket THEN AfterClose(ready[t])
                                  ELSE ready[t]]
        /\ ready[s] \in {"connecting", "open", "closing", "failed"}
        /\ connected' = FALSE /\ pings' = pings \ {pingTimer}
        /\ retryTimer' = IF again THEN s ELSE retryTimer
        /\ retries' = IF again THEN retries \cup {s} ELSE retries
        /\ UNCHANGED <<mounted, socket, again, pingTimer>>
    BY <1>5 DEF Closes, StopPing
  <2>2. pings' = {}
    BY <2>1 DEF OneLive
  <2>3. SocketTypeOK'
    BY <2>1, <2>2 DEF AfterClose
  <2>4. again => s = socket /\ retries = {} /\ mounted
    BY <2>1 DEF OneLive, Live
  <2>5. \A t \in Sockets : Live(t)' => Live(t) /\ t # s
    BY <2>1 DEF Live, AfterClose
  <2>6. OneLive'
    BY <2>1, <2>2, <2>4, <2>5 DEF OneLive
  <2> QED
    BY <2>3, <2>6
<1>6. CASE UNCHANGED socketVars
  BY <1>6 DEF socketVars, OneLive, Live
<1> QED
  BY <1>1, <1>2, <1>3, <1>4, <1>5, <1>6 DEF SocketNext

LEMMA SocketInvImplies == SocketInv => OneConnection
<1> SUFFICES ASSUME SocketInv PROVE OneConnection
  OBVIOUS
<1> USE DEF SocketInv, SocketTypeOK, OneLive, Live
<1>1. ASSUME NEW T, T = {} \/ \E x : T = {x} PROVE Cardinality(T) <= 1
  <2>1. CASE T = {}
    BY <2>1, FS_EmptySet
  <2>2. ASSUME NEW x, T = {x} PROVE Cardinality(T) <= 1
    <3>1. Cardinality({x}) = 1
      BY FS_Singleton
    <3> QED
      BY <2>2, <3>1
  <2> QED
    BY <1>1, <2>1, <2>2
<1>2. Cardinality({s \in Sockets : ready[s] \in {"connecting", "open"}}) <= 1
  <2> DEFINE T == {s \in Sockets : ready[s] \in {"connecting", "open"}}
  <2>1. T = {} \/ T = {socket}
    OBVIOUS
  <2> QED
    BY <1>1, <2>1
<1>3. Cardinality(pings) <= 1
  <2>1. pings = {} \/ pings = {pingTimer}
    OBVIOUS
  <2> QED
    BY <1>1, <2>1
<1> QED
  BY <1>2, <1>3 DEF OneConnection

-----------------------------------------------------------------------------
(* The chats of a page                                                     *)

\* A place of x in m is an answer of x; the question of x has no pieces.
Placed(m, x, k) == m[k].of = x /\ m[k].pieces > 0
Unplaced(m, x) == \A k \in 1..Len(m) : ~Placed(m, x, k)
Asked(m, x) == \E j \in 1..Len(m) : m[j] = Question(x)

\* The answer of x, of n pieces, is in m once and after its question.
Answered(m, x, n) ==
  \E i \in 1..Len(m) :
    /\ Placed(m, x, i) /\ m[i].pieces = n
    /\ \A k \in 1..Len(m) : Placed(m, x, k) => k = i
    /\ \E j \in 1..Len(m) : j < i /\ m[j] = Question(x)

ChatShapes ==
  /\ sessions \in Seq(Chats) /\ activeId \in Chats \cup {Nothing} /\ chatsMade \subseteq Chats
  /\ messages \in [Chats -> Seq(Answers)] /\ content \in [Chats -> Answers \cup {NoText}]
  /\ streaming \in [Chats -> BOOLEAN]
  /\ abortRef \in Sends \cup {Nothing} /\ aborted \subseteq Sends
  /\ sendAt \in [Sends -> {"none", "reading", "ended"}]
  /\ chatOf \in [Sends -> Chats \cup {Nothing}]
  /\ pieces \in [Sends -> 0..MaxPieces] /\ alone \in [Sends -> BOOLEAN]

\* Every chat of the store is there once and was made; the one shown is there.
Distinct(q) == \A i, j \in 1..Len(q) : q[i] = q[j] => i = j
StoreIds ==
  /\ Distinct(sessions) /\ ToSet(sessions) \subseteq chatsMade
  /\ activeId # Nothing => InStore(activeId)

\* What is not in the store is empty.
NothingKept == \A s \in Chats : ~InStore(s) => messages[s] = <<>> /\ content[s] = NoText

\* A send has a chat from its start on, one that was made.
SendsPlaced ==
  \A x \in Sends :
    /\ sendAt[x] = "none" => chatOf[x] = Nothing /\ pieces[x] = 0
    /\ sendAt[x] # "none" => chatOf[x] \in chatsMade

\* What is streamed in a chat is of one that reads for it.
StreamedBy ==
  \A s \in Chats : content[s] # NoText =>
    /\ content[s].of \in Sends /\ Reading(content[s].of) /\ chatOf[content[s].of] = s
    /\ 0 < content[s].pieces /\ content[s].pieces <= pieces[content[s].of]

KeptRight(ms, of, ps) ==
  \A s \in Chats : \A i \in 1..Len(ms[s]) : of[ms[s][i].of] = s /\ ms[s][i].pieces <= ps[ms[s][i].of]

\* One that reads alone has all it received streamed, and no answer yet.
AloneReads ==
  \A x \in Sends : Reading(x) /\ alone[x] /\ InStore(chatOf[x]) =>
    /\ \A y \in Sends : Reading(y) /\ chatOf[y] = chatOf[x] => y = x
    /\ content[chatOf[x]] = IF pieces[x] = 0 THEN NoText ELSE [of |-> x, pieces |-> pieces[x]]
    /\ Unplaced(messages[chatOf[x]], x) /\ Asked(messages[chatOf[x]], x)

AloneEnded ==
  \A x \in Sends : sendAt[x] = "ended" /\ alone[x] /\ pieces[x] > 0 /\ InStore(chatOf[x]) =>
    Answered(messages[chatOf[x]], x, pieces[x])

ChatInv ==
  /\ ChatShapes /\ StoreIds /\ NothingKept /\ SendsPlaced /\ StreamedBy
  /\ KeptRight(messages, chatOf, pieces) /\ AloneReads /\ AloneEnded

\* What is in a sequence after one was added to it or taken out of it.
LEMMA AppendHas ==
  ASSUME NEW S, NEW q \in Seq(S), Distinct(q), NEW e \in S, e \notin ToSet(q)
  PROVE  /\ Append(q, e) \in Seq(S) /\ Distinct(Append(q, e))
         /\ ToSet(Append(q, e)) = ToSet(q) \cup {e}
<1> DEFINE r == Append(q, e)
<1>1. /\ r \in Seq(S) /\ Len(r) = Len(q) + 1 /\ Len(q) \in Nat
      /\ \A k \in 1..Len(q) : r[k] = q[k]
      /\ r[Len(q) + 1] = e
      /\ DOMAIN r = 1..Len(r) /\ DOMAIN q = 1..Len(q)
  OBVIOUS
<1>2. /\ \A k \in 1..Len(r) : k \in 1..Len(q) \/ k = Len(q) + 1
      /\ \A k \in 1..Len(q) : k \in 1..Len(r)
      /\ Len(q) + 1 \in 1..Len(r)
  BY <1>1
<1>3. \A k \in 1..Len(q) : q[k] # e
  BY <1>1 DEF ToSet
<1> HIDE DEF r
<1>4. Distinct(r)
  BY <1>1, <1>2, <1>3 DEF Distinct
<1>5. ToSet(r) = ToSet(q) \cup {e}
  BY <1>1, <1>2 DEF ToSet
<1> QED
  BY <1>1, <1>4, <1>5 DEF r

LEMMA RemoveAtHas ==
  ASSUME NEW S, NEW q \in Seq(S), Distinct(q), NEW i \in 1..Len(q)
  PROVE  /\ RemoveAt(q, i) \in Seq(S) /\ Distinct(RemoveAt(q, i))
         /\ ToSet(RemoveAt(q, i)) = ToSet(q) \ {q[i]}
<1> DEFINE a == SubSeq(q, 1, i - 1)
           b == SubSeq(q, i + 1, Len(q))
           r == RemoveAt(q, i)
<1>0. Len(q) \in Nat /\ i \in Nat /\ 1 <= i /\ i <= Len(q) /\ DOMAIN q = 1..Len(q)
  OBVIOUS
<1>1. a \in Seq(S) /\ Len(a) = i - 1 /\ \A k \in 1..(i - 1) : a[k] = q[k]
  OBVIOUS
<1>2. b \in Seq(S) /\ Len(b) = Len(q) - i /\ \A k \in 1..(Len(q) - i) : b[k] = q[i + k]
  OBVIOUS
<1>3. r = a \o b
  BY DEF RemoveAt
<1> HIDE DEF a, b, r
<1>4. r \in Seq(S) /\ Len(r) = Len(a) + Len(b) /\ DOMAIN r = 1..Len(r)
  <2>1. a \in Seq(S) /\ b \in Seq(S)
    BY <1>1, <1>2
  <2>2. a \o b \in Seq(S) /\ Len(a \o b) = Len(a) + Len(b)
    BY <2>1
  <2> QED
    BY <2>2, <1>3
<1>5. Len(r) = Len(q) - 1
  BY <1>0, <1>1, <1>2, <1>4
<1>6. ASSUME NEW k \in 1..Len(r)
      PROVE  /\ k < i => k \in 1..Len(q) /\ r[k] = q[k]
             /\ k >= i => k + 1 \in 1..Len(q) /\ r[k] = q[k + 1]
  <2>1. CASE k < i
    <3>1. k \in 1..Len(a) /\ k \in 1..(i - 1) /\ k \in 1..Len(q)
      BY <2>1, <1>0, <1>1, <1>5
    <3>2. r[k] = a[k]
      BY <3>1, <1>1, <1>2, <1>3
    <3> QED
      BY <2>1, <3>1, <3>2, <1>0, <1>1, <1>5
  <2>2. CASE k >= i
    <3>1. /\ k - (i - 1) \in 1..(Len(q) - i) /\ k \in 1..(Len(a) + Len(b)) /\ ~(k <= Len(a))
          /\ k + 1 \in 1..Len(q) /\ i + (k - (i - 1)) = k + 1
      BY <2>2, <1>0, <1>1, <1>2, <1>5
    <3>2. r[k] = b[k - (i - 1)]
      <4>1. \A p \in 1..Len(a) + Len(b) : (a \o b)[p] = IF p <= Len(a) THEN a[p] ELSE b[p - Len(a)]
        BY <1>1, <1>2, ConcatProperties
      <4>2. r[k] = b[k - Len(a)]
        BY <3>1, <4>1, <1>3, Zenon
      <4> QED
        BY <4>2, <1>1
    <3>3. b[k - (i - 1)] = q[k + 1]
      BY <3>1, <1>2
    <3> QED
      BY <2>2, <3>1, <3>2, <3>3, <1>0, <1>5
  <2> QED
    BY <2>1, <2>2, <1>0, <1>5
<1>7. Distinct(r)
  <2> SUFFICES ASSUME NEW k \in 1..Len(r), NEW l \in 1..Len(r), r[k] = r[l] PROVE k = l
    BY DEF Distinct
  <2>1. k \in Nat /\ l \in Nat /\ i \in Nat
    BY <1>0, <1>5
  <2>2. CASE k < i /\ l < i
    BY <2>2, <1>6 DEF Distinct
  <2>3. CASE k >= i /\ l >= i
    <3>1. k + 1 = l + 1
      BY <2>3, <1>6 DEF Distinct
    <3> QED
      BY <2>1, <3>1
  <2>4. CASE k < i /\ l >= i
    <3>1. k = l + 1
      BY <2>4, <1>6 DEF Distinct
    <3> QED
      BY <2>1, <2>4, <3>1
  <2>5. CASE k >= i /\ l < i
    <3>1. k + 1 = l
      BY <2>5, <1>6 DEF Distinct
    <3> QED
      BY <2>1, <2>5, <3>1
  <2> QED
    BY <2>1, <2>2, <2>3, <2>4, <2>5
<1>8. ASSUME NEW e \in ToSet(r) PROVE e \in ToSet(q) /\ e # q[i]
  <2>1. PICK k \in 1..Len(r) : r[k] = e
    BY <1>4 DEF ToSet
  <2>2. k \in Nat
    BY <1>0, <1>5
  <2>3. CASE k < i
    <3>1. k \in 1..Len(q) /\ q[k] = e /\ k # i
      BY <2>1, <2>2, <2>3, <1>0, <1>6
    <3> QED
      BY <3>1, <1>0 DEF Distinct, ToSet
  <2>4. CASE k >= i
    <3>1. k + 1 \in 1..Len(q) /\ q[k + 1] = e /\ k + 1 # i
      BY <2>1, <2>2, <2>4, <1>0, <1>6
    <3> QED
      BY <3>1, <1>0 DEF Distinct, ToSet
  <2> QED
    BY <2>2, <2>3, <2>4, <1>0
<1>9. ASSUME NEW e \in ToSet(q), e # q[i] PROVE e \in ToSet(r)
  <2>1. PICK k \in 1..Len(q) : q[k] = e
    BY <1>0 DEF ToSet
  <2>2. k \in Nat /\ k # i
    BY <2>1, <1>0, <1>9
  <2>3. CASE k < i
    <3>1. k \in 1..Len(r)
      BY <2>2, <2>3, <1>0, <1>5
    <3>2. r[k] = e
      BY <3>1, <2>1, <2>3, <1>6
    <3> QED
      BY <3>1, <3>2, <1>4 DEF ToSet
  <2>4. CASE k > i
    <3>1. k - 1 \in 1..Len(r) /\ k - 1 >= i /\ (k - 1) + 1 = k
      BY <2>2, <2>4, <1>0, <1>5
    <3>2. r[k - 1] = e
      BY <3>1, <2>1, <1>6
    <3> QED
      BY <3>1, <3>2, <1>4 DEF ToSet
  <2> QED
    BY <2>2, <2>3, <2>4, <1>0
<1> QED
  BY <1>4, <1>7, <1>8, <1>9 DEF r

\* What a message that is added changes for a send.
LEMMA AddedMessage ==
  ASSUME NEW m \in Seq(Answers), NEW x \in Sends, NEW e \in Answers
  PROVE  /\ Asked(m, x) => Asked(Append(m, e), x)
         /\ e = Question(x) => Asked(Append(m, e), x)
         /\ Unplaced(m, x) /\ (e.of # x \/ e.pieces = 0) => Unplaced(Append(m, e), x)
         /\ \A n \in 0..MaxPieces : Answered(m, x, n) /\ (e.of # x \/ e.pieces = 0) =>
              Answered(Append(m, e), x, n)
         /\ Unplaced(m, x) /\ Asked(m, x) /\ e.of = x /\ e.pieces > 0 =>
              Answered(Append(m, e), x, e.pieces)
<1> DEFINE r == Append(m, e)
           last == Len(m) + 1
<1>1. /\ \A k \in 1..Len(m) : r[k] = m[k]
      /\ r[last] = e
  OBVIOUS
<1>2. Len(r) = last /\ Len(m) \in Nat
  OBVIOUS
<1>3. /\ \A k \in 1..Len(r) : k \in 1..Len(m) \/ k = last
      /\ \A k \in 1..Len(m) : k \in 1..Len(r) /\ k < last
      /\ last \in 1..Len(r)
  BY <1>2
<1> HIDE DEF r, last
<1>4. \A k \in 1..Len(m) : Placed(r, x, k) <=> Placed(m, x, k)
  BY <1>1 DEF Placed
<1>5. e.of # x \/ e.pieces = 0 => ~Placed(r, x, last)
  BY <1>1 DEF Placed
<1>6. /\ Asked(m, x) => Asked(r, x)
      /\ e = Question(x) => Asked(r, x)
  BY <1>1, <1>3 DEF Asked
<1>7. Unplaced(m, x) /\ (e.of # x \/ e.pieces = 0) => Unplaced(r, x)
  BY <1>3, <1>4, <1>5 DEF Unplaced
<1>8. ASSUME NEW n \in 0..MaxPieces, Answered(m, x, n), e.of # x \/ e.pieces = 0
      PROVE  Answered(r, x, n)
  <2>1. PICK i \in 1..Len(m) : /\ Placed(m, x, i) /\ m[i].pieces = n
                               /\ \A k \in 1..Len(m) : Placed(m, x, k) => k = i
                               /\ \E j \in 1..Len(m) : j < i /\ m[j] = Question(x)
    BY <1>8 DEF Answered
  <2>2. i \in 1..Len(r) /\ Placed(r, x, i) /\ r[i].pieces = n
    BY <2>1, <1>1, <1>3, <1>4
  <2>3. \A k \in 1..Len(r) : Placed(r, x, k) => k = i
    BY <2>1, <1>3, <1>4, <1>5, <1>8
  <2>4. \E j \in 1..Len(r) : j < i /\ r[j] = Question(x)
    BY <2>1, <1>1, <1>3
  <2> QED
    BY <2>2, <2>3, <2>4 DEF Answered
<1>9. ASSUME Unplaced(m, x), Asked(m, x), e.of = x, e.pieces > 0
      PROVE  Answered(r, x, e.pieces)
  <2>1. Placed(r, x, last) /\ r[last].pieces = e.pieces
    BY <1>1, <1>9 DEF Placed
  <2>2. \A k \in 1..Len(r) : Placed(r, x, k) => k = last
    BY <1>3, <1>4, <1>9 DEF Unplaced
  <2>3. \E j \in 1..Len(r) : j < last /\ r[j] = Question(x)
    BY <1>1, <1>3, <1>9 DEF Asked
  <2> QED
    BY <2>1, <2>2, <2>3, <1>3 DEF Answered
<1> QED
  BY <1>6, <1>7, <1>8, <1>9 DEF r

LEMMA ChatInvInit == ChatInit => ChatInv
<1> SUFFICES ASSUME ChatInit PROVE ChatInv
  OBVIOUS
<1> USE ChatAssumption DEF ChatInit
<1>1. 0 \in 0..MaxPieces
  OBVIOUS
<1>2. <<>> \in Seq(Chats) /\ <<>> \in Seq(Answers) /\ ToSet(sessions) = {}
  BY DEF ToSet
<1>3. /\ messages \in [Chats -> Seq(Answers)] /\ content \in [Chats -> Answers \cup {NoText}]
      /\ pieces \in [Sends -> 0..MaxPieces]
  BY <1>1, <1>2
<1>4. ChatShapes
  BY <1>2, <1>3 DEF ChatShapes
<1>5. StoreIds /\ NothingKept /\ SendsPlaced /\ StreamedBy
  BY <1>2 DEF StoreIds, Distinct, NothingKept, SendsPlaced, StreamedBy, InStore
<1>6. KeptRight(messages, chatOf, pieces)
  BY DEF KeptRight
<1>7. AloneReads /\ AloneEnded
  BY DEF AloneReads, AloneEnded, Reading
<1> QED
  BY <1>4, <1>5, <1>6, <1>7 DEF ChatInv

\* The sends keep what is known of them when chats are made, shown and left.
LEMMA StoreStep ==
  ASSUME ChatInv, ChatShapes', StoreIds',
         UNCHANGED <<messages, content, sendAt, chatOf, pieces, alone>>,
         chatsMade \subseteq chatsMade',
         \A s \in Chats : InStore(s) => InStore(s)',
         \A s \in chatsMade : InStore(s)' => InStore(s)
  PROVE  ChatInv'
<1>1. NothingKept' /\ SendsPlaced' /\ StreamedBy'
  BY DEF ChatInv, NothingKept, SendsPlaced, StreamedBy, Reading
<1>2. KeptRight(messages, chatOf, pieces)'
  BY DEF ChatInv
<1>3. \A x \in Sends : sendAt[x] # "none" /\ InStore(chatOf[x])' => InStore(chatOf[x])
  BY DEF ChatInv, SendsPlaced
<1>4. AloneReads'
  BY <1>3 DEF ChatInv, AloneReads, Reading
<1>5. AloneEnded'
  BY <1>3 DEF ChatInv, AloneEnded
<1> QED
  BY <1>1, <1>2, <1>4, <1>5 DEF ChatInv

LEMMA PageSteps ==
  ASSUME ChatInv,
         \/ LeavePage \/ Stop \/ UNCHANGED chatVars
         \/ \E s \in Chats : NewSession(s) \/ SetActive(s)
  PROVE  ChatInv'
<1> USE DEF storeVars, sendVars, chatVars
<1>1. CASE LeavePage \/ Stop \/ UNCHANGED chatVars
  <2>1. /\ UNCHANGED <<sessions, chatsMade, activeId, streaming>>
        /\ UNCHANGED <<messages, content, sendAt, chatOf, pieces, alone>>
    BY <1>1 DEF LeavePage, Stop
  <2>2. abortRef' \in Sends \cup {Nothing} /\ aborted' \subseteq Sends
    BY <1>1 DEF LeavePage, Stop, ChatInv, ChatShapes
  <2>3. ChatShapes' /\ StoreIds'
    BY <2>1, <2>2 DEF ChatInv, ChatShapes, StoreIds, InStore
  <2> QED
    BY <2>1, <2>3, StoreStep DEF InStore
<1>2. ASSUME NEW s \in Chats, SetActive(s) PROVE ChatInv'
  <2>1. /\ activeId' = s /\ InStore(s) /\ UNCHANGED <<sessions, chatsMade>>
        /\ UNCHANGED <<messages, content, sendAt, chatOf, pieces, alone>>
    BY <1>2 DEF SetActive
  <2>2. ChatShapes' /\ StoreIds'
    BY <1>2, <2>1 DEF SetActive, ChatInv, ChatShapes, StoreIds, InStore
  <2> QED
    BY <2>1, <2>2, StoreStep DEF InStore
<1>3. ASSUME NEW s \in Chats, NewSession(s) PROVE ChatInv'
  <2>1. /\ s \notin chatsMade /\ chatsMade' = chatsMade \cup {s}
        /\ sessions' = Append(sessions, s) /\ activeId' = s
        /\ UNCHANGED <<messages, content, sendAt, chatOf, pieces, alone>>
    BY <1>3 DEF NewSession
  <2>2. sessions \in Seq(Chats) /\ Distinct(sessions) /\ s \notin ToSet(sessions)
    BY <2>1 DEF ChatInv, ChatShapes, StoreIds
  <2>3. /\ sessions' \in Seq(Chats) /\ Distinct(sessions')
        /\ ToSet(sessions') = ToSet(sessions) \cup {s}
    BY <2>1, <2>2, AppendHas
  <2>4. ChatShapes'
    BY <1>3, <2>1, <2>3 DEF NewSession, ChatInv, ChatShapes
  <2>5. StoreIds'
    BY <2>1, <2>3 DEF ChatInv, StoreIds, InStore
  <2> QED
    BY <2>1, <2>3, <2>4, <2>5, StoreStep DEF InStore
<1> QED
  BY <1>1, <1>2, <1>3

LEMMA RemoveStep ==
  ASSUME ChatInv, NEW s \in Chats, RemoveSession(s)
  PROVE  ChatInv'
<1>1. PICK i \in DOMAIN sessions : sessions[i] = s /\ sessions' = RemoveAt(sessions, i)
  BY DEF RemoveSession
<1>2. /\ activeId' = IF activeId # s THEN activeId
                     ELSE IF sessions' = <<>> THEN Nothing ELSE sessions'[1]
      /\ abortRef' = IF sessions' = <<>> THEN Nothing ELSE abortRef
      /\ messages' = [messages EXCEPT ![s] = <<>>]
      /\ streaming' = [streaming EXCEPT ![s] = FALSE] /\ content' = [content EXCEPT ![s] = NoText]
      /\ UNCHANGED <<chatsMade, aborted, sendAt, chatOf, pieces, alone>>
  BY DEF RemoveSession, sendVars
<1>3. sessions \in Seq(Chats) /\ Distinct(sessions) /\ i \in 1..Len(sessions)
  BY <1>1 DEF ChatInv, ChatShapes, StoreIds
<1>4. /\ sessions' \in Seq(Chats) /\ Distinct(sessions')
      /\ ToSet(sessions') = ToSet(sessions) \ {s}
  BY <1>1, <1>3, RemoveAtHas
<1>5. sessions' # <<>> => sessions'[1] \in ToSet(sessions') /\ sessions'[1] \in Chats
  BY <1>4 DEF ToSet
<1>6. /\ messages \in [Chats -> Seq(Answers)] /\ content \in [Chats -> Answers \cup {NoText}]
      /\ streaming \in [Chats -> BOOLEAN]
  BY DEF ChatInv, ChatShapes
<1>7. /\ messages' \in [Chats -> Seq(Answers)] /\ content' \in [Chats -> Answers \cup {NoText}]
      /\ messages'[s] = <<>> /\ content'[s] = NoText
      /\ \A t \in Chats : t # s => messages'[t] = messages[t] /\ content'[t] = content[t]
  BY <1>2, <1>6
<1>8. streaming' \in [Chats -> BOOLEAN]
  BY <1>2, <1>6
<1>9. activeId' \in Chats \cup {Nothing} /\ abortRef' \in Sends \cup {Nothing}
  BY <1>2, <1>5 DEF ChatInv, ChatShapes
<1>10. ChatShapes'
  BY <1>2, <1>4, <1>7, <1>8, <1>9 DEF ChatInv, ChatShapes
<1>11. \A t \in Chats : InStore(t)' <=> InStore(t) /\ t # s
  BY <1>4 DEF InStore
<1>12. activeId' # Nothing => InStore(activeId)'
  <2>1. CASE activeId # s
    BY <2>1, <1>2, <1>4 DEF ChatInv, StoreIds, InStore
  <2>2. CASE activeId = s
    BY <2>2, <1>2, <1>5 DEF InStore
  <2> QED
    BY <2>1, <2>2
<1>13. StoreIds'
  BY <1>2, <1>4, <1>12 DEF ChatInv, StoreIds, InStore
<1>14. NothingKept'
  BY <1>7, <1>11 DEF ChatInv, NothingKept
<1>15. SendsPlaced'
  BY <1>2 DEF ChatInv, SendsPlaced
<1>16. StreamedBy'
  BY <1>2, <1>7 DEF ChatInv, StreamedBy, Reading
<1>17. KeptRight(messages, chatOf, pieces)'
  BY <1>2, <1>7 DEF ChatInv, KeptRight
<1>18. \A x \in Sends : sendAt[x] # "none" /\ InStore(chatOf[x])' =>
         /\ InStore(chatOf[x])
         /\ messages'[chatOf[x]] = messages[chatOf[x]] /\ content'[chatOf[x]] = content[chatOf[x]]
  <2>1. \A x \in Sends : sendAt[x] # "none" => chatOf[x] \in Chats
    BY DEF ChatInv, SendsPlaced, ChatShapes
  <2> QED
    BY <1>2, <1>7, <1>11, <2>1 DEF InStore
<1>19. AloneReads'
  BY <1>2, <1>18 DEF ChatInv, AloneReads, Reading
<1>20. AloneEnded'
  BY <1>2, <1>18 DEF ChatInv, AloneEnded
<1> QED
  BY <1>10, <1>13, <1>14, <1>15, <1>16, <1>17, <1>19, <1>20 DEF ChatInv

LEMMA SendStep ==
  ASSUME ChatInv, NEW x \in Sends, Send(x)
  PROVE  ChatInv'
<1> DEFINE s == activeId
           others == {y \in Sends : Reading(y) /\ chatOf[y] = s}
<1>1. /\ sendAt[x] = "none" /\ s # Nothing
      /\ alone' = [y \in Sends |-> IF y = x THEN others = {} ELSE alone[y] /\ y \notin others]
      /\ sendAt' = [sendAt EXCEPT ![x] = "reading"]
      /\ chatOf' = [chatOf EXCEPT ![x] = s]
      /\ messages' = [messages EXCEPT ![s] = Append(@, Question(x))]
      /\ abortRef' = x
      /\ UNCHANGED <<sessions, chatsMade, activeId, streaming, content, aborted, pieces>>
  BY DEF Send
<1>2. /\ sendAt \in [Sends -> {"none", "reading", "ended"}]
      /\ chatOf \in [Sends -> Chats \cup {Nothing}] /\ alone \in [Sends -> BOOLEAN]
      /\ pieces \in [Sends -> 0..MaxPieces]
      /\ messages \in [Chats -> Seq(Answers)] /\ content \in [Chats -> Answers \cup {NoText}]
  BY DEF ChatInv, ChatShapes
<1>3. s \in Chats /\ InStore(s) /\ s \in chatsMade
  BY <1>1 DEF ChatInv, ChatShapes, StoreIds, InStore
<1>4. chatOf[x] = Nothing /\ pieces[x] = 0
  BY <1>1 DEF ChatInv, SendsPlaced
<1>5. /\ sendAt' \in [Sends -> {"none", "reading", "ended"}] /\ sendAt'[x] = "reading"
      /\ chatOf' \in [Sends -> Chats \cup {Nothing}] /\ chatOf'[x] = s
      /\ \A y \in Sends : y # x => sendAt'[y] = sendAt[y] /\ chatOf'[y] = chatOf[y]
  BY <1>1, <1>2, <1>3
<1>6. alone' \in [Sends -> BOOLEAN]
  BY <1>1
<1>7. (alone'[x] <=> others = {}) /\ \A y \in Sends : y # x => (alone'[y] <=> alone[y] /\ y \notin others)
  BY Zenon, <1>1
<1>8. Question(x) \in Answers /\ Question(x).of = x /\ Question(x).pieces = 0
  BY ChatAssumption DEF Question, Answers
<1>9. messages[s] \in Seq(Answers) /\ Append(messages[s], Question(x)) \in Seq(Answers)
  BY <1>2, <1>3, <1>8
<1>10. /\ messages' \in [Chats -> Seq(Answers)]
       /\ messages'[s] = Append(messages[s], Question(x))
       /\ \A t \in Chats : t # s => messages'[t] = messages[t]
  BY <1>1, <1>2, <1>3, <1>9
<1> HIDE DEF s
<1>11. ChatShapes'
  BY <1>1, <1>5, <1>6, <1>10 DEF ChatInv, ChatShapes
<1>12. StoreIds'
  BY <1>1 DEF ChatInv, StoreIds, InStore
<1>13. NothingKept'
  BY <1>1, <1>3, <1>10 DEF ChatInv, NothingKept, InStore
<1>14. SendsPlaced'
  BY <1>1, <1>3, <1>5 DEF ChatInv, SendsPlaced
<1>15. StreamedBy'
  <2> SUFFICES ASSUME NEW t \in Chats, content[t] # NoText
               PROVE  /\ content[t].of \in Sends /\ Reading(content[t].of)' /\ chatOf'[content[t].of] = t
                      /\ 0 < content[t].pieces /\ content[t].pieces <= pieces[content[t].of]
    BY <1>1 DEF StreamedBy
  <2>1. /\ content[t].of \in Sends /\ Reading(content[t].of) /\ chatOf[content[t].of] = t
        /\ 0 < content[t].pieces /\ content[t].pieces <= pieces[content[t].of]
    BY DEF ChatInv, StreamedBy
  <2>2. content[t].of # x
    BY <2>1, <1>1 DEF Reading
  <2>3. Reading(content[t].of)' /\ chatOf'[content[t].of] = t
    <3> DEFINE y == content[t].of
    <3>1. y \in Sends /\ Reading(y) /\ chatOf[y] = t /\ y # x
      BY <2>1, <2>2
    <3> HIDE DEF y
    <3>2. sendAt'[y] = "reading" /\ chatOf'[y] = t
      BY <3>1, <1>5 DEF Reading
    <3> QED
      BY <3>2, <1>1 DEF y, Reading
  <2> QED
    BY Zenon, <2>1, <2>3
<1>16. KeptRight(messages, chatOf, pieces)'
  <2>1. ASSUME NEW t \in Chats, NEW i \in 1..Len(messages[t])
        PROVE  chatOf'[messages[t][i].of] = t /\ messages[t][i].pieces <= pieces[messages[t][i].of]
    <3>1. messages[t][i] \in Answers /\ messages[t][i].of \in Sends
      <4>1. messages[t] \in Seq(Answers)
        BY <1>2
      <4>2. messages[t][i] \in Answers
        BY <4>1
      <4> QED
        BY <4>2 DEF Answers
    <3>2. chatOf[messages[t][i].of] = t /\ messages[t][i].pieces <= pieces[messages[t][i].of]
      BY DEF ChatInv, KeptRight
    <3>3. messages[t][i].of # x
      BY <3>2, <1>4, ChatAssumption
    <3> QED
      BY <3>1, <3>2, <3>3, <1>5
  <2>2. ASSUME NEW i \in 1..Len(messages'[s])
        PROVE  chatOf'[messages'[s][i].of] = s /\ messages'[s][i].pieces <= pieces[messages'[s][i].of]
    <3>1. i \in 1..Len(messages[s]) \/ i = Len(messages[s]) + 1
      BY <1>9, <1>10
    <3>2. CASE i \in 1..Len(messages[s])
      <4>1. messages'[s][i] = messages[s][i]
        BY <3>2, <1>8, <1>9, <1>10
      <4> QED
        BY <2>1, <3>2, <4>1, <1>3
    <3>3. CASE i = Len(messages[s]) + 1
      <4>1. messages'[s][i] = Question(x)
        BY <3>3, <1>8, <1>9, <1>10
      <4> QED
        BY <4>1, <1>4, <1>5, <1>8
    <3> QED
      BY <3>1, <3>2, <3>3
  <2>3. ASSUME NEW t \in Chats, NEW i \in 1..Len(messages'[t])
        PROVE  chatOf'[messages'[t][i].of] = t /\ messages'[t][i].pieces <= pieces[messages'[t][i].of]
    <3>1. CASE t = s
      BY <2>2, <3>1
    <3>2. CASE t # s
      <4>1. messages'[t] = messages[t]
        BY <3>2, <1>10
      <4> QED
        BY <2>1, <4>1
    <3> QED
      BY <3>1, <3>2
  <2> QED
    BY <2>3, <1>1 DEF KeptRight
<1>17. AloneReads'
  <2> SUFFICES ASSUME NEW y \in Sends, Reading(y)', alone'[y], InStore(chatOf'[y])
               PROVE  /\ \A z \in Sends : Reading(z)' /\ chatOf'[z] = chatOf'[y] => z = y
                      /\ content[chatOf'[y]] = IF pieces[y] = 0 THEN NoText ELSE [of |-> y, pieces |-> pieces[y]]
                      /\ Unplaced(messages'[chatOf'[y]], y) /\ Asked(messages'[chatOf'[y]], y)
    BY <1>1 DEF AloneReads, InStore
  <2>1. CASE y = x
    <3>1. \A z \in Sends : ~(Reading(z) /\ chatOf[z] = s)
      BY <2>1, <1>7
    <3>2. \A z \in Sends : Reading(z)' /\ chatOf'[z] = s => z = x
      BY <3>1, <1>5 DEF Reading
    <3>3. content[s] = NoText
      BY <3>1, <1>3 DEF ChatInv, StreamedBy
    <3>4. Unplaced(messages[s], x)
      <4> SUFFICES ASSUME NEW k \in 1..Len(messages[s]), messages[s][k].of = x PROVE FALSE
        BY DEF Unplaced, Placed
      <4>1. chatOf[x] = s
        BY <1>3 DEF ChatInv, KeptRight
      <4> QED
        BY <4>1, <1>1, <1>4
    <3>5. Unplaced(messages'[s], x) /\ Asked(messages'[s], x)
      BY <3>4, <1>8, <1>9, <1>10, AddedMessage
    <3> QED
      BY <2>1, <3>2, <3>3, <3>5, <1>4, <1>5
  <2>2. CASE y # x
    <3>1. Reading(y) /\ alone[y] /\ y \notin others /\ chatOf'[y] = chatOf[y]
      BY <2>2, <1>5, <1>7 DEF Reading
    <3>2. chatOf[y] # s
      BY <3>1
    <3>3. /\ \A z \in Sends : Reading(z) /\ chatOf[z] = chatOf[y] => z = y
          /\ content[chatOf[y]] = IF pieces[y] = 0 THEN NoText ELSE [of |-> y, pieces |-> pieces[y]]
          /\ Unplaced(messages[chatOf[y]], y) /\ Asked(messages[chatOf[y]], y)
      BY <3>1 DEF ChatInv, AloneReads
    <3>4. chatOf[y] \in Chats
      BY <3>1 DEF ChatInv, ChatShapes, SendsPlaced, Reading
    <3>5. \A z \in Sends : Reading(z)' /\ chatOf'[z] = chatOf[y] => z = y
      BY <3>2, <3>3, <1>5 DEF Reading
    <3> QED
      BY <3>1, <3>2, <3>3, <3>4, <3>5, <1>10
  <2> QED
    BY <2>1, <2>2
<1>18. AloneEnded'
  <2> SUFFICES ASSUME NEW y \in Sends, sendAt'[y] = "ended", alone'[y], pieces[y] > 0, InStore(chatOf'[y])
               PROVE  Answered(messages'[chatOf'[y]], y, pieces[y])
    BY <1>1 DEF AloneEnded, InStore
  <2>1. y # x /\ sendAt[y] = "ended" /\ alone[y] /\ chatOf'[y] = chatOf[y]
    BY <1>5, <1>7
  <2>2. Answered(messages[chatOf[y]], y, pieces[y])
    BY <2>1 DEF ChatInv, AloneEnded
  <2>3. chatOf[y] \in Chats /\ pieces[y] \in 0..MaxPieces
    BY <2>1, <1>2 DEF ChatInv, ChatShapes, SendsPlaced
  <2>4. Answered(messages[chatOf[y]], y, pieces[y]) => Answered(Append(messages[chatOf[y]], Question(x)), y, pieces[y])
    BY <2>1, <2>3, <1>2, <1>8, AddedMessage
  <2>5. CASE chatOf[y] = s
    BY <2>1, <2>2, <2>4, <2>5, <1>10
  <2>6. CASE chatOf[y] # s
    BY <2>1, <2>2, <2>3, <2>6, <1>10
  <2> QED
    BY <2>5, <2>6
<1> QED
  BY <1>11, <1>12, <1>13, <1>14, <1>15, <1>16, <1>17, <1>18 DEF ChatInv

\* A piece is more of what x received, and is streamed in the chat of x.
LEMMA PieceStep ==
  ASSUME ChatInv, NEW x \in Sends, NEW n \in 0..1, Piece(x, n)
  PROVE  ChatInv'
<1> DEFINE s == chatOf[x]
           text == IF pieces'[x] = 0 THEN NoText ELSE [of |-> x, pieces |-> pieces'[x]]
<1>1. /\ Reading(x) /\ pieces[x] + n <= MaxPieces
      /\ pieces' = [pieces EXCEPT ![x] = @ + n]
      /\ streaming' = IF InStore(s) THEN [streaming EXCEPT ![s] = TRUE] ELSE streaming
      /\ content' = IF InStore(s) THEN [content EXCEPT ![s] = text] ELSE content
      /\ UNCHANGED <<sessions, chatsMade, activeId, messages, abortRef, aborted, sendAt, chatOf, alone>>
  BY DEF Piece, SetStreaming
<1>2. /\ pieces \in [Sends -> 0..MaxPieces] /\ chatOf \in [Sends -> Chats \cup {Nothing}]
      /\ streaming \in [Chats -> BOOLEAN]
      /\ messages \in [Chats -> Seq(Answers)] /\ content \in [Chats -> Answers \cup {NoText}]
  BY DEF ChatInv, ChatShapes
<1>3. s \in Chats
  BY <1>1 DEF ChatInv, SendsPlaced, ChatShapes, Reading
<1>4. /\ pieces[x] \in 0..MaxPieces /\ pieces'[x] = pieces[x] + n /\ pieces'[x] \in 0..MaxPieces
      /\ pieces[x] <= pieces'[x]
  <2>1. pieces[x] \in 0..MaxPieces /\ pieces'[x] = pieces[x] + n
    BY <1>1, <1>2
  <2> QED
    BY <2>1, <1>1, ChatAssumption
<1>5. /\ pieces' \in [Sends -> 0..MaxPieces]
      /\ \A y \in Sends : y # x => pieces'[y] = pieces[y]
  BY <1>1, <1>2, <1>4
<1>6. \A y \in Sends : pieces[y] \in Int /\ pieces'[y] \in Int /\ pieces[y] <= pieces'[y]
  <2> SUFFICES ASSUME NEW y \in Sends PROVE pieces[y] \in Int /\ pieces'[y] \in Int /\ pieces[y] <= pieces'[y]
    OBVIOUS
  <2>1. pieces[y] \in 0..MaxPieces /\ pieces'[y] \in 0..MaxPieces
    BY <1>2, <1>5
  <2>2. y # x => pieces'[y] = pieces[y]
    BY <1>5
  <2> QED
    BY <2>1, <2>2, <1>4, ChatAssumption
<1>7. /\ text \in Answers \cup {NoText}
      /\ text # NoText => text.of = x /\ text.pieces = pieces'[x] /\ 0 < pieces'[x]
  BY <1>4, ChatAssumption DEF Answers, NoText
<1> HIDE DEF text
<1>8. /\ content' \in [Chats -> Answers \cup {NoText}] /\ streaming' \in [Chats -> BOOLEAN]
      /\ \A t \in Chats : t # s => content'[t] = content[t]
      /\ content'[s] = IF InStore(s) THEN text ELSE content[s]
  BY <1>1, <1>2, <1>3, <1>7
<1> HIDE DEF s
<1>9. ChatShapes'
  BY <1>1, <1>5, <1>8 DEF ChatInv, ChatShapes
<1>10. StoreIds'
  BY <1>1 DEF ChatInv, StoreIds, InStore
<1>11. NothingKept'
  BY <1>1, <1>8 DEF ChatInv, NothingKept, InStore
<1>12. SendsPlaced'
  BY <1>1, <1>5 DEF ChatInv, SendsPlaced, Reading
<1>13. StreamedBy'
  <2> SUFFICES ASSUME NEW t \in Chats, content'[t] # NoText
               PROVE  /\ content'[t].of \in Sends /\ Reading(content'[t].of) /\ chatOf[content'[t].of] = t
                      /\ 0 < content'[t].pieces /\ content'[t].pieces <= pieces'[content'[t].of]
    BY <1>1 DEF StreamedBy, Reading
  <2>1. CASE t = s /\ InStore(s)
    <3>1. content'[t] = text /\ text # NoText
      BY <2>1, <1>8
    <3>2. text.of = x /\ text.pieces = pieces'[x] /\ 0 < pieces'[x] /\ pieces'[x] <= pieces'[x]
      BY <3>1, <1>4, <1>7
    <3> QED
      BY Zenon, <2>1, <3>1, <3>2, <1>1 DEF s
  <2>2. CASE ~(t = s /\ InStore(s))
    <3>1. content'[t] = content[t]
      BY <2>2, <1>8
    <3> DEFINE y == content[t].of
               p == content[t].pieces
    <3>2. y \in Sends /\ Reading(y) /\ chatOf[y] = t /\ 0 < p /\ p <= pieces[y]
      BY <3>1 DEF ChatInv, StreamedBy
    <3>3. p \in Int
      <4>1. content[t] \in Answers
        BY <1>2, <3>1
      <4> QED
        BY <4>1 DEF Answers
    <3> HIDE DEF y, p
    <3>4. p <= pieces'[y]
      BY <3>2, <3>3, <1>6
    <3> QED
      BY Zenon, <3>1, <3>2, <3>4 DEF y, p
  <2> QED
    BY <2>1, <2>2
<1>14. KeptRight(messages, chatOf, pieces)'
  <2> SUFFICES ASSUME NEW t \in Chats, NEW i \in 1..Len(messages[t])
               PROVE  chatOf[messages[t][i].of] = t /\ messages[t][i].pieces <= pieces'[messages[t][i].of]
    BY <1>1 DEF KeptRight
  <2> DEFINE y == messages[t][i].of
             p == messages[t][i].pieces
  <2>1. chatOf[y] = t /\ p <= pieces[y]
    BY DEF ChatInv, KeptRight
  <2>2. y \in Sends /\ p \in Int
    <3>1. messages[t] \in Seq(Answers)
      BY <1>2
    <3>2. messages[t][i] \in Answers
      BY <3>1
    <3> QED
      BY <3>2 DEF Answers
  <2> HIDE DEF y, p
  <2>3. p <= pieces'[y]
    BY <2>1, <2>2, <1>6
  <2> QED
    BY Zenon, <2>1, <2>3 DEF y, p
<1>15. AloneReads'
  <2> SUFFICES ASSUME NEW y \in Sends, Reading(y), alone[y], InStore(chatOf[y])
               PROVE  /\ \A z \in Sends : Reading(z) /\ chatOf[z] = chatOf[y] => z = y
                      /\ content'[chatOf[y]] = IF pieces'[y] = 0 THEN NoText ELSE [of |-> y, pieces |-> pieces'[y]]
                      /\ Unplaced(messages[chatOf[y]], y) /\ Asked(messages[chatOf[y]], y)
    BY <1>1 DEF AloneReads, InStore, Reading
  <2>1. /\ \A z \in Sends : Reading(z) /\ chatOf[z] = chatOf[y] => z = y
        /\ content[chatOf[y]] = IF pieces[y] = 0 THEN NoText ELSE [of |-> y, pieces |-> pieces[y]]
        /\ Unplaced(messages[chatOf[y]], y) /\ Asked(messages[chatOf[y]], y)
    BY DEF ChatInv, AloneReads
  <2>2. content'[chatOf[y]] = IF pieces'[y] = 0 THEN NoText ELSE [of |-> y, pieces |-> pieces'[y]]
    <3>1. CASE y = x
      BY <3>1, <1>8 DEF s, text
    <3>2. CASE y # x
      <4>1. chatOf[y] # s /\ chatOf[y] \in Chats
        BY <3>2, <2>1, <1>1 DEF s, ChatInv, SendsPlaced, ChatShapes, Reading
      <4> QED
        BY <3>2, <4>1, <2>1, <1>5, <1>8
    <3> QED
      BY <3>1, <3>2
  <2> QED
    BY <2>1, <2>2
<1>16. AloneEnded'
  <2> SUFFICES ASSUME NEW y \in Sends, sendAt[y] = "ended", alone[y], pieces'[y] > 0, InStore(chatOf[y])
               PROVE  Answered(messages[chatOf[y]], y, pieces'[y])
    BY <1>1 DEF AloneEnded, InStore
  <2>1. pieces'[y] = pieces[y]
    BY <1>1, <1>5 DEF Reading
  <2> QED
    BY <2>1 DEF ChatInv, AloneEnded
<1> QED
  BY <1>9, <1>10, <1>11, <1>12, <1>13, <1>14, <1>15, <1>16 DEF ChatInv

\* What is streamed becomes a message of the chat, and nothing stays of it.
LEMMA EndsStep ==
  ASSUME ChatInv, NEW x \in Sends, EndsSend(x)
  PROVE  ChatInv'
<1> DEFINE s == chatOf[x]
<1>1. /\ Reading(x) /\ sendAt' = [sendAt EXCEPT ![x] = "ended"]
      /\ FinalizeStream(s)
      /\ UNCHANGED <<sessions, chatsMade, activeId, abortRef, aborted, chatOf, pieces, alone>>
  BY DEF EndsSend
<1>2. /\ sendAt \in [Sends -> {"none", "reading", "ended"}]
      /\ pieces \in [Sends -> 0..MaxPieces] /\ chatOf \in [Sends -> Chats \cup {Nothing}]
      /\ streaming \in [Chats -> BOOLEAN]
      /\ messages \in [Chats -> Seq(Answers)] /\ content \in [Chats -> Answers \cup {NoText}]
  BY DEF ChatInv, ChatShapes
<1>3. s \in Chats
  BY <1>1 DEF ChatInv, SendsPlaced, ChatShapes, Reading
<1>4. /\ sendAt' \in [Sends -> {"none", "reading", "ended"}] /\ sendAt'[x] = "ended"
      /\ \A y \in Sends : y # x => sendAt'[y] = sendAt[y]
  BY <1>1, <1>2
<1> DEFINE added == InStore(s) /\ content[s] # NoText
<1>5. content[s] # NoText =>
        /\ content[s] \in Answers /\ content[s].of \in Sends /\ Reading(content[s].of)
        /\ chatOf[content[s].of] = s /\ 0 < content[s].pieces
        /\ content[s].pieces <= pieces[content[s].of]
  <2> SUFFICES ASSUME content[s] # NoText
               PROVE  /\ content[s] \in Answers /\ content[s].of \in Sends /\ Reading(content[s].of)
                      /\ chatOf[content[s].of] = s /\ 0 < content[s].pieces
                      /\ content[s].pieces <= pieces[content[s].of]
    OBVIOUS
  <2>1. content[s] \in Answers
    BY <1>2, <1>3
  <2> QED
    BY Zenon, <2>1, <1>3 DEF ChatInv, StreamedBy
<1>6. /\ added => messages' = [messages EXCEPT ![s] = Append(@, content[s])]
      /\ ~added => messages' = messages
      /\ content' = IF added THEN [content EXCEPT ![s] = NoText] ELSE content
      /\ streaming' = IF added THEN [streaming EXCEPT ![s] = FALSE] ELSE streaming
  BY <1>1 DEF FinalizeStream, storeVars
<1>7. /\ content' \in [Chats -> Answers \cup {NoText}] /\ streaming' \in [Chats -> BOOLEAN]
      /\ \A t \in Chats : t # s => content'[t] = content[t]
  BY <1>2, <1>3, <1>6
<1>8. content'[s] = NoText
  <2>1. CASE added
    BY <2>1, <1>2, <1>3, <1>6
  <2>2. CASE ~added
    <3>1. content[s] = NoText
      BY <2>2, <1>3 DEF ChatInv, NothingKept
    <3> QED
      BY <2>2, <3>1, <1>6
  <2> QED
    BY <2>1, <2>2
<1>9. /\ messages' \in [Chats -> Seq(Answers)]
      /\ messages'[s] = IF added THEN Append(messages[s], content[s]) ELSE messages[s]
      /\ \A t \in Chats : t # s => messages'[t] = messages[t]
  <2>1. CASE added
    <3>1. messages[s] \in Seq(Answers) /\ Append(messages[s], content[s]) \in Seq(Answers)
      BY <2>1, <1>2, <1>3, <1>5
    <3>2. messages' = [messages EXCEPT ![s] = Append(messages[s], content[s])]
      BY <2>1, <1>6
    <3> HIDE DEF s, added
    <3> QED
      BY <2>1, <3>1, <3>2, <1>2, <1>3
  <2>2. CASE ~added
    BY <2>2, <1>2, <1>6
  <2> QED
    BY <2>1, <2>2
<1> HIDE DEF s, added
<1>10. ChatShapes'
  BY <1>1, <1>4, <1>7, <1>9 DEF ChatInv, ChatShapes
<1>11. StoreIds'
  BY <1>1 DEF ChatInv, StoreIds, InStore
<1>12. NothingKept'
  BY <1>1, <1>3, <1>7, <1>8, <1>9 DEF ChatInv, NothingKept, InStore, added
<1>13. SendsPlaced'
  BY <1>1, <1>4 DEF ChatInv, SendsPlaced, Reading
<1>14. StreamedBy'
  <2> SUFFICES ASSUME NEW t \in Chats, content'[t] # NoText
               PROVE  /\ content'[t].of \in Sends /\ sendAt'[content'[t].of] = "reading" /\ chatOf[content'[t].of] = t
                      /\ 0 < content'[t].pieces /\ content'[t].pieces <= pieces[content'[t].of]
    BY <1>1 DEF StreamedBy, Reading
  <2>1. t # s /\ content'[t] = content[t]
    BY <1>7, <1>8
  <2> DEFINE y == content[t].of
  <2>2. /\ y \in Sends /\ Reading(y) /\ chatOf[y] = t
        /\ 0 < content[t].pieces /\ content[t].pieces <= pieces[y]
    BY Zenon, <2>1 DEF ChatInv, StreamedBy
  <2> HIDE DEF y
  <2>3. y # x
    BY <2>1, <2>2 DEF s
  <2>4. sendAt'[y] = "reading"
    BY <2>2, <2>3, <1>4 DEF Reading
  <2> QED
    BY Zenon, <2>1, <2>2, <2>4 DEF y
<1>15. KeptRight(messages, chatOf, pieces)'
  <2>1. ASSUME NEW i \in 1..Len(messages'[s])
        PROVE  chatOf[messages'[s][i].of] = s /\ messages'[s][i].pieces <= pieces[messages'[s][i].of]
    <3>1. CASE added
      <4>1. /\ messages[s] \in Seq(Answers) /\ content[s] \in Answers
            /\ messages'[s] = Append(messages[s], content[s])
        BY <3>1, <1>2, <1>3, <1>5, <1>9 DEF added
      <4>2. i \in 1..Len(messages[s]) \/ i = Len(messages[s]) + 1
        BY <4>1
      <4>3. CASE i \in 1..Len(messages[s])
        <5>1. messages'[s][i] = messages[s][i]
          BY <4>1, <4>3
        <5> QED
          BY Zenon, <4>3, <5>1, <1>3 DEF ChatInv, KeptRight
      <4>4. CASE i = Len(messages[s]) + 1
        <5>1. messages'[s][i] = content[s]
          BY <4>1, <4>4
        <5> QED
          BY Zenon, <3>1, <5>1, <1>5 DEF added
      <4> QED
        BY <4>2, <4>3, <4>4
    <3>2. CASE ~added
      <4>1. messages'[s] = messages[s]
        BY <3>2, <1>9
      <4>2. i \in 1..Len(messages[s])
        BY <4>1
      <4> QED
        BY Zenon, <4>1, <4>2, <1>3 DEF ChatInv, KeptRight
    <3> QED
      BY <3>1, <3>2
  <2>2. ASSUME NEW t \in Chats, NEW i \in 1..Len(messages'[t])
        PROVE  chatOf[messages'[t][i].of] = t /\ messages'[t][i].pieces <= pieces[messages'[t][i].of]
    <3>1. CASE t = s
      BY <2>1, <3>1
    <3>2. CASE t # s
      <4>1. messages'[t] = messages[t]
        BY <3>2, <1>9
      <4>2. i \in 1..Len(messages[t])
        BY <4>1
      <4> QED
        BY Zenon, <4>1, <4>2 DEF ChatInv, KeptRight
    <3> QED
      BY <3>1, <3>2
  <2> QED
    BY <2>2, <1>1 DEF KeptRight
<1>16. AloneReads'
  <2> SUFFICES ASSUME NEW y \in Sends, Reading(y)', alone[y], InStore(chatOf[y])
               PROVE  /\ \A z \in Sends : Reading(z)' /\ chatOf[z] = chatOf[y] => z = y
                      /\ content'[chatOf[y]] = IF pieces[y] = 0 THEN NoText ELSE [of |-> y, pieces |-> pieces[y]]
                      /\ Unplaced(messages'[chatOf[y]], y) /\ Asked(messages'[chatOf[y]], y)
    BY <1>1 DEF AloneReads, InStore
  <2>1. y # x /\ Reading(y) /\ \A z \in Sends : Reading(z)' => Reading(z)
    BY <1>4 DEF Reading
  <2>2. /\ \A z \in Sends : Reading(z) /\ chatOf[z] = chatOf[y] => z = y
        /\ content[chatOf[y]] = IF pieces[y] = 0 THEN NoText ELSE [of |-> y, pieces |-> pieces[y]]
        /\ Unplaced(messages[chatOf[y]], y) /\ Asked(messages[chatOf[y]], y)
    BY <2>1 DEF ChatInv, AloneReads
  <2>3. chatOf[y] # s /\ chatOf[y] \in Chats
    BY <2>1, <2>2, <1>1 DEF s, ChatInv, SendsPlaced, ChatShapes, Reading
  <2> QED
    BY <2>1, <2>2, <2>3, <1>7, <1>9
<1>17. AloneEnded'
  <2> SUFFICES ASSUME NEW y \in Sends, sendAt'[y] = "ended", alone[y], pieces[y] > 0, InStore(chatOf[y])
               PROVE  Answered(messages'[chatOf[y]], y, pieces[y])
    BY <1>1 DEF AloneEnded, InStore
  <2>1. CASE y = x
    <3>1. content[s] = [of |-> x, pieces |-> pieces[x]]
      BY <2>1, <1>1, <1>2 DEF s, ChatInv, AloneReads
    <3>2. added
      BY <2>1, <3>1, <1>2, ChatAssumption DEF added, s, NoText
    <3>3. /\ Unplaced(messages[s], x) /\ Asked(messages[s], x)
          /\ content[s].of = x /\ content[s].pieces > 0 /\ content[s].pieces = pieces[x]
      BY <2>1, <3>1, <1>1 DEF s, ChatInv, AloneReads
    <3>4. content[s] \in Answers /\ messages[s] \in Seq(Answers)
      BY <3>2, <1>2, <1>3, <1>5 DEF added
    <3>5. Answered(Append(messages[s], content[s]), x, content[s].pieces)
      BY <3>3, <3>4, AddedMessage
    <3> QED
      BY <2>1, <3>2, <3>3, <3>5, <1>9 DEF s
  <2>2. CASE y # x
    <3>1. sendAt[y] = "ended"
      BY <2>2, <1>4
    <3>2. Answered(messages[chatOf[y]], y, pieces[y])
      BY <3>1 DEF ChatInv, AloneEnded
    <3>3. CASE chatOf[y] = s /\ added
      <4>1. content[s] \in Answers /\ content[s].of # y /\ messages[s] \in Seq(Answers)
        BY <3>1, <3>3, <1>2, <1>3, <1>5 DEF added, Reading
      <4>2. pieces[y] \in 0..MaxPieces
        BY <1>2
      <4>3. Answered(Append(messages[s], content[s]), y, pieces[y])
        BY <3>2, <3>3, <4>1, <4>2, AddedMessage
      <4> QED
        BY <3>3, <4>3, <1>9
    <3>4. CASE ~(chatOf[y] = s /\ added)
      <4>1. chatOf[y] \in Chats
        BY <3>1 DEF ChatInv, SendsPlaced, ChatShapes
      <4>2. messages'[chatOf[y]] = messages[chatOf[y]]
        BY <3>4, <4>1, <1>9
      <4> QED
        BY <3>2, <4>2
    <3> QED
      BY <3>3, <3>4
  <2> QED
    BY <2>1, <2>2
<1> QED
  BY <1>10, <1>11, <1>12, <1>13, <1>14, <1>15, <1>16, <1>17 DEF ChatInv

LEMMA ChatInvStep == ChatInv /\ [ChatNext]_chatVars => ChatInv'
BY Zenon, PageSteps, RemoveStep, SendStep, PieceStep, EndsStep DEF ChatNext

LEMMA ChatInvImplies == ChatInv => AnswersWhole /\ ChatTypeOK
<1> SUFFICES ASSUME ChatInv PROVE AnswersWhole /\ ChatTypeOK
  OBVIOUS
<1>1. /\ messages \in [Chats -> Seq(Answers)] /\ sessions \in Seq(Chats)
      /\ pieces \in [Sends -> 0..MaxPieces] /\ content \in [Chats -> Answers \cup {NoText}]
  BY DEF ChatInv, ChatShapes
<1>2. \A s \in Chats : messages[s] \in Seq(Answers) /\ DOMAIN messages[s] = 1..Len(messages[s])
  BY <1>1
<1>3. ASSUME NEW x \in Sends, sendAt[x] = "ended", alone[x], pieces[x] > 0, InStore(chatOf[x])
      PROVE  \E i \in DOMAIN messages[chatOf[x]] :
               /\ Places(x, chatOf[x]) = {i} /\ messages[chatOf[x]][i].pieces = pieces[x]
               /\ \E j \in 1..(i - 1) : messages[chatOf[x]][j] = Question(x)
  <2> DEFINE m == messages[chatOf[x]]
  <2>1. chatOf[x] \in Chats
    BY <1>3 DEF ChatInv, SendsPlaced, ChatShapes
  <2>2. DOMAIN m = 1..Len(m) /\ Len(m) \in Nat
    BY <2>1, <1>2
  <2>3. Answered(m, x, pieces[x])
    BY <1>3 DEF ChatInv, AloneEnded
  <2>4. Places(x, chatOf[x]) = {k \in 1..Len(m) : Placed(m, x, k)}
    BY <2>2 DEF Places, Placed
  <2> HIDE DEF m
  <2>5. PICK i \in 1..Len(m) : /\ Placed(m, x, i) /\ m[i].pieces = pieces[x]
                               /\ \A k \in 1..Len(m) : Placed(m, x, k) => k = i
                               /\ \E j \in 1..Len(m) : j < i /\ m[j] = Question(x)
    BY <2>3 DEF Answered
  <2>6. Places(x, chatOf[x]) = {i}
    BY Zenon, <2>4, <2>5
  <2>7. PICK j \in 1..Len(m) : j < i /\ m[j] = Question(x)
    BY <2>5
  <2>8. j \in 1..(i - 1)
    BY <2>2, <2>7
  <2> QED
    BY Zenon, <2>2, <2>5, <2>6, <2>7, <2>8 DEF m
<1>4. \A s \in Chats : \A i \in DOMAIN messages[s] :
        chatOf[messages[s][i].of] = s /\ messages[s][i].pieces <= pieces[messages[s][i].of]
  BY Zenon, <1>2 DEF ChatInv, KeptRight
<1>5. ASSUME NEW s \in ToSet(sessions), \A x \in Sends : Reading(x) => chatOf[x] # s
      PROVE  content[s] = NoText
  <2>1. s \in Chats
    BY <1>1 DEF ToSet
  <2> QED
    BY <1>5, <2>1 DEF ChatInv, StreamedBy
<1>6. AnswersWhole
  BY Zenon, <1>3, <1>4, <1>5 DEF AnswersWhole
<1>7. ChatTypeOK
  BY <1>1, <1>2 DEF ChatTypeOK, ChatInv, ChatShapes
<1> QED
  BY <1>6, <1>7

-----------------------------------------------------------------------------
(* The edge                                                                *)

EdgeInv ==
  /\ WsInv /\ SseInv /\ StreamInv /\ LinkInv /\ WaitTypeOK
  /\ UiInv /\ SocketInv /\ ChatInv

LEMMA EdgeInvInit == EdgeInit => EdgeInv
BY WsInvInit, SseInvInit, StreamInvInit, LinkInvInit, WaitTypeInit, UiInvInit, SocketInvInit,
   ChatInvInit DEF EdgeInit, EdgeInv

\* A step of the composition is a step of each part, or leaves it alone.
LEMMA EdgePartsStep ==
  ASSUME [EdgeNext]_edgeVars
  PROVE  /\ [Next]_vars /\ [SseNext]_ssevars /\ [StreamNext]_streamVars /\ [WsNext]_wsVars
         /\ [WaitNext]_waitVars /\ [UiNext]_uiVars /\ [SocketNext]_socketVars
         /\ [ChatNext]_chatVars
BY Zenon DEF EdgeNext, edgeVars

LEMMA EdgeInvStep == EdgeInv /\ [EdgeNext]_edgeVars => EdgeInv'
BY EdgePartsStep, WsInvStep, SseInvStep, StreamInvStep, LinkInvStep, WaitTypeStep, UiInvStep,
   SocketInvStep, ChatInvStep, Zenon DEF EdgeInv

LEMMA EdgeInvariant == EdgeSpec => []EdgeInv
BY EdgeInvInit, EdgeInvStep, PTL DEF EdgeSpec

\* The state of every part is what its declarations say.
THEOREM EdgeTypeCorrect == EdgeSpec => []EdgeTypeOK
<1>1. WsInv /\ SseInv => TypeOK /\ SseTypeOK
  BY DEF WsInv, SseInv
<1>2. UiInv /\ SocketInv => UiTypeOK /\ SocketTypeOK
  BY DEF UiInv, SocketInv
<1>3. EdgeInv => EdgeTypeOK
  BY Zenon, <1>1, <1>2, StreamInvImplies, LinkInvImplies, ChatInvImplies DEF EdgeInv, EdgeTypeOK
<1> QED
  BY <1>3, EdgeInvariant, PTL

\* What either hub hands to a peer is what was put into its channel, in that
\* order, and a completed stream has all of it; the functions of a client are
\* called with what was sent to it, in order, and none of it is missed without
\* an error (handler.go, streaming.go, sse.go, ws.go).
THEOREM StreamsFaithfulCorrect == EdgeSpec => []StreamsFaithful
<1>1. SseInv => StreamComplete
  BY DEF SseInv
<1>2. EdgeInv => StreamsFaithful
  BY Zenon, <1>1, WsInvImplies, StreamInvImplies, LinkInvImplies DEF EdgeInv, StreamsFaithful
<1> QED
  BY <1>2, EdgeInvariant, PTL

\* A page sends no stale token, has one connection at most and shows and pings
\* none that is gone, nor misses the one there is before its layout is first
\* unmounted; an answer with text that no other send of its chat overlaps is
\* kept once, whole, behind its question (client.ts, ws.ts, chat.ts).
THEOREM PageConsistentCorrect == EdgeSpec => []PageConsistent
<1>1. UiInv => UiSendsFresh
  BY DEF UiInv
<1>2. EdgeInv => PageConsistent
  BY Zenon, <1>1, SocketInvImplies, ChatInvImplies DEF EdgeInv, PageConsistent
<1> QED
  BY <1>2, EdgeInvariant, PTL
=============================================================================
