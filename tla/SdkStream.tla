------------------------------ MODULE SdkStream ------------------------------
(***************************************************************************)
(* The streams of the Go SDK (pkg/client): chat, agent and log streams are *)
(* an SSEReader over the body of a response.  Next assembles an event from *)
(* the lines it reads; Iter hands events to the caller's function until    *)
(* the stream ends.                                                        *)
(*                                                                         *)
(* The wire is the lines that were sent and not yet read.  The server      *)
(* writes whole events (SseHub's ServeSSE); its handler may return before  *)
(* the stream is complete, and the connection may break between two lines. *)
(***************************************************************************)
EXTENDS Naturals, Sequences, SequencesExt

CONSTANTS
  Streams,     \* streams
  Types,       \* types of events other than "done"
  Payloads,    \* data that decodes
  BadPayload,  \* data that does not
  NoData,      \* an empty field
  MaxEvents    \* bound: events of a stream

ASSUME StreamAssumption ==
  /\ "done" \notin Types /\ NoData \notin Payloads \cup {BadPayload}
  /\ Payloads # {} /\ MaxEvents \in Nat

VARIABLES
  streamAt,   \* where the caller is
  wire,       \* lines not yet read
  ending,     \* "open", "eof", or "broken"
  whole,      \* the server wrote "done"
  event,      \* the event that Next assembles
  written,    \* events the server wrote, without "done"
  given,      \* events the caller's function was called with
  over,       \* the context given to Iter is over
  result      \* what Iter returned

streamVars == <<streamAt, wire, ending, whole, event, written, given, over, result>>

StreamEvents == [type : Types, data : Payloads \cup {BadPayload}]
Blank == [field |-> "blank", value |-> NoData]
NoEvent == [type |-> NoData, data |-> NoData]

LinesOf(e) == <<[field |-> "event", value |-> e.type], [field |-> "data", value |-> e.data], Blank>>

StreamTypeOK ==
  /\ streamAt \in [Streams -> {"none", "iter", "next", "fn", "returned"}]
  /\ \A s \in Streams :
       /\ \A i \in DOMAIN wire[s] : wire[s][i].field \in {"event", "data", "blank"}
       /\ written[s] \in BoundedSeq(StreamEvents, MaxEvents) /\ given[s] \in BoundedSeq(StreamEvents, MaxEvents)
  /\ ending \in [Streams -> {"open", "eof", "broken"}]
  /\ whole \in [Streams -> BOOLEAN] /\ over \in [Streams -> BOOLEAN]
  /\ event \in [Streams -> [type : Types \cup {"done", NoData}, data : Payloads \cup {BadPayload, NoData}]]
  /\ result \in [Streams -> {"none", "nil", "status", "read", "decode", "ctx", "fn"}]

StreamInit ==
  /\ streamAt = [s \in Streams |-> "none"] /\ result = [s \in Streams |-> "none"]
  /\ wire = [s \in Streams |-> <<>>] /\ ending = [s \in Streams |-> "open"]
  /\ whole = [s \in Streams |-> FALSE] /\ over = [s \in Streams |-> FALSE]
  /\ event = [s \in Streams |-> NoEvent]
  /\ written = [s \in Streams |-> <<>>] /\ given = [s \in Streams |-> <<>>]

readerVars == <<streamAt, event, given, over, result>>
serverVars == <<wire, ending, whole, written>>

Ends(s, how) ==
  /\ streamAt' = [streamAt EXCEPT ![s] = "returned"]
  /\ result' = [result EXCEPT ![s] = how]

-----------------------------------------------------------------------------
(* Stream, Logs and RunStream                                              *)

OpenStream(s) ==
  /\ streamAt[s] = "none"
  /\ streamAt' = [streamAt EXCEPT ![s] = "iter"]
  /\ UNCHANGED <<serverVars, event, given, over, result>>

\* No connection, or an answer of 400 or more.
OpenFails(s) ==
  /\ streamAt[s] = "none"
  /\ Ends(s, "status")
  /\ UNCHANGED <<serverVars, event, given, over>>

-----------------------------------------------------------------------------
(* The server and the connection                                           *)

Sending(s) == streamAt[s] # "none" /\ result[s] # "status" /\ ending[s] = "open"

WriteEvent(s, e) ==
  /\ Sending(s) /\ Len(written[s]) < MaxEvents
  /\ written' = [written EXCEPT ![s] = Append(@, e)]
  /\ wire' = [wire EXCEPT ![s] = @ \o LinesOf(e)]
  /\ UNCHANGED <<readerVars, ending, whole>>

Completes(s) ==
  /\ Sending(s)
  /\ wire' = [wire EXCEPT ![s] = @ \o LinesOf([type |-> "done", data |-> CHOOSE p \in Payloads : TRUE])]
  /\ whole' = [whole EXCEPT ![s] = TRUE]
  /\ ending' = [ending EXCEPT ![s] = "eof"]
  /\ UNCHANGED <<readerVars, written>>

\* The handler's context is over, or an event's data has no JSON, which is
\* found when its type is written already.
StopsShort(s) ==
  /\ Sending(s)
  /\ \E cut \in {<<>>} \cup {<<LinesOf([type |-> t, data |-> NoData])[1]>> : t \in Types} :
       wire' = [wire EXCEPT ![s] = @ \o cut]
  /\ ending' = [ending EXCEPT ![s] = "eof"]
  /\ UNCHANGED <<readerVars, whole, written>>

\* With the connection, or with the context given to Stream, goes what was
\* under way.
Breaks(s) ==
  /\ streamAt[s] \notin {"none", "returned"} /\ ending[s] # "broken"
  /\ ending' = [ending EXCEPT ![s] = "broken"]
  /\ \E n \in 0..Len(wire[s]) : wire' = [wire EXCEPT ![s] = SubSeq(@, 1, n)]
  /\ UNCHANGED <<readerVars, whole, written>>

-----------------------------------------------------------------------------
(* Iter and Next                                                           *)

IterCancelled(s) ==
  /\ streamAt[s] \notin {"none", "returned"}
  /\ over' = [over EXCEPT ![s] = TRUE]
  /\ UNCHANGED <<serverVars, streamAt, event, given, result>>

\* The context is looked at between two events only.
IterLoops(s) ==
  /\ streamAt[s] = "iter"
  /\ IF over[s] THEN Ends(s, "ctx")
                ELSE streamAt' = [streamAt EXCEPT ![s] = "next"] /\ UNCHANGED result
  /\ event' = [event EXCEPT ![s] = NoEvent]
  /\ UNCHANGED <<serverVars, given, over>>

Fill(s, line) ==
  CASE line.field = "event" -> [event[s] EXCEPT !.type = line.value]
    [] line.field = "data"  -> [event[s] EXCEPT !.data = line.value]
    [] OTHER                -> event[s]

IsDone(e) == e.type = "done"

\* A blank line, or the end of the body, with what was assembled so far.
EndsEvent(s) ==
  IF IsDone(event[s]) THEN Ends(s, "nil") /\ UNCHANGED event
  ELSE IF event[s].data # NoData
    THEN streamAt' = [streamAt EXCEPT ![s] = "fn"] /\ UNCHANGED <<event, result>>
    ELSE event' = [event EXCEPT ![s] = NoEvent] /\ UNCHANGED <<streamAt, result>>

ReadLine(s) ==
  /\ streamAt[s] = "next" /\ wire[s] # <<>>
  /\ wire' = [wire EXCEPT ![s] = Tail(@)]
  /\ IF Head(wire[s]) = Blank
       THEN EndsEvent(s)
       ELSE event' = [event EXCEPT ![s] = Fill(s, Head(wire[s]))] /\ UNCHANGED <<streamAt, result>>
  /\ UNCHANGED <<ending, whole, written, given, over>>

ReadEof(s) ==
  /\ streamAt[s] = "next" /\ wire[s] = <<>> /\ ending[s] = "eof"
  /\ IF event[s].data # NoData /\ ~IsDone(event[s]) THEN EndsEvent(s) ELSE Ends(s, "nil") /\ UNCHANGED event
  /\ UNCHANGED <<serverVars, given, over>>

\* Variant for mutation: every error is the end of the stream.
ReadErrorIsEof(s) ==
  /\ streamAt[s] = "next" /\ wire[s] = <<>> /\ ending[s] = "broken"
  /\ Ends(s, "nil")
  /\ UNCHANGED <<serverVars, event, given, over>>

ReadError(s) ==
  /\ streamAt[s] = "next" /\ wire[s] = <<>> /\ ending[s] = "broken"
  /\ Ends(s, "read")
  /\ UNCHANGED <<serverVars, event, given, over>>

\* Variant for mutation: data that does not decode is skipped.
SkipsBad(s) ==
  /\ streamAt[s] = "fn" /\ event[s].data = BadPayload
  /\ streamAt' = [streamAt EXCEPT ![s] = "iter"]
  /\ UNCHANGED <<serverVars, event, given, over, result>>

DecodeFails(s) ==
  /\ streamAt[s] = "fn" /\ event[s].data = BadPayload
  /\ Ends(s, "decode")
  /\ UNCHANGED <<serverVars, event, given, over>>

\* fn, which may end the iteration with an error of its own.
CallFn(s) ==
  /\ streamAt[s] = "fn" /\ event[s].data # BadPayload
  /\ given' = [given EXCEPT ![s] = Append(@, event[s])]
  /\ \/ streamAt' = [streamAt EXCEPT ![s] = "iter"] /\ UNCHANGED result
     \/ Ends(s, "fn")
  /\ UNCHANGED <<serverVars, event, over>>

-----------------------------------------------------------------------------
IterStep(s) ==
  IterLoops(s) \/ ReadLine(s) \/ ReadEof(s) \/ ReadError(s) \/ DecodeFails(s) \/ CallFn(s)

StreamNext ==
  \E s \in Streams :
    \/ OpenStream(s) \/ OpenFails(s) \/ IterCancelled(s) \/ IterStep(s)
    \/ Completes(s) \/ StopsShort(s) \/ Breaks(s)
    \/ \E e \in StreamEvents : WriteEvent(s, e)

\* Iter goes on, and so does the caller's function.
StreamFairness == \A s \in Streams : WF_streamVars(IterStep(s))

-----------------------------------------------------------------------------
(* Properties                                                              *)

\* The function is called with what the server wrote, in order and unbroken,
\* whatever breaks and wherever it breaks; and Iter returns nil only after
\* all of it, so that what is missing then is what the server's handler
\* itself left out by returning early (sse.go Next, Iter).
IterFaithful ==
  \A s \in Streams :
    /\ IsPrefix(given[s], written[s])
    /\ result[s] = "nil" => given[s] = written[s] /\ ending[s] # "open"

\* Once the server or the connection has ended the stream, Iter returns; the
\* end of its own context is not enough while no event comes (sse.go:82).
IterEnds ==
  \A s \in Streams : ending[s] # "open" ~> streamAt[s] = "returned"
=============================================================================
