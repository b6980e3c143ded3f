------------------------------ MODULE LogStream ------------------------------
(***************************************************************************)
(* The log stream of a task in bzy-runner (internal/logstream/             *)
(* logstream.go): Write stores an entry in a Redis stream and then         *)
(* publishes it, Tail hands published entries to a reader, and History     *)
(* reads the stream.                                                       *)
(*                                                                         *)
(* An entry is a pair of its writer and a number.  Published entries reach *)
(* only those who are subscribed, connected and have room for them.  The   *)
(* Redis client sends a command again after a network error, and one that  *)
(* its caller no longer waits for may still run.                           *)
(***************************************************************************)
EXTENDS Naturals, Sequences, FiniteSets, SequencesExt

CONSTANTS
  Writers,      \* goroutines that write, one entry after the other
  Tails,        \* calls of Tail, each with a reader
  MaxLen,       \* 10 000
  MaxWrites,    \* bound: entries of a writer
  MaxStrays,    \* bound: commands that outlive their call
  BufferSize    \* entries under way to a Tail: 100 in sub.Channel(), and the connection's

ASSUME LogAssumption ==
  MaxLen \in Nat \ {0} /\ MaxWrites \in Nat /\ MaxStrays \in Nat /\ BufferSize \in Nat

VARIABLES
  log,          \* bzy:logs:<task>, oldest first
  writeAt,      \* where each writer is
  writes,       \* entries it has begun to write
  kept,         \* entries that were ever in the log
  strays,       \* commands that outlived their call
  pending,      \* those of them that have not run yet
  tailAt,       \* where each Tail is
  subscribed,   \* Redis knows of the subscription
  buffer,       \* what is under way to sub.Channel() and in it
  holding,      \* the entry that Tail is sending
  cancelled,    \* ctx is over
  reading,      \* the reader still receives
  received      \* what it has received

writerVars == <<log, writeAt, writes, kept, strays, pending>>
tailVars == <<tailAt, subscribed, buffer, holding, cancelled, reading, received>>
logVars == <<writerVars, tailVars>>

LogEntries == Writers \X (1..MaxWrites)
Commands == {"xadd", "publish"} \X LogEntries

LogTypeOK ==
  /\ log \in BoundedSeq(LogEntries, MaxLen)
  /\ writeAt \in [Writers -> {"idle", "publish"}]
  /\ writes \in [Writers -> 0..MaxWrites]
  /\ kept \in SUBSET LogEntries
  /\ strays \in SUBSET Commands /\ pending \subseteq strays
  /\ tailAt \in [Tails -> {"none", "select", "send", "returned"}]
  /\ subscribed \in [Tails -> BOOLEAN] /\ cancelled \in [Tails -> BOOLEAN]
  /\ reading \in [Tails -> BOOLEAN]
  /\ \A t \in Tails : /\ buffer[t] \in Seq(LogEntries) /\ Len(buffer[t]) <= BufferSize
                      /\ Len(holding[t]) <= 1 /\ received[t] \in Seq(LogEntries)

LogInit ==
  /\ log = <<>> /\ kept = {} /\ strays = {} /\ pending = {}
  /\ writeAt = [w \in Writers |-> "idle"] /\ writes = [w \in Writers |-> 0]
  /\ tailAt = [t \in Tails |-> "none"] /\ subscribed = [t \in Tails |-> FALSE]
  /\ buffer = [t \in Tails |-> <<>>] /\ holding = [t \in Tails |-> <<>>]
  /\ cancelled = [t \in Tails |-> FALSE] /\ reading = [t \in Tails |-> TRUE]
  /\ received = [t \in Tails |-> <<>>]

-----------------------------------------------------------------------------
(* Write                                                                   *)

LastOf(n, s) == SubSeq(s, IF Len(s) > n THEN Len(s) - n + 1 ELSE 1, Len(s))

\* Variant for mutation: XADD without a MAXLEN.
StoredUntrimmed(e) == log' = Append(log, e) /\ kept' = kept \cup {e}

Stored(e) == log' = LastOf(MaxLen, Append(log, e)) /\ kept' = kept \cup {e}

BeginsWrite(w) ==
  /\ writeAt[w] = "idle" /\ writes[w] < MaxWrites
  /\ writes' = [writes EXCEPT ![w] = @ + 1]

\* The client sent the command a second time, or gave it up, and what it no
\* longer waits for may still run.
MayStray(op, e) ==
  \/ UNCHANGED <<strays, pending>>
  \/ /\ Cardinality(strays) < MaxStrays
     /\ strays' = strays \cup {<<op, e>>} /\ pending' = pending \cup {<<op, e>>}

\* XADD with an exact MAXLEN.
XAdd(w) ==
  /\ BeginsWrite(w)
  /\ Stored(<<w, writes'[w]>>)
  /\ MayStray("xadd", <<w, writes'[w]>>)
  /\ writeAt' = [writeAt EXCEPT ![w] = "publish"]
  /\ UNCHANGED tailVars

\* An error, with which Write returns: the entry is in the log or not.
XAddFails(w) ==
  /\ BeginsWrite(w)
  /\ Stored(<<w, writes'[w]>>) \/ UNCHANGED <<log, kept>>
  /\ MayStray("xadd", <<w, writes'[w]>>)
  /\ UNCHANGED <<writeAt, tailVars>>

\* Published entries go to those who can take them.
Published(e) ==
  \E T \in SUBSET {t \in Tails : subscribed[t] /\ Len(buffer[t]) < BufferSize} :
    buffer' = [t \in Tails |-> IF t \in T THEN Append(buffer[t], e) ELSE buffer[t]]

\* Variant for mutation: the entry is published by a goroutine of its own.
PublishLate(w) ==
  /\ writes[w] > 0
  /\ writeAt' = [writeAt EXCEPT ![w] = "idle"]
  /\ \E n \in 1..writes[w] : <<w, n>> \in kept /\ Published(<<w, n>>)
  /\ UNCHANGED <<log, writes, kept, strays, pending, tailAt, subscribed, holding, cancelled, reading, received>>

\* PUBLISH, answered or not; Write returns what it returned.
Publish(w) ==
  /\ writeAt[w] = "publish"
  /\ writeAt' = [writeAt EXCEPT ![w] = "idle"]
  /\ Published(<<w, writes[w]>>)
  /\ MayStray("publish", <<w, writes[w]>>)
  /\ UNCHANGED <<log, writes, kept, tailAt, subscribed, holding, cancelled, reading, received>>

\* A command that outlived its call runs, or is lost.
LateRuns(op, e) ==
  /\ <<op, e>> \in pending
  /\ pending' = pending \ {<<op, e>>}
  /\ \/ op = "xadd" /\ Stored(e) /\ UNCHANGED buffer
     \/ op = "publish" /\ Published(e) /\ UNCHANGED <<log, kept>>
  /\ UNCHANGED <<writeAt, writes, strays, tailAt, subscribed, holding, cancelled, reading, received>>

LateLost(c) ==
  /\ c \in pending
  /\ pending' = pending \ {c}
  /\ UNCHANGED <<log, writeAt, writes, kept, strays, tailVars>>

-----------------------------------------------------------------------------
(* Tail                                                                    *)

TailGoto(t, label) == tailAt' = [tailAt EXCEPT ![t] = label]

\* Subscribe sends its command and does not wait for the answer.
TailBegins(t) ==
  /\ tailAt[t] = "none"
  /\ TailGoto(t, "select")
  /\ UNCHANGED <<writerVars, subscribed, buffer, holding, cancelled, reading, received>>

Subscribe(t) ==
  /\ tailAt[t] \in {"select", "send"} /\ ~subscribed[t]
  /\ subscribed' = [subscribed EXCEPT ![t] = TRUE]
  /\ UNCHANGED <<writerVars, tailAt, buffer, holding, cancelled, reading, received>>

\* Variant for mutation: ctx is not among the cases.
TailDoneNever(t) == FALSE /\ UNCHANGED <<writerVars, tailVars>>

\* case <-ctx.Done(), and the deferred Close.
TailDone(t) ==
  /\ tailAt[t] = "select" /\ cancelled[t]
  /\ TailGoto(t, "returned")
  /\ subscribed' = [subscribed EXCEPT ![t] = FALSE]
  /\ buffer' = [buffer EXCEPT ![t] = <<>>]
  /\ UNCHANGED <<writerVars, holding, cancelled, reading, received>>

\* case msg := <-sub.Channel()
TailTakes(t) ==
  /\ tailAt[t] = "select" /\ buffer[t] # <<>>
  /\ holding' = [holding EXCEPT ![t] = <<Head(buffer[t])>>]
  /\ buffer' = [buffer EXCEPT ![t] = Tail(@)]
  /\ TailGoto(t, "send")
  /\ UNCHANGED <<writerVars, subscribed, cancelled, reading, received>>

\* ch <- entry, whatever becomes of ctx meanwhile.
TailSends(t) ==
  /\ tailAt[t] = "send" /\ reading[t]
  /\ received' = [received EXCEPT ![t] = @ \o holding[t]]
  /\ holding' = [holding EXCEPT ![t] = <<>>]
  /\ TailGoto(t, "select")
  /\ UNCHANGED <<writerVars, subscribed, buffer, cancelled, reading>>

TailCancelled(t) ==
  /\ tailAt[t] # "none"
  /\ cancelled' = [cancelled EXCEPT ![t] = TRUE]
  /\ UNCHANGED <<writerVars, tailAt, subscribed, buffer, holding, reading, received>>

ReaderStops(t) ==
  /\ reading' = [reading EXCEPT ![t] = FALSE]
  /\ UNCHANGED <<writerVars, tailAt, subscribed, buffer, holding, cancelled, received>>

\* The newest first.
History(limit) == Reverse(LastOf(limit, log))

-----------------------------------------------------------------------------
TailStep(t) == TailDone(t) \/ TailTakes(t) \/ TailSends(t)

LogNext ==
  \/ \E w \in Writers : XAdd(w) \/ XAddFails(w) \/ Publish(w)
  \/ \E c \in pending : LateRuns(c[1], c[2]) \/ LateLost(c)
  \/ \E t \in Tails : \/ TailBegins(t) \/ Subscribe(t) \/ TailStep(t)
                      \/ TailCancelled(t) \/ ReaderStops(t)

\* Tail runs on, and a reader that has not stopped receives.
LogFairness == \A t \in Tails : WF_logVars(TailStep(t))

-----------------------------------------------------------------------------
(* Properties                                                              *)

Place(e, s) == SelectInSeq(s, LAMBDA x : x = e)

\* What a reader receives live was stored.  No entry comes after a later one of
\* its writer, or a second time, unless its own PUBLISH outlived its call; and
\* History shows entries in the order they are received in, unless the PUBLISH
\* of the second or an XADD of either did (logstream.go: Write, Tail, History).
TailFollowsHistory ==
  \A t \in Tails :
    LET r == received[t] IN
    /\ ToSet(r) \subseteq kept
    /\ \A i, j \in DOMAIN r : i < j /\ r[i][1] = r[j][1] /\ <<"publish", r[j]>> \notin strays =>
         /\ r[i][2] < r[j][2]
         /\ {<<"xadd", r[i]>>, <<"xadd", r[j]>>} \cap strays = {} /\ Place(r[i], log) > 0 =>
              Place(r[j], History(MaxLen)) \in 1..(Place(r[i], History(MaxLen)) - 1)

\* A Tail whose context is over returns, unless its reader has stopped
\* (logstream.go:110).
TailReturns ==
  \A t \in Tails : cancelled[t] ~> tailAt[t] = "returned" \/ ~reading[t]
=============================================================================
