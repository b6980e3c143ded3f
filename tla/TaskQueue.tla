------------------------------ MODULE TaskQueue ------------------------------
(***************************************************************************)
(* The Redis Streams task queue of bzy-runner (internal/queue/queue.go).   *)
(*                                                                         *)
(* One stream and one consumer group are shared by every node.  A stream   *)
(* entry is identified by its position; what distinguishes entries here is *)
(* whether a handler is registered for the task type ("known"/"unknown")   *)
(* or the entry has no readable task at all ("bad", written by someone     *)
(* other than Enqueue).  Entries are never trimmed or deleted.             *)
(***************************************************************************)
EXTENDS Integers, Sequences

CONSTANTS
  Kinds,        \* the kinds of entries in play, a subset of the three above
  MaxEntries    \* bound: entries ever added to the stream

ASSUME KindsAssumption == Kinds \subseteq {"known", "unknown", "bad"}
ASSUME MaxEntriesAssumption == MaxEntries \in Nat

VARIABLES
  stream,   \* the stream: kinds of the entries, oldest first
  group,    \* whether the consumer group exists
  cursor,   \* the group's last-delivered entry, 0 before the first
  pel       \* the group's pending entries list, as entry positions

qvars == <<stream, group, cursor, pel>>

QTypeOK ==
  /\ stream \in Seq(Kinds)
  /\ group \in BOOLEAN
  /\ cursor \in 0..Len(stream)
  /\ pel \subseteq 1..cursor

QInit ==
  /\ stream = <<>>
  /\ group = FALSE
  /\ cursor = 0
  /\ pel = {}

\* XADD of a marshalled task (or, for a "bad" entry, of anything else).
Enqueue(k) ==
  /\ Len(stream) < MaxEntries
  /\ stream' = Append(stream, k)
  /\ UNCHANGED <<group, cursor, pel>>

\* Variant for mutation: the group starts at "$", the end of the stream.
EnsureGroupAtEnd ==
  /\ group' = TRUE
  /\ cursor' = IF group THEN cursor ELSE Len(stream)
  /\ UNCHANGED <<stream, pel>>

\* XGROUP CREATE ... 0 MKSTREAM: the group starts before the first entry, and
\* the BUSYGROUP error of a group that exists is ignored.
EnsureGroup ==
  /\ group' = TRUE
  /\ UNCHANGED <<stream, cursor, pel>>

\* Variant for mutation: the delivered entry is not counted as delivered.
ReadGroupAgain ==
  /\ group
  /\ cursor < Len(stream)
  /\ pel' = pel \cup {cursor + 1}
  /\ UNCHANGED <<stream, group, cursor>>

\* XREADGROUP ">" COUNT 1 finding an entry: the server moves the group's
\* cursor over it and adds it to the pending entries list.
ReadGroup ==
  /\ group
  /\ cursor < Len(stream)
  /\ cursor' = cursor + 1
  /\ pel' = pel \cup {cursor + 1}
  /\ UNCHANGED <<stream, group>>

\* XREADGROUP blocking for 500 ms in vain.
ReadGroupEmpty ==
  /\ group
  /\ cursor = Len(stream)
  /\ UNCHANGED qvars

\* The UUID of the task in entry e.  A UUID is never the stream ID of an
\* entry, and XACK knows stream IDs only.
TaskID(e) == - e

XAck(id) ==
  /\ pel' = pel \ {id}
  /\ UNCHANGED <<stream, group, cursor>>

\* Ack hands the task's UUID to XACK.
Ack(e) == XAck(TaskID(e))

\* Nack returns without a call.
Nack(e) == UNCHANGED qvars
=============================================================================
