------------------------- MODULE ConversationMemory -------------------------
(***************************************************************************)
(* The conversation memory of bzy-brain (internal/memory/memory.go,        *)
(* repository.go): one session, calls of AddMessage that stamp a message   *)
(* and insert it, and calls of BuildContext that read the session and then *)
(* its last messages by their stamps.  Calls run concurrently, on whatever *)
(* replica of the service they reach (deploy/k8s/base                      *)
(* bzy-brain-deployment.yaml asks for two).                                *)
(*                                                                         *)
(* A stamp is the wall clock of the replica.  The clocks of two replicas   *)
(* have nothing to do with each other; the one of a replica is assumed not *)
(* to be set back.  Stamps have the resolution of the column, a            *)
(* microsecond, so messages added at once may have the same and then come  *)
(* in any order; an INSERT takes longer than that.                         *)
(***************************************************************************)
EXTENDS Naturals, Sequences, FiniteSets

CONSTANTS
  Messages,   \* calls of AddMessage
  Replicas,   \* processes of the service
  ReplicaOf,  \* the replica that a call of AddMessage reaches
  Readers,    \* calls of BuildContext
  Window,     \* 20
  MaxStamp    \* bound: the last time a message is stamped at

ASSUME MemoryAssumption ==
  /\ Window \in Nat \ {0} /\ MaxStamp \in Nat
  /\ ReplicaOf \in [Messages -> Replicas]

VARIABLES
  time,      \* the wall clock of each replica
  saved,     \* the session has its row
  added,     \* where each AddMessage is
  stamp,     \* msg.CreatedAt
  earlier,   \* the messages whose AddMessage had returned when this one began
  readAt,    \* where each BuildContext is
  known,     \* the messages that had been added when a BuildContext began
  context    \* what BuildContext returned

memVars == <<time, saved, added, stamp, earlier, readAt, known, context>>

MemTypeOK ==
  /\ time \in [Replicas -> 0..(MaxStamp + 1)] /\ saved \in BOOLEAN
  /\ added \in [Messages -> {"none", "insert", "inserted", "returned", "failed"}]
  /\ stamp \in [Messages -> 0..MaxStamp]
  /\ earlier \in [Messages -> SUBSET Messages] /\ known \in [Readers -> SUBSET Messages]
  /\ readAt \in [Readers -> {"none", "session", "messages", "done", "failed"}]
  /\ \A r \in Readers : context[r] \in Seq(Messages) /\ Len(context[r]) <= Window

MemInit ==
  /\ time = [n \in Replicas |-> 0] /\ saved = FALSE
  /\ added = [m \in Messages |-> "none"] /\ stamp = [m \in Messages |-> 0]
  /\ earlier = [m \in Messages |-> {}]
  /\ readAt = [r \in Readers |-> "none"] /\ known = [r \in Readers |-> {}]
  /\ context = [r \in Readers |-> <<>>]

MemTick(n) ==
  /\ time[n] <= MaxStamp
  /\ time' = [time EXCEPT ![n] = @ + 1]
  /\ UNCHANGED <<saved, added, stamp, earlier, readAt, known, context>>

\* An upsert of the session's row.
SaveSession ==
  /\ saved' = TRUE
  /\ UNCHANGED <<time, added, stamp, earlier, readAt, known, context>>

-----------------------------------------------------------------------------
(* AddMessage                                                              *)

Returned == {m \in Messages : added[m] = "returned"}
Inserted == {m \in Messages : added[m] \in {"inserted", "returned"}}

Now(m) == time[ReplicaOf[m]]

AddMessage(m) ==
  /\ added[m] = "none" /\ Now(m) <= MaxStamp
  /\ stamp' = [stamp EXCEPT ![m] = Now(m)]
  /\ earlier' = [earlier EXCEPT ![m] = Returned]
  /\ added' = [added EXCEPT ![m] = "insert"]
  /\ UNCHANGED <<time, saved, readAt, known, context>>

\* The row is committed; the session must have its own.
AppendMessage(m) ==
  /\ added[m] = "insert" /\ Now(m) > stamp[m] /\ saved
  /\ added' = [added EXCEPT ![m] = "inserted"]
  /\ UNCHANGED <<time, saved, stamp, earlier, readAt, known, context>>

AppendReturns(m) ==
  /\ added[m] = "inserted"
  /\ added' = [added EXCEPT ![m] = "returned"]
  /\ UNCHANGED <<time, saved, stamp, earlier, readAt, known, context>>

\* No session, or a failure before the row is there.
AppendFails(m) ==
  /\ added[m] = "insert" /\ Now(m) > stamp[m]
  /\ added' = [added EXCEPT ![m] = "failed"]
  /\ UNCHANGED <<time, saved, stamp, earlier, readAt, known, context>>

-----------------------------------------------------------------------------
(* BuildContext                                                            *)

ReadGoto(r, label) == readAt' = [readAt EXCEPT ![r] = label]

BuildContext(r) ==
  /\ readAt[r] = "none"
  /\ known' = [known EXCEPT ![r] = Returned]
  /\ ReadGoto(r, "session")
  /\ UNCHANGED <<time, saved, added, stamp, earlier, context>>

\* The first statement of GetSession: an error without the session's row.
ReadSession(r) ==
  /\ readAt[r] = "session"
  /\ ReadGoto(r, IF saved THEN "messages" ELSE "failed")
  /\ UNCHANGED <<time, saved, added, stamp, earlier, known, context>>

\* S ordered by created_at, in one of the ways there are.
Ordered(S) ==
  {s \in [1..Cardinality(S) -> S] :
     \A i, j \in DOMAIN s : i < j => s[i] # s[j] /\ stamp[s[i]] <= stamp[s[j]]}

\* Variant for mutation: the first messages instead of the last.
ReadMessagesHead(r) ==
  /\ readAt[r] = "messages"
  /\ \E s \in Ordered(Inserted) :
       context' = [context EXCEPT ![r] = IF Len(s) > Window THEN SubSeq(s, 1, Window) ELSE s]
  /\ ReadGoto(r, "done")
  /\ UNCHANGED <<time, saved, added, stamp, earlier, known>>

\* The second statement, and the last of its rows.
ReadMessages(r) ==
  /\ readAt[r] = "messages"
  /\ \E s \in Ordered(Inserted) :
       context' = [context EXCEPT ![r] =
         IF Len(s) > Window THEN SubSeq(s, Len(s) - Window + 1, Len(s)) ELSE s]
  /\ ReadGoto(r, "done")
  /\ UNCHANGED <<time, saved, added, stamp, earlier, known>>

\* A statement fails.
ReadFails(r) ==
  /\ readAt[r] \in {"session", "messages"}
  /\ ReadGoto(r, "failed")
  /\ UNCHANGED <<time, saved, added, stamp, earlier, known, context>>

-----------------------------------------------------------------------------
MemNext ==
  \/ \E n \in Replicas : MemTick(n)
  \/ SaveSession
  \/ \E m \in Messages : AddMessage(m) \/ AppendMessage(m) \/ AppendReturns(m) \/ AppendFails(m)
  \/ \E r \in Readers : BuildContext(r) \/ ReadSession(r) \/ ReadMessages(r) \/ ReadFails(r)

MemSpec == MemInit /\ [][MemNext]_memVars

-----------------------------------------------------------------------------
(* Properties                                                              *)

\* A context has the messages of the conversation in the order they were
\* said, as far as one clock can tell: one that was added before another began
\* on the same replica comes before it; and one that was known when the context
\* was asked for is in it, or a whole window of messages with no earlier stamps
\* (memory.go BuildContext, AddMessage).  The order of what two replicas
\* stamped is that of their clocks, and is not promised.
ContextFaithful ==
  \A r \in Readers : readAt[r] = "done" =>
    LET text == context[r] IN
    /\ \A i, j \in DOMAIN text :
         text[i] \in earlier[text[j]] /\ ReplicaOf[text[i]] = ReplicaOf[text[j]] => i < j
    /\ \A m \in known[r] :
         \/ \E i \in DOMAIN text : text[i] = m
         \/ Len(text) = Window /\ \A i \in DOMAIN text : stamp[text[i]] >= stamp[m]
=============================================================================
