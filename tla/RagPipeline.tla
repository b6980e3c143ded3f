---------------------------- MODULE RagPipeline -----------------------------
(***************************************************************************)
(* The retrieval pipeline of bzy-brain: Ingest and Query                   *)
(* (internal/rag/rag.go), the embeddings with their Redis cache            *)
(* (internal/embedding/embedding.go) and the vectors table                 *)
(* (internal/vectorstore/pgvector.go).  Calls run concurrently and share   *)
(* the cache and the table, in which a transaction keeps the rows it has   *)
(* written or deleted locked until it ends.                                *)
(*                                                                         *)
(* PostgreSQL runs them at its default level, READ COMMITTED: a statement  *)
(* sees the rows that were committed when it began, and for one of them    *)
(* that another transaction holds it waits and then takes it as it is.     *)
(*                                                                         *)
(* A paragraph is a text or blank; the vector of a text stands for the     *)
(* text it was computed from.  A failure of a call may be that of the      *)
(* provider, of the database, of its context or of the whole process:      *)
(* either way the transaction is rolled back.                              *)
(***************************************************************************)
EXTENDS Naturals, Sequences, FiniteSets

CONSTANTS
  Ingests,   \* calls of Ingest
  Queries,   \* calls of Query
  Deletions, \* calls of DeleteCollection
  Docs,      \* document ids
  Texts,     \* paragraphs, and questions
  Blank,     \* a paragraph with nothing in it
  Contents,  \* contents of documents: sequences of paragraphs
  MaxChunks, \* bound: paragraphs of a content
  NoVec,     \* a vector that is not there yet, or not cached
  NoRow,
  Nobody,    \* a row that no transaction holds
  Score,     \* of a text for a question
  MinScore,  \* 0.65
  TopK       \* 5

ASSUME RagAssumption ==
  /\ Blank \notin Texts /\ NoVec \notin Texts
  /\ Nobody \notin Ingests \cup Deletions
  /\ Ingests \cap Queries = {} /\ (Ingests \cup Queries) \cap Deletions = {}
  /\ \A c \in Contents : c \in Seq(Texts \cup {Blank}) /\ Len(c) <= MaxChunks
  /\ MaxChunks \in Nat /\ MinScore \in Nat /\ TopK \in Nat
  /\ Score \in [Texts \X Texts -> Nat]

VARIABLES
  cache,    \* embed:<hash of the text> in Redis
  rows,     \* the vectors table, as committed
  holder,   \* the transaction that has written or deleted a row and not ended
  ragAt,    \* where each call is
  doc,      \* doc.ID of an ingest
  texts,    \* what a call embeds: the chunks, or the question
  vecs,     \* results of Embed
  written,  \* rows its transaction has written
  found,    \* the rows a query found
  deleteAt, \* where each DeleteCollection is
  toDelete  \* the rows it saw when it began and has still to come to

callVars == <<ragAt, doc, texts, vecs, written, found>>
deleteVars == <<deleteAt, toDelete>>
ragVars == <<cache, rows, holder, callVars, deleteVars>>

Calls == Ingests \cup Queries
Keys == Docs \X (1..MaxChunks)
Chunked == {SelectSeq(c, LAMBDA p : p # Blank) : c \in Contents}
\* What dropping the blank paragraphs leaves is texts, and no more of them.
ASSUME ChunksAssumption == \A s \in Chunked : s \in Seq(Texts) /\ Len(s) <= MaxChunks

Row(text, vec) == [content |-> text, embedding |-> vec]
AllRows == [content : Texts, embedding : Texts \cup {NoVec}]

RagTypeOK ==
  /\ cache \in [Texts -> Texts \cup {NoVec}]
  /\ rows \in [Keys -> AllRows \cup {NoRow}]
  /\ holder \in [Keys -> Ingests \cup Deletions \cup {Nobody}]
  /\ ragAt \in [Calls -> {"none", "lookup", "embed", "store", "search", "chat", "done", "failed"}]
  /\ doc \in [Ingests -> Docs \cup {Nobody}]
  /\ \A o \in Calls : /\ texts[o] \in Seq(Texts)
                      /\ vecs[o] \in Seq(Texts \cup {NoVec})
                      /\ Len(vecs[o]) = Len(texts[o])
  /\ written \in [Ingests -> 0..MaxChunks]
  /\ \A o \in Queries : found[o] \in Seq(AllRows)
  /\ deleteAt \in [Deletions -> {"none", "rows", "done", "failed"}]
  /\ toDelete \in [Deletions -> SUBSET Keys]

RagInit ==
  /\ cache = [t \in Texts |-> NoVec]
  /\ rows = [k \in Keys |-> NoRow] /\ holder = [k \in Keys |-> Nobody]
  /\ ragAt = [o \in Calls |-> "none"]
  /\ doc = [o \in Ingests |-> Nobody] /\ written = [o \in Ingests |-> 0]
  /\ texts = [o \in Calls |-> <<>>] /\ vecs = [o \in Calls |-> <<>>]
  /\ found = [o \in Queries |-> <<>>]
  /\ deleteAt = [x \in Deletions |-> "none"] /\ toDelete = [x \in Deletions |-> {}]

RagGoto(o, label) == ragAt' = [ragAt EXCEPT ![o] = label]

\* The call is over, and its variables are gone.
RagReturns(o, label) ==
  /\ RagGoto(o, label)
  /\ texts' = [texts EXCEPT ![o] = <<>>] /\ vecs' = [vecs EXCEPT ![o] = <<>>]
  /\ doc' = [i \in Ingests |-> IF i = o THEN Nobody ELSE doc[i]]
  /\ written' = [i \in Ingests |-> IF i = o THEN 0 ELSE written[i]]
  /\ found' = [q \in Queries |-> IF q = o THEN <<>> ELSE found[q]]

EmbedTexts(o, s) ==
  /\ texts' = [texts EXCEPT ![o] = s]
  /\ vecs' = [vecs EXCEPT ![o] = [i \in DOMAIN s |-> NoVec]]
  /\ RagGoto(o, "lookup")

-----------------------------------------------------------------------------
(* The beginning of a call                                                 *)

\* chunkText: the paragraphs that are not blank.
Ingest(o, d, c) ==
  /\ ragAt[o] = "none"
  /\ doc' = [doc EXCEPT ![o] = d]
  /\ EmbedTexts(o, SelectSeq(c, LAMBDA p : p # Blank))
  /\ UNCHANGED <<cache, rows, holder, written, found, deleteVars>>

Query(o, question) ==
  /\ ragAt[o] = "none"
  /\ EmbedTexts(o, <<question>>)
  /\ UNCHANGED <<cache, rows, holder, doc, written, found, deleteVars>>

-----------------------------------------------------------------------------
(* Embed                                                                   *)

AfterEmbed(o) == IF o \in Ingests THEN "store" ELSE "search"

\* One GET per text.  An error is a miss, so any cached text may be missed.
Lookup(o) ==
  /\ ragAt[o] = "lookup"
  /\ \E hits \in SUBSET {i \in DOMAIN texts[o] : cache[texts[o][i]] # NoVec} :
       /\ vecs' = [vecs EXCEPT ![o] = [i \in DOMAIN @ |->
                     IF i \in hits THEN cache[texts[o][i]] ELSE NoVec]]
       /\ RagGoto(o, IF hits = DOMAIN texts[o] THEN AfterEmbed(o) ELSE "embed")
  /\ UNCHANGED <<cache, rows, holder, doc, texts, written, found, deleteVars>>

Missing(o) == {i \in DOMAIN vecs[o] : vecs[o][i] = NoVec}

\* The missing texts are sent in their order and their vectors come back in it,
\* so each comes with its text: that of texts[m] is put at place[m], and cached
\* unless that fails.
EmbedMissing(o, place) ==
  LET filled  == {place[m] : m \in Missing(o)}
      from(i) == CHOOSE m \in Missing(o) : place[m] = i IN
  /\ ragAt[o] = "embed"
  /\ vecs' = [vecs EXCEPT ![o] = [i \in DOMAIN @ |->
                IF i \in filled THEN texts[o][from(i)] ELSE @[i]]]
  /\ \E S \in SUBSET {texts[o][i] : i \in Missing(o)} :
       cache' = [t \in Texts |-> IF t \in S THEN t ELSE cache[t]]
  /\ RagGoto(o, AfterEmbed(o))
  /\ UNCHANGED <<rows, holder, doc, texts, written, found, deleteVars>>

\* Variant for mutation: results[j] = vecs[j].
EmbedFront(o) ==
  EmbedMissing(o, [i \in Missing(o) |-> Cardinality({k \in Missing(o) : k <= i})])

\* results[idx] = vecs[j]
Embed(o) == EmbedMissing(o, [i \in Missing(o) |-> i])

\* The 24 hours of a cached vector are over.
CacheExpires(t) ==
  /\ cache[t] # NoVec
  /\ cache' = [cache EXCEPT ![t] = NoVec]
  /\ UNCHANGED <<rows, holder, ragAt, doc, texts, vecs, written, found, deleteVars>>

-----------------------------------------------------------------------------
(* UpsertBatch, Search and the deletions                                   *)

Free(k, o) == holder[k] \in {Nobody, o}
Holds(o) == {k \in Keys : holder[k] = o}
EndTx(o) == holder' = [k \in Keys |-> IF holder[k] = o THEN Nobody ELSE holder[k]]

\* Variant for mutation: the rows are written in any order, as from a map.
UpsertAny(o) ==
  /\ ragAt[o] = "store" /\ written[o] < Len(texts[o])
  /\ \E i \in 1..Len(texts[o]) :
       /\ holder[<<doc[o], i>>] = Nobody
       /\ holder' = [holder EXCEPT ![<<doc[o], i>>] = o]
  /\ written' = [written EXCEPT ![o] = @ + 1]
  /\ UNCHANGED <<cache, rows, ragAt, doc, texts, vecs, found, deleteVars>>

\* One statement of the transaction: it waits for the row's holder to end.
Upsert(o) ==
  LET k == <<doc[o], written[o] + 1>> IN
  /\ ragAt[o] = "store" /\ written[o] < Len(texts[o])
  /\ Free(k, o)
  /\ holder' = [holder EXCEPT ![k] = o]
  /\ written' = [written EXCEPT ![o] = @ + 1]
  /\ UNCHANGED <<cache, rows, ragAt, doc, texts, vecs, found, deleteVars>>

Commits(o) ==
  /\ ragAt[o] = "store" /\ written[o] = Len(texts[o])
  /\ rows' = [k \in Keys |-> IF k \in Holds(o) THEN Row(texts[o][k[2]], vecs[o][k[2]])
                                               ELSE rows[k]]
  /\ EndTx(o)
  /\ UNCHANGED <<cache, deleteVars>>

Commit(o) == Commits(o) /\ RagReturns(o, "done")

\* The commit took effect, and its answer was lost.
CommitUnknown(o) == Commits(o) /\ RagReturns(o, "failed")

\* A statement for a question: rows of the table as it is, best first.
Search(o) ==
  LET score(k) == Score[rows[k].embedding, vecs[o][1]]
      good == {k \in Keys : rows[k] # NoRow /\ score(k) >= MinScore} IN
  /\ ragAt[o] = "search"
  /\ \E n \in {IF Cardinality(good) < TopK THEN Cardinality(good) ELSE TopK} :
       \E s \in [1..n -> good] :
         /\ \A i, j \in 1..n : i < j => s[i] # s[j] /\ score(s[i]) >= score(s[j])
         /\ \A k \in good, i \in 1..n : score(k) > score(s[i]) => \E j \in 1..n : s[j] = k
         /\ found' = [found EXCEPT ![o] = [i \in 1..n |-> rows[s[i]]]]
  /\ RagGoto(o, "chat")
  /\ UNCHANGED <<cache, rows, holder, doc, texts, vecs, written, deleteVars>>

\* The provider answers the question with what was found in front of it.
Chat(o) ==
  /\ ragAt[o] = "chat"
  /\ RagReturns(o, "done")
  /\ UNCHANGED <<cache, rows, holder, deleteVars>>

\* Variant for mutation: what was written before the failure stays.
RagFailsInPart(o) ==
  /\ ragAt[o] \notin {"none", "done", "failed"}
  /\ rows' = [k \in Keys |-> IF k \in Holds(o) THEN Row(texts[o][k[2]], vecs[o][k[2]])
                                               ELSE rows[k]]
  /\ EndTx(o)
  /\ RagReturns(o, "failed")
  /\ UNCHANGED <<cache, deleteVars>>

\* An error, wherever the call is; the deferred Rollback undoes its writes.
RagFails(o) ==
  /\ ragAt[o] \notin {"none", "done", "failed"}
  /\ EndTx(o)
  /\ RagReturns(o, "failed")
  /\ UNCHANGED <<cache, rows, deleteVars>>

\* A row that is gone is no row of a DeleteCollection under way any more: what
\* is written under its key later is another one.
Delete(k) ==
  /\ rows[k] # NoRow /\ holder[k] = Nobody
  /\ rows' = [rows EXCEPT ![k] = NoRow]
  /\ toDelete' = [x \in Deletions |-> toDelete[x] \ {k}]
  /\ UNCHANGED <<cache, holder, deleteAt, callVars>>

\* The statement begins with the rows that are committed.
DeleteCollection(x) ==
  /\ deleteAt[x] = "none"
  /\ deleteAt' = [deleteAt EXCEPT ![x] = "rows"]
  /\ toDelete' = [toDelete EXCEPT ![x] = {k \in Keys : rows[k] # NoRow}]
  /\ UNCHANGED <<cache, rows, holder, callVars>>

\* It comes to them in the order of the table, which may be any, and waits for
\* the holder of one to end.
DeleteRow(x, k) ==
  /\ deleteAt[x] = "rows" /\ k \in toDelete[x] /\ holder[k] = Nobody
  /\ holder' = [holder EXCEPT ![k] = x]
  /\ toDelete' = [toDelete EXCEPT ![x] = @ \ {k}]
  /\ UNCHANGED <<cache, rows, deleteAt, callVars>>

\* After the last of them; the answer may be lost.
DeleteCommits(x) ==
  /\ deleteAt[x] = "rows" /\ toDelete[x] = {}
  /\ rows' = [k \in Keys |-> IF k \in Holds(x) THEN NoRow ELSE rows[k]]
  /\ EndTx(x)
  /\ toDelete' = [y \in Deletions |-> toDelete[y] \ Holds(x)]
  /\ \E label \in {"done", "failed"} : deleteAt' = [deleteAt EXCEPT ![x] = label]
  /\ UNCHANGED <<cache, callVars>>

DeleteFails(x) ==
  /\ deleteAt[x] = "rows"
  /\ EndTx(x)
  /\ deleteAt' = [deleteAt EXCEPT ![x] = "failed"]
  /\ toDelete' = [toDelete EXCEPT ![x] = {}]
  /\ UNCHANGED <<cache, rows, callVars>>

-----------------------------------------------------------------------------
RagStep(o) == Lookup(o) \/ Embed(o)
IngestStep(o) == RagStep(o) \/ Upsert(o) \/ Commit(o) \/ CommitUnknown(o)
QueryStep(o) == RagStep(o) \/ Search(o) \/ Chat(o)
DeleteStep(x) == (\E k \in Keys : DeleteRow(x, k)) \/ DeleteCommits(x)

RagNext ==
  \/ \E o \in Ingests : (\E d \in Docs, c \in Contents : Ingest(o, d, c)) \/ IngestStep(o)
  \/ \E o \in Queries : (\E t \in Texts : Query(o, t)) \/ QueryStep(o)
  \/ \E o \in Calls : RagFails(o)
  \/ \E t \in Texts : CacheExpires(t)
  \/ \E k \in Keys : Delete(k)
  \/ \E x \in Deletions : DeleteCollection(x) \/ DeleteStep(x) \/ DeleteFails(x)

RagSpec == RagInit /\ [][RagNext]_ragVars

\* Every one of S waits for rows that others of S hold.
Circle(S) ==
  /\ \A o \in S \cap Ingests : /\ ragAt[o] = "store" /\ written[o] < Len(texts[o])
                               /\ holder[<<doc[o], written[o] + 1>>] \in S \ {o}
  /\ \A x \in S \cap Deletions : toDelete[x] # {} /\ \A k \in toDelete[x] : holder[k] \in S \ {x}

\* PostgreSQL fails one of those that wait in a circle with a deletion.
DeadlockBroken ==
  \E S \in SUBSET (Ingests \cup Deletions) :
    /\ S \cap Deletions # {} /\ Circle(S)
    /\ (\E o \in S \cap Ingests : RagFails(o)) \/ (\E x \in S \cap Deletions : DeleteFails(x))

\* Provider, Redis and database answer.  Nothing else has to fail; that the
\* database would break a circle of ingests is not assumed.
RagFairness ==
  /\ \A x \in Deletions : WF_ragVars(DeleteStep(x))
  /\ WF_ragVars(DeadlockBroken)
  /\ \A o \in Ingests : WF_ragVars(IngestStep(o))
  /\ \A o \in Queries : WF_ragVars(QueryStep(o))

-----------------------------------------------------------------------------
(* Properties                                                              *)

Store == INSTANCE DocumentRows WITH doomed <- [x \in Deletions |-> toDelete[x] \cup Holds(x)]

\* What a reader of the table sees changes by whole documents and deletions: no
\* mixture of two concurrent ingests, nothing of one that failed, and no row
\* whose vector is that of another text, cached or not (rag.go Ingest,
\* pgvector.go UpsertBatch, embedding.go Embed).  A DeleteCollection takes
\* away, at once, the rows that were there when it began, rewritten since or
\* not; of an ingest it met, those that were new stay (pgvector.go:119).
IngestsWhole == Store!RowsSpec

\* Calls end: no two ingests of a document wait for each other's rows for ever,
\* and a deletion that crosses with them ends, or fails, as they do.
RagEnds ==
  /\ \A o \in Calls : ragAt[o] = "lookup" ~> ragAt[o] \in {"done", "failed"}
  /\ \A x \in Deletions : deleteAt[x] = "rows" ~> deleteAt[x] \in {"done", "failed"}
=============================================================================
