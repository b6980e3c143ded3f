---------------------------- MODULE DocumentRows ----------------------------
(***************************************************************************)
(* What the vector store promises to the RAG pipeline of bzy-brain, as an  *)
(* abstract specification: the rows of a document change by a whole        *)
(* ingest at once, each row has the vector of its own text, and a deletion *)
(* of all rows removes at once those that were there when it began.        *)
(*                                                                         *)
(* A row is keyed by its document and chunk index, so an ingest with fewer *)
(* chunks leaves the last rows of the one before.                          *)
(***************************************************************************)
EXTENDS Naturals, Sequences

CONSTANTS
  Docs,      \* document ids
  Chunked,   \* what documents are cut into: sequences of texts
  Keys,      \* pairs of a document and a chunk index
  NoRow,     \* no row has the key
  Deletions  \* deletions of all rows

VARIABLES
  rows,
  doomed     \* the rows a deletion found and nobody has removed since

rowsVars == <<rows, doomed>>

\* The vector of a text stands for the text it was computed from.
Row(text) == [content |-> text, embedding |-> text]

RowsInit == rows = [k \in Keys |-> NoRow] /\ doomed = [x \in Deletions |-> {}]

\* A row that is written anew is still doomed.
Ingested(d, c) ==
  /\ rows' = [k \in Keys |-> IF k[1] = d /\ k[2] <= Len(c) THEN Row(c[k[2]]) ELSE rows[k]]
  /\ UNCHANGED doomed

RemovedAll(S) ==
  /\ rows' = [k \in Keys |-> IF k \in S THEN NoRow ELSE rows[k]]
  /\ doomed' = [x \in Deletions |-> doomed[x] \ S]

Removed(k) == RemovedAll({k})

EmptyingBegins(x) ==
  /\ doomed' = [doomed EXCEPT ![x] = {k \in Keys : rows[k] # NoRow}]
  /\ UNCHANGED rows

Emptied(x) == RemovedAll(doomed[x])

EmptyingFails(x) ==
  /\ doomed' = [doomed EXCEPT ![x] = {}]
  /\ UNCHANGED rows

RowsNext ==
  \/ \E d \in Docs, c \in Chunked : Ingested(d, c)
  \/ \E k \in Keys : Removed(k)
  \/ \E x \in Deletions : EmptyingBegins(x) \/ Emptied(x) \/ EmptyingFails(x)

RowsSpec == RowsInit /\ [][RowsNext]_rowsVars
=============================================================================
