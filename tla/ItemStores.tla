----------------------------- MODULE ItemStores -----------------------------
(***************************************************************************)
(* What an ingestion batch does to the three stores of the program: the    *)
(* items and chunks of SQLite, the vectors of Chroma and the relationship  *)
(* graph of Neo4j. No transaction spans them, and no lock keeps two        *)
(* batches, or a batch and POST /api/admin/reset, apart: each call of a    *)
(* store is one atomic step, it may fail, and anything may come between.   *)
(*                                                                         *)
(* Everything a batch writes for a source ref is named by the pair of the  *)
(* two: the item id it generates, the embedding ids, and the text it read. *)
(* A batch reads a ref at most once, so these names are as fresh as the    *)
(* uuid4() values of the code. An item's chunks are one value, the batch   *)
(* that wrote them, because they are embedded and replaced as a whole.     *)
(***************************************************************************)
EXTENDS Naturals, FiniteSets

CONSTANTS
  Batches,    \* the batch executions
  Refs,       \* the (source_type, source_ref_id) pairs of the sources
  Unrelated,  \* the refs of browser_history: no relationship detection
  NoBatch,    \* stands for "no row"
  Overlap,    \* may a batch start while another one is under way?
  MaxResets,  \* bound: calls of POST /api/admin/reset
  MaxLapses   \* bound: kills of a batch, and failures to undo an insert

ASSUME RefsAssumption == IsFiniteSet(Refs) /\ Unrelated \subseteq Refs
ASSUME NoBatchAssumption == NoBatch \notin Batches
ASSUME OverlapAssumption == Overlap \in BOOLEAN
ASSUME LimitsAssumption == MaxResets \in Nat /\ MaxLapses \in Nat

VARIABLES
  items,       \* items[r]: the batch that created r's row in items
  chunks,      \* chunks[r]: the batch that wrote the chunks of that row
  runs,        \* runs[b]: the status of b's row in ingestion_runs
  vectors,     \* the Chroma collection
  collection,  \* how often reset_all() has replaced that collection
  nodes,       \* the item nodes of the graph
  edges,       \* its RELATES_TO edges
  pc,          \* pc[b]: where b is in _run()
  work,        \* work[b]: its local variables
  reset,       \* the next step of reset_all_data()
  resets,      \* how many resets have begun
  lapses       \* how many kills and failed undos there have been

sqliteVars == <<items, chunks, runs>>
chromaVars == <<vectors, collection>>
graphVars == <<nodes, edges>>
adminVars == <<reset, resets>>
vars == <<sqliteVars, chromaVars, graphVars, adminVars, pc, work, lapses>>

Ids == Batches \X Refs

\* A vector belongs to item, and embeds the text that batch by read.
Vector == [by : Batches, item : Ids]

\* An edge written by a batch, with the texts of the two ends its judgment
\* was made on: each the one a batch had read.
Edge == [from : Ids, to : Ids, by : Batches, fromText : Batches, toText : Batches]

NoItem == <<>>

BatchPc == {"unborn", "source", "items", "embed", "replace", "undo",
            "cleanup", "relate", "pair", "write", "done", "killed"}

\* "none" is a run whose row does not exist, or was reset away.
RunStatus == {"none", "running", "success", "other"}

\* seen: the refs that were extracted; todo: the filtered_items still to
\* process; item: the item at hand;
\* processed, updated: processed_item_ids and updated_item_ids;
\* left: what the loop over one of these two lists has not reached;
\* texts, pairs: the vectors of the item at hand, and its candidates;
\* judged: the source_text picked and the candidate, once confirmed;
\* failed: errors is not empty, or cancelled; handle: its collection.
Work == [seen : SUBSET Refs, todo : SUBSET Refs, item : Ids \cup {NoItem},
         processed : SUBSET Ids, updated : SUBSET Ids, left : SUBSET Ids,
         texts : SUBSET Batches, pairs : SUBSET Vector,
         judged : SUBSET [text : Batches, with : Vector],
         failed : BOOLEAN, handle : Nat]

NewWork == [seen |-> {}, todo |-> {}, item |-> NoItem,
            processed |-> {}, updated |-> {}, left |-> {}, texts |-> {},
            pairs |-> {}, judged |-> {}, failed |-> FALSE, handle |-> 0]

TypeOK ==
  /\ items \in [Refs -> Batches \cup {NoBatch}]
  /\ chunks \in [Refs -> Batches \cup {NoBatch}]
  /\ runs \in [Batches -> RunStatus]
  /\ vectors \in SUBSET Vector
  /\ collection \in Nat
  /\ nodes \in SUBSET Ids
  /\ edges \in SUBSET Edge
  /\ pc \in [Batches -> BatchPc]
  /\ work \in [Batches -> Work]
  /\ reset \in {"idle", "chroma", "neo4j"}
  /\ resets \in Nat
  /\ lapses \in Nat

Init ==
  /\ items = [r \in Refs |-> NoBatch]
  /\ chunks = [r \in Refs |-> NoBatch]
  /\ runs = [b \in Batches |-> "none"]
  /\ vectors = {} /\ collection = 0
  /\ nodes = {} /\ edges = {}
  /\ pc = [b \in Batches |-> "unborn"]
  /\ work = [b \in Batches |-> NewWork]
  /\ reset = "idle" /\ resets = 0 /\ lapses = 0

Alive(b) == pc[b] \notin {"unborn", "done", "killed"}
ItemExists(i) == items[i[2]] = i[1]
HasChunks(i) == ItemExists(i) /\ chunks[i[2]] # NoBatch
Opened(b) == work[b].handle = collection
VectorsOf(i) == {v \in vectors : v.item = i}
Touches(e, i) == i \in {e.from, e.to}

Goto(b, from, to) == pc[b] = from /\ pc' = [pc EXCEPT ![b] = to]

\* An exception that a handler of _run() catches is added to errors.
NoteError(b) == work' = [work EXCEPT ![b].failed = TRUE]

-----------------------------------------------------------------------------
(* Extraction.                                                             *)

\* main() opens the stores; _run() writes its row.
Begin(b) ==
  /\ Overlap \/ \A c \in Batches : ~Alive(c)
  /\ Goto(b, "unborn", "source")
  /\ work' = [work EXCEPT ![b].handle = collection]
  /\ runs' = [runs EXCEPT ![b] = "running"]
  /\ UNCHANGED <<items, chunks, chromaVars, graphVars, adminVars, lapses>>

\* One source yields some refs with the text they have now. Which ones, the
\* watermark and the filters decide.
Extract(b) ==
  /\ Goto(b, "source", "items")
  /\ \E S \in SUBSET (Refs \ work[b].seen) \ {{}} :
       work' = [work EXCEPT ![b].todo = S, ![b].seen = @ \cup S]
  /\ UNCHANGED <<sqliteVars, chromaVars, graphVars, adminVars, lapses>>

\* An ExtractorError, or a cancel request.
ExtractFails(b) ==
  /\ pc[b] = "source"
  /\ ~work[b].failed
  /\ NoteError(b)
  /\ UNCHANGED <<sqliteVars, chromaVars, graphVars, adminVars, pc, lapses>>

-----------------------------------------------------------------------------
(* _process_item().                                                        *)

\* insert_item(): the upsert keeps the id of a row that is there.
InsertItem(b, r) ==
  /\ Goto(b, "items", "embed")
  /\ r \in work[b].todo
  /\ items' = [items EXCEPT ![r] = IF @ = NoBatch THEN b ELSE @]
  /\ work' = [work EXCEPT ![b].todo = @ \ {r}, ![b].item = <<items'[r], r>>]
  /\ UNCHANGED <<chunks, runs, chromaVars, graphVars, adminVars, lapses>>

InsertItemFails(b, r) ==
  /\ pc[b] = "items"
  /\ r \in work[b].todo
  /\ work' = [work EXCEPT ![b].todo = @ \ {r}, ![b].failed = TRUE]
  /\ UNCHANGED <<sqliteVars, chromaVars, graphVars, adminVars, pc, lapses>>

\* embed_chunks(): fresh vectors are added, the item's old ones stay.
EmbedChunks(b) ==
  /\ Opened(b)
  /\ Goto(b, "embed", "replace")
  /\ vectors' = vectors \cup {[by |-> b, item |-> work[b].item]}
  /\ UNCHANGED <<sqliteVars, collection, graphVars, adminVars, work, lapses>>

\* Mutant of EmbedFails: the error is noted, but the row is not deleted.
EmbedFailsKeepsRow(b) ==
  /\ Goto(b, "embed", "items")
  /\ work' = [work EXCEPT ![b].failed = TRUE, ![b].item = NoItem]
  /\ UNCHANGED <<sqliteVars, chromaVars, graphVars, adminVars, lapses>>

\* The provider or Chroma fails, the latter always on a collection that a
\* reset has deleted.
EmbedFails(b) ==
  /\ Goto(b, "embed", "undo")
  /\ NoteError(b)
  /\ UNCHANGED <<sqliteVars, chromaVars, graphVars, adminVars, lapses>>

\* Mutant of ReplaceChunks: the source ref is appended, not the item's id.
ReplaceChunksByRef(b) ==
  LET i == work[b].item IN
    /\ Goto(b, "replace", "items")
    /\ ItemExists(i)
    /\ chunks' = [chunks EXCEPT ![i[2]] = b]
    /\ work' = [work EXCEPT ![b].processed = @ \cup {i[2]}, ![b].item = NoItem]
    /\ UNCHANGED <<items, runs, chromaVars, graphVars, adminVars, lapses>>

\* The item is stored: it joins processed_item_ids.
ReplaceChunks(b) ==
  LET i == work[b].item IN
    /\ Goto(b, "replace", "items")
    /\ ItemExists(i)
    /\ chunks' = [chunks EXCEPT ![i[2]] = b]
    /\ work' = [work EXCEPT ![b].processed = @ \cup {i},
                            ![b].updated = IF i[1] = b THEN @ ELSE @ \cup {i},
                            ![b].item = NoItem]
    /\ UNCHANGED <<items, runs, chromaVars, graphVars, adminVars, lapses>>

\* Mutant of ReplaceFails: the item's failure does not count as an error.
ReplaceFailsUnnoted(b) ==
  /\ Goto(b, "replace", "undo")
  /\ UNCHANGED <<sqliteVars, chromaVars, graphVars, adminVars, work, lapses>>

\* SQLite fails, always when the row is gone: its foreign keys are enforced.
ReplaceFails(b) ==
  /\ Goto(b, "replace", "undo")
  /\ NoteError(b)
  /\ UNCHANGED <<sqliteVars, chromaVars, graphVars, adminVars, lapses>>

\* delete_item(), whoever's chunks the row may have by now.
UndoItem(b) ==
  LET i == work[b].item IN
    /\ Goto(b, "undo", "items")
    /\ items' = [items EXCEPT ![i[2]] = IF ItemExists(i) THEN NoBatch ELSE @]
    /\ chunks' = [chunks EXCEPT ![i[2]] = IF ItemExists(i) THEN NoBatch ELSE @]
    /\ work' = [work EXCEPT ![b].item = NoItem]
    /\ UNCHANGED <<runs, chromaVars, graphVars, adminVars, lapses>>

UndoFails(b) ==
  /\ lapses < MaxLapses
  /\ lapses' = lapses + 1
  /\ Goto(b, "undo", "items")
  /\ work' = [work EXCEPT ![b].item = NoItem]
  /\ UNCHANGED <<sqliteVars, chromaVars, graphVars, adminVars>>

NextSource(b) ==
  /\ work[b].todo = {}
  /\ Goto(b, "items", "source")
  /\ UNCHANGED <<sqliteVars, chromaVars, graphVars, adminVars, work, lapses>>

EndSources(b) ==
  /\ Goto(b, "source", "cleanup")
  /\ work' = [work EXCEPT ![b].left = work[b].updated]
  /\ UNCHANGED <<sqliteVars, chromaVars, graphVars, adminVars, lapses>>

-----------------------------------------------------------------------------
(* The relationship pass.                                                  *)

\* Mutant of ClearRelationships: only the outgoing edges are deleted.
ClearRelationshipsFrom(b, i) ==
  /\ pc[b] = "cleanup"
  /\ i \in work[b].left
  /\ edges' = {e \in edges : e.from # i}
  /\ work' = [work EXCEPT ![b].left = @ \ {i}]
  /\ UNCHANGED <<sqliteVars, chromaVars, nodes, adminVars, pc, lapses>>

\* delete_relationships_for_item() keeps the node.
ClearRelationships(b, i) ==
  /\ pc[b] = "cleanup"
  /\ i \in work[b].left
  /\ edges' = {e \in edges : ~Touches(e, i)}
  /\ work' = [work EXCEPT ![b].left = @ \ {i}]
  /\ UNCHANGED <<sqliteVars, chromaVars, nodes, adminVars, pc, lapses>>

ClearFails(b, i) ==
  /\ pc[b] = "cleanup"
  /\ i \in work[b].left
  /\ work' = [work EXCEPT ![b].left = @ \ {i}, ![b].failed = TRUE]
  /\ UNCHANGED <<sqliteVars, chromaVars, graphVars, adminVars, pc, lapses>>

EndCleanup(b) ==
  /\ work[b].left = {}
  /\ Goto(b, "cleanup", "relate")
  /\ work' = [work EXCEPT ![b].left = work[b].processed]
  /\ UNCHANGED <<sqliteVars, chromaVars, graphVars, adminVars, lapses>>

\* What query() may return: the nearest vectors, none of them the item's own,
\* one for each candidate item.
Narrowed(i) ==
  {C \in SUBSET {v \in vectors : v.item # i /\ v.item[2] \notin Unrelated} :
     \A v, w \in C : v.item = w.item => v = w}

\* detect_relationships() looks no further at an item that is gone, is
\* excluded, or has no chunks, ...
Relatable(i) == HasChunks(i) /\ i[2] \notin Unrelated

\* ... nor at one without vectors.
SkipItem(b, i) ==
  /\ pc[b] = "relate"
  /\ i \in work[b].left
  /\ Relatable(i) => Opened(b) /\ VectorsOf(i) = {}
  /\ work' = [work EXCEPT ![b].left = @ \ {i}]
  /\ UNCHANGED <<sqliteVars, chromaVars, graphVars, adminVars, pc, lapses>>

\* It reads the item's vectors, old ones included, and narrows.
NarrowItem(b, i) ==
  /\ Opened(b)
  /\ i \in work[b].left
  /\ Relatable(i)
  /\ VectorsOf(i) # {}
  /\ Goto(b, "relate", "pair")
  /\ \E C \in Narrowed(i) :
       work' = [work EXCEPT ![b].left = @ \ {i}, ![b].item = i, ![b].pairs = C,
                            ![b].texts = {v.by : v \in VectorsOf(i)}]
  /\ UNCHANGED <<sqliteVars, chromaVars, graphVars, adminVars, lapses>>

NarrowFails(b, i) ==
  /\ pc[b] = "relate"
  /\ i \in work[b].left
  /\ Relatable(i)
  /\ work' = [work EXCEPT ![b].left = @ \ {i}, ![b].failed = TRUE]
  /\ UNCHANGED <<sqliteVars, chromaVars, graphVars, adminVars, pc, lapses>>

\* Mutant of Related: an edge is found in its own direction only.
RelatedOneWay(i, j) == \E e \in edges : e.from = i /\ e.to = j

\* has_any_relationship(): any label, either direction.
Related(i, j) == \E e \in edges : {e.from, e.to} = {i, j}

\* A candidate is given up: too far, gone, already related, rejected by the
\* LLM, or its provider or Neo4j failed. None of these is an error of the run.
SkipPair(b, v) ==
  /\ pc[b] = "pair"
  /\ v \in work[b].pairs
  /\ work' = [work EXCEPT ![b].pairs = @ \ {v}]
  /\ UNCHANGED <<sqliteVars, chromaVars, graphVars, adminVars, pc, lapses>>

\* The checks pass and the LLM confirms the pair on two of the texts read.
JudgePair(b, v) ==
  /\ Goto(b, "pair", "write")
  /\ Opened(b)
  /\ v \in work[b].pairs
  /\ ItemExists(v.item)
  /\ ~Related(work[b].item, v.item)
  /\ \E t \in work[b].texts :
       work' = [work EXCEPT ![b].pairs = @ \ {v},
                            ![b].judged = {[text |-> t, with |-> v]}]
  /\ UNCHANGED <<sqliteVars, chromaVars, graphVars, adminVars, lapses>>

\* MERGE: an edge from and to the same items with the same label is kept.
WriteRelationship(b) ==
  \E j \in work[b].judged :
    LET new == [from |-> work[b].item, to |-> j.with.item, by |-> b,
                fromText |-> j.text, toText |-> j.with.by]
        merges == \E e \in edges : e.from = new.from /\ e.to = new.to
    IN /\ Goto(b, "write", "pair")
       /\ nodes' = nodes \cup {new.from, new.to}
       /\ \/ edges' = edges \cup {new}
          \/ merges /\ UNCHANGED edges
       /\ work' = [work EXCEPT ![b].judged = {}]
       /\ UNCHANGED <<sqliteVars, chromaVars, adminVars, lapses>>

WriteFails(b) ==
  /\ Goto(b, "write", "pair")
  /\ work' = [work EXCEPT ![b].judged = {}]
  /\ UNCHANGED <<sqliteVars, chromaVars, graphVars, adminVars, lapses>>

\* The loop over the candidates ends, or get_item_embeddings() raises: a
\* VectorStoreError is not caught per candidate.
EndPairs(b) ==
  /\ Goto(b, "pair", "relate")
  /\ \E error \in BOOLEAN :
       /\ error \/ work[b].pairs = {}
       /\ work' = [work EXCEPT ![b].item = NoItem, ![b].pairs = {}, ![b].texts = {},
                               ![b].failed = @ \/ error]
  /\ UNCHANGED <<sqliteVars, chromaVars, graphVars, adminVars, lapses>>

\* complete_ingestion_run(), which finds no row after a reset.
Finish(b) ==
  /\ work[b].left = {}
  /\ Goto(b, "relate", "done")
  /\ runs' = [runs EXCEPT ![b] = IF @ = "none" THEN "none"
                                 ELSE IF work[b].failed THEN "other" ELSE "success"]
  /\ UNCHANGED <<items, chunks, chromaVars, graphVars, adminVars, work, lapses>>

\* The process is killed, or an exception leaves _run().
Crash(b) ==
  /\ Alive(b)
  /\ lapses < MaxLapses
  /\ lapses' = lapses + 1
  /\ pc' = [pc EXCEPT ![b] = "killed"]
  /\ UNCHANGED <<sqliteVars, chromaVars, graphVars, adminVars, work>>

-----------------------------------------------------------------------------
(* reset_all_data(): every store is attempted, and any may fail.           *)

ResetSqlite ==
  /\ reset = "idle"
  /\ resets < MaxResets
  /\ resets' = resets + 1
  /\ reset' = "chroma"
  /\ \/ /\ items' = [r \in Refs |-> NoBatch]
        /\ chunks' = [r \in Refs |-> NoBatch]
        /\ runs' = [b \in Batches |-> "none"]
     \/ UNCHANGED sqliteVars
  /\ UNCHANGED <<chromaVars, graphVars, pc, work, lapses>>

\* Mutant of ResetChroma: the vectors are deleted, the collection stays.
ResetChromaInPlace ==
  /\ reset = "chroma"
  /\ reset' = "neo4j"
  /\ vectors' = {} /\ UNCHANGED collection
  /\ UNCHANGED <<sqliteVars, graphVars, resets, pc, work, lapses>>

ResetChroma ==
  /\ reset = "chroma"
  /\ reset' = "neo4j"
  /\ \/ vectors' = {} /\ collection' = collection + 1
     \/ UNCHANGED chromaVars
  /\ UNCHANGED <<sqliteVars, graphVars, resets, pc, work, lapses>>

ResetNeo4j ==
  /\ reset = "neo4j"
  /\ reset' = "idle"
  /\ \/ nodes' = {} /\ edges' = {}
     \/ UNCHANGED graphVars
  /\ UNCHANGED <<sqliteVars, chromaVars, resets, pc, work, lapses>>

-----------------------------------------------------------------------------
ProcessItem(b) ==
  \/ \E r \in Refs : InsertItem(b, r) \/ InsertItemFails(b, r)
  \/ EmbedChunks(b) \/ EmbedFails(b)
  \/ ReplaceChunks(b) \/ ReplaceFails(b)
  \/ UndoItem(b) \/ UndoFails(b)

DetectRelationships(b) ==
  \/ \E i \in Ids : SkipItem(b, i) \/ NarrowItem(b, i) \/ NarrowFails(b, i)
  \/ \E v \in vectors \cup work[b].pairs : SkipPair(b, v) \/ JudgePair(b, v)
  \/ WriteRelationship(b) \/ WriteFails(b)
  \/ EndPairs(b)

Run(b) ==
  \/ Begin(b)
  \/ Extract(b) \/ ExtractFails(b) \/ NextSource(b) \/ EndSources(b)
  \/ ProcessItem(b)
  \/ \E i \in Ids : ClearRelationships(b, i) \/ ClearFails(b, i)
  \/ EndCleanup(b)
  \/ DetectRelationships(b)
  \/ Finish(b)
  \/ Crash(b)

Next ==
  \/ \E b \in Batches : Run(b)
  \/ ResetSqlite \/ ResetChroma \/ ResetNeo4j

Spec == Init /\ [][Next]_vars

-----------------------------------------------------------------------------
(* What the code promises.                                                 *)

\* Hybrid search needs both halves of a chunk: the vector of every chunk row
\* is in the collection, unless a reset deleted the one its batch had opened.
\* Concurrent batches, failures and kills never break this, in whatever
\* order embed_chunks(), replace_chunks() and delete_item() run.
ChunksAreSearchable ==
  \A r \in Refs :
    LET b == chunks[r] IN
      b # NoBatch /\ Opened(b) => [by |-> b, item |-> <<items[r], r>>] \in vectors

\* A batch is between insert_item() and the end of _process_item().
MidItem(b, r) ==
  /\ pc[b] \in {"embed", "replace", "undo"}
  /\ work[b].item = <<items[r], r>>

\* "An item in SQLite either has its chunks too, or doesn't exist": each row
\* that has none is being worked on, or accounted for by its own kill or
\* failed delete_item(). No failure of a provider or a store adds one, nor
\* do two batches that work on one item.
EmptyItemsAreLapses ==
  Cardinality({r \in Refs : /\ items[r] # NoBatch
                            /\ chunks[r] = NoBatch
                            /\ \A b \in Batches : ~MidItem(b, r)}) =< lapses

Stored(b, r) ==
  chunks[r] = b /\ [by |-> b, item |-> <<items[r], r>>] \in vectors

\* A run that ends in success, and so moves the watermark past all it has
\* extracted, leaves each extracted item stored with the text it read.
SuccessIsStored ==
  [][\A b \in Batches :
       runs'[b] = "success" /\ runs[b] # "success" /\ Opened(b) =>
         \A r \in work[b].seen : Stored(b, r)]_vars

\* Two items are joined by one edge, whichever of them is processed first:
\* what has_any_relationship() is for.
OneEdgePerPair ==
  \A e, f \in edges : {e.from, e.to} = {f.from, f.to} => e = f

\* A run that ends in success has cleared every relationship of the items it
\* updated before judging them again: no edge of an earlier run touches them.
StaleEdgesAreCleared ==
  [][\A b \in Batches :
       runs'[b] = "success" /\ runs[b] # "success" =>
         \A e \in edges : (\E i \in work[b].updated : Touches(e, i)) => e.by = b]_vars

-----------------------------------------------------------------------------
(* What comments and documents promise, and the code does not keep.        *)

\* delete_item()'s docstring: "callers deleting an item must also remove it
\* from those stores explicitly".
DeletedItemsLeaveNothing ==
  (\A b \in Batches : ~Alive(b)) =>
    \A i \in nodes \cup {v.item : v \in vectors} : ItemExists(i)

\* DECISIONS.md: "a document that changes should have its relationships
\* re-verified, not left stale", against its new content.
EdgesJudgeCurrentText ==
  [][\A b \in Batches :
       runs'[b] = "success" /\ runs[b] # "success" =>
         \A e \in edges : e.by = b => e.fromText = chunks[e.from[2]]]_vars

=============================================================================
