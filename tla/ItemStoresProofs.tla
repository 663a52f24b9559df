-------------------------- MODULE ItemStoresProofs --------------------------
(***************************************************************************)
(* Proofs about ItemStores, for any number of batches and refs: what holds *)
(* however batches, resets, failures and kills mix.                        *)
(***************************************************************************)
EXTENDS ItemStores, FiniteSetTheorems, TLAPS

\* The places where a batch has an item at hand.
Holding == {"embed", "replace", "undo", "pair", "write"}

\* There it knows which item that is.
ItemInHand == \A b \in Batches : pc[b] \in Holding => work[b].item \in Ids

Typed == TypeOK /\ ItemInHand

\* The places of _process_item(), after the row is there.
Mid == {"embed", "replace", "undo"}

-----------------------------------------------------------------------------
(* The steps of a batch that touch neither items, chunks nor vectors.      *)

Quiet(b) ==
  \/ Extract(b) \/ ExtractFails(b)
  \/ (\E r \in Refs : InsertItemFails(b, r))
  \/ UndoFails(b) \/ NextSource(b) \/ EndSources(b)
  \/ (\E i \in Ids : ClearRelationships(b, i) \/ ClearFails(b, i))
  \/ EndCleanup(b)
  \/ DetectRelationships(b)
  \/ Finish(b)
  \/ Crash(b)

\* What such a step leaves as it is, and what it may do to the rest.
QuietEffect(b) ==
  /\ UNCHANGED <<items, chunks, chromaVars, adminVars>>
  /\ work' \in [Batches -> Work]
  /\ work'[b].handle = work[b].handle
  /\ pc' \in [Batches -> BatchPc]
  /\ \A c \in Batches \ {b} : work'[c] = work[c] /\ pc'[c] = pc[c]
  /\ pc'[b] \notin {"unborn"} \cup Mid
  /\ pc[b] # "unborn"
  /\ \/ lapses' = lapses /\ pc[b] \notin Mid
     \/ lapses' = lapses + 1
  /\ pc'[b] \in Holding => work'[b].item \in Ids
  /\ runs' \in [Batches -> RunStatus]
  /\ nodes' \in SUBSET Ids
  /\ edges' \in SUBSET Edge
  /\ lapses' \in Nat

\* The steps over the sources have that effect.
LEMMA QuietSources ==
  ASSUME Typed, NEW b \in Batches,
         \/ Extract(b) \/ ExtractFails(b)
         \/ (\E r \in Refs : InsertItemFails(b, r))
         \/ UndoFails(b) \/ NextSource(b) \/ EndSources(b)
  PROVE  QuietEffect(b)
<1> USE DEF Typed, TypeOK, vars, sqliteVars, chromaVars, graphVars, adminVars, Goto,
            QuietEffect, Mid
<1>0. work[b] \in Work
  OBVIOUS
<1>1. CASE Extract(b)
  <2>1. PICK S \in SUBSET Refs :
          work' = [work EXCEPT ![b].todo = S, ![b].seen = @ \cup S]
    BY <1>1 DEF Extract
  <2>2. work[b].seen \cup S \in SUBSET Refs
    BY <1>0 DEF Work
  <2>3. /\ work' \in [Batches -> Work]
        /\ work'[b].handle = work[b].handle
        /\ \A c \in Batches \ {b} : work'[c] = work[c]
    BY <1>0, <2>1, <2>2 DEF Work
  <2> QED
    BY <1>1, <2>3 DEF Extract, BatchPc, Holding
<1>2. CASE ExtractFails(b)
  BY <1>0, <1>2 DEF ExtractFails, NoteError, Work, Holding
<1>3. ASSUME NEW r \in Refs, InsertItemFails(b, r) PROVE QuietEffect(b)
  BY <1>0, <1>3 DEF InsertItemFails, Work, Holding
<1>4. CASE UndoFails(b)
  <2>1. work' = [work EXCEPT ![b].item = NoItem]
    BY <1>4 DEF UndoFails
  <2>2. /\ work' \in [Batches -> Work]
        /\ work'[b].handle = work[b].handle
        /\ \A c \in Batches \ {b} : work'[c] = work[c]
    BY <1>0, <2>1 DEF Work
  <2> QED
    BY <1>4, <2>2 DEF UndoFails, BatchPc, Holding
<1>5. CASE NextSource(b)
  BY <1>0, <1>5 DEF NextSource, Work, BatchPc, Holding
<1>6. CASE EndSources(b)
  BY <1>0, <1>6 DEF EndSources, Work, BatchPc, Holding
<1> QED
  BY <1>1, <1>2, <1>3, <1>4, <1>5, <1>6

\* So do the steps of the relationship pass before a pair is at hand ...
LEMMA QuietItems ==
  ASSUME Typed, NEW b \in Batches,
         \/ (\E i \in Ids : ClearRelationships(b, i) \/ ClearFails(b, i))
         \/ EndCleanup(b)
         \/ (\E i \in Ids : SkipItem(b, i) \/ NarrowItem(b, i) \/ NarrowFails(b, i))
  PROVE  QuietEffect(b)
<1> USE DEF Typed, TypeOK, vars, sqliteVars, chromaVars, graphVars, adminVars, Goto,
            QuietEffect, Mid
<1>0. work[b] \in Work
  OBVIOUS
<1>1. ASSUME NEW i \in Ids, ClearRelationships(b, i) PROVE QuietEffect(b)
  BY <1>0, <1>1 DEF ClearRelationships, Work, Holding
<1>2. ASSUME NEW i \in Ids, ClearFails(b, i) PROVE QuietEffect(b)
  BY <1>0, <1>2 DEF ClearFails, Work, Holding
<1>3. CASE EndCleanup(b)
  BY <1>0, <1>3 DEF EndCleanup, Work, BatchPc, Holding
<1>4. ASSUME NEW i \in Ids, SkipItem(b, i) PROVE QuietEffect(b)
  BY <1>0, <1>4 DEF SkipItem, Work, Holding
<1>5. ASSUME NEW i \in Ids, NarrowFails(b, i) PROVE QuietEffect(b)
  BY <1>0, <1>5 DEF NarrowFails, Work, Holding
<1>6. ASSUME NEW i \in Ids, NarrowItem(b, i) PROVE QuietEffect(b)
  <2>1. PICK C \in Narrowed(i) :
          work' = [work EXCEPT ![b].left = @ \ {i}, ![b].item = i, ![b].pairs = C,
                               ![b].texts = {v.by : v \in VectorsOf(i)}]
    BY <1>6 DEF NarrowItem
  <2>2. C \in SUBSET Vector
    BY <2>1 DEF Narrowed
  <2>3. {v.by : v \in VectorsOf(i)} \in SUBSET Batches
    BY DEF VectorsOf, Vector
  <2> DEFINE T == {v.by : v \in VectorsOf(i)}
  <2>4. work' = [work EXCEPT ![b].left = @ \ {i}, ![b].item = i, ![b].pairs = C,
                             ![b].texts = T]
    BY <2>1
  <2>5. T \in SUBSET Batches
    BY <2>3
  <2> HIDE DEF T
  <2> DEFINE w == [work[b] EXCEPT !.left = @ \ {i}, !.item = i, !.pairs = C, !.texts = T]
  <2>6. w \in Work /\ w.handle = work[b].handle /\ w.item = i
    BY <1>0, <2>2, <2>5 DEF Work
  <2>7. work' = [work EXCEPT ![b] = w]
    BY <2>4
  <2> HIDE DEF w
  <2>8. /\ work' \in [Batches -> Work]
        /\ work'[b] = w
        /\ \A c \in Batches \ {b} : work'[c] = work[c]
    BY <2>6, <2>7
  <2>9. /\ pc[b] = "relate" /\ pc' = [pc EXCEPT ![b] = "pair"]
        /\ UNCHANGED <<items, chunks, runs, chromaVars, graphVars, adminVars, lapses>>
    BY <1>6 DEF NarrowItem
  <2> QED
    BY <2>6, <2>8, <2>9 DEF BatchPc, Holding
<1> QED
  BY <1>1, <1>2, <1>3, <1>4, <1>5, <1>6

\* ... and those that judge pairs, end the run or kill it.
LEMMA QuietPairs ==
  ASSUME Typed, NEW b \in Batches,
         \/ (\E v \in vectors \cup work[b].pairs : SkipPair(b, v) \/ JudgePair(b, v))
         \/ WriteRelationship(b) \/ WriteFails(b) \/ EndPairs(b)
         \/ Finish(b) \/ Crash(b)
  PROVE  QuietEffect(b)
<1> USE DEF Typed, TypeOK, vars, sqliteVars, chromaVars, graphVars, adminVars, Goto,
            QuietEffect, Mid
<1>0. work[b] \in Work
  OBVIOUS
<1>1. ASSUME NEW v, SkipPair(b, v) PROVE QuietEffect(b)
  BY <1>0, <1>1 DEF SkipPair, Work, Holding, ItemInHand
<1>2. ASSUME NEW v, JudgePair(b, v) PROVE QuietEffect(b)
  <2>1. PICK t \in work[b].texts :
          work' = [work EXCEPT ![b].pairs = @ \ {v},
                               ![b].judged = {[text |-> t, with |-> v]}]
    BY <1>2 DEF JudgePair
  <2>2. v \in Vector /\ t \in Batches
    BY <1>0, <1>2, <2>1 DEF JudgePair, Work
  <2>3. {[text |-> t, with |-> v]} \in SUBSET [text : Batches, with : Vector]
    BY <2>2
  <2> DEFINE J == {[text |-> t, with |-> v]}
  <2>4. work' = [work EXCEPT ![b].pairs = @ \ {v}, ![b].judged = J]
    BY <2>1
  <2> HIDE DEF J
  <2> QED
    BY <1>0, <1>2, <2>3, <2>4 DEF JudgePair, Work, BatchPc, Holding, ItemInHand, J
<1>3. CASE WriteRelationship(b)
  <2>1. PICK j \in work[b].judged :
          LET new == [from |-> work[b].item, to |-> j.with.item, by |-> b,
                      fromText |-> j.text, toText |-> j.with.by]
          IN /\ nodes' = nodes \cup {new.from, new.to}
             /\ edges' = edges \cup {new} \/ edges' = edges
    BY <1>3 DEF WriteRelationship
  <2>2. /\ j.with \in Vector /\ j.text \in Batches
        /\ work[b].item \in Ids
    BY <1>0, <1>3, <2>1 DEF WriteRelationship, Work, ItemInHand, Holding
  <2>3. nodes' \in SUBSET Ids /\ edges' \in SUBSET Edge
    BY <2>1, <2>2 DEF Vector, Edge
  <2>4. /\ pc[b] = "write" /\ pc' = [pc EXCEPT ![b] = "pair"]
        /\ work' = [work EXCEPT ![b].judged = {}]
        /\ UNCHANGED <<items, chunks, runs, vectors, collection, reset, resets, lapses>>
    BY <1>3 DEF WriteRelationship
  <2> QED
    BY <1>0, <2>2, <2>3, <2>4 DEF Work, BatchPc, Holding
<1>4. CASE WriteFails(b)
  BY <1>0, <1>4 DEF WriteFails, Work, BatchPc, Holding, ItemInHand
<1>5. CASE EndPairs(b)
  <2>1. PICK error \in BOOLEAN :
          work' = [work EXCEPT ![b].item = NoItem, ![b].pairs = {}, ![b].texts = {},
                               ![b].failed = @ \/ error]
    BY <1>5 DEF EndPairs
  <2>2. (work[b].failed \/ error) \in BOOLEAN
    OBVIOUS
  <2>3. /\ work' \in [Batches -> Work]
        /\ work'[b].handle = work[b].handle
        /\ \A c \in Batches \ {b} : work'[c] = work[c]
    BY <1>0, <2>1, <2>2 DEF Work
  <2> QED
    BY <1>5, <2>3 DEF EndPairs, BatchPc, Holding
<1>6. CASE Finish(b)
  BY <1>0, <1>6 DEF Finish, RunStatus, BatchPc, Holding
<1>7. CASE Crash(b)
  BY <1>0, <1>7 DEF Crash, Alive, BatchPc, Holding
<1> QED
  BY <1>1, <1>2, <1>3, <1>4, <1>5, <1>6, <1>7

\* In short: a quiet step has a quiet step's effect.
LEMMA QuietSteps == ASSUME Typed, NEW b \in Batches, Quiet(b) PROVE QuietEffect(b)
  BY QuietSources, QuietItems, QuietPairs DEF Quiet, DetectRelationships

-----------------------------------------------------------------------------
(* The other steps of a batch.                                             *)

\* What every step of _process_item() that reaches a store does to b itself.
OwnEffect(b) ==
  /\ work' \in [Batches -> Work]
  /\ work'[b].handle = work[b].handle
  /\ pc' \in [Batches -> BatchPc]
  /\ \A c \in Batches \ {b} : work'[c] = work[c] /\ pc'[c] = pc[c]
  /\ pc[b] # "unborn" /\ pc'[b] # "unborn"
  /\ pc'[b] \in Mid => work'[b].item \in Ids
  /\ pc'[b] \notin {"pair", "write"}

\* What InsertItem does: a row that is there keeps its id and chunks.
LEMMA InsertItemEffect ==
  ASSUME Typed, NEW b \in Batches, NEW r \in Refs, InsertItem(b, r)
  PROVE  /\ OwnEffect(b)
         /\ items' \in [Refs -> Batches \cup {NoBatch}]
         /\ \A s \in Refs : items'[s] = items[s] \/ (s = r /\ items[s] = NoBatch)
         /\ items'[r] \in Batches
         /\ work'[b].item = <<items'[r], r>>
         /\ pc[b] = "items" /\ pc'[b] = "embed"
<1> USE DEF Typed, TypeOK
<1>0. work[b] \in Work
  OBVIOUS
<1>1. /\ items' \in [Refs -> Batches \cup {NoBatch}]
      /\ \A s \in Refs : items'[s] = items[s] \/ (s = r /\ items[s] = NoBatch)
      /\ items'[r] \in Batches
  BY DEF InsertItem
<1> DEFINE i == <<items'[r], r>>
<1>2. i \in Ids
  BY <1>1 DEF Ids
<1>3. work' = [work EXCEPT ![b].todo = @ \ {r}, ![b].item = i]
  BY DEF InsertItem
<1> HIDE DEF i
<1>4. /\ work' \in [Batches -> Work]
      /\ work'[b].handle = work[b].handle
      /\ work'[b].item = i
      /\ \A c \in Batches \ {b} : work'[c] = work[c]
  BY <1>0, <1>2, <1>3 DEF Work
<1> QED
  BY <1>1, <1>2, <1>4 DEF InsertItem, OwnEffect, Goto, BatchPc, Mid, i

\* What the steps before the row gets its chunks do to b.
LEMMA EmbedEffect ==
  ASSUME Typed, NEW b \in Batches, EmbedChunks(b) \/ EmbedFails(b) \/ ReplaceFails(b)
  PROVE  /\ OwnEffect(b)
         /\ work'[b].item = work[b].item
         /\ pc[b] \in Mid /\ pc'[b] \in Mid
         /\ pc'[b] = "replace" => EmbedChunks(b)
         /\ UNCHANGED <<sqliteVars, collection, graphVars, adminVars, lapses>>
         /\ EmbedChunks(b) \/ UNCHANGED vectors
<1> USE DEF Typed, TypeOK, ItemInHand, Goto, Holding, Mid, OwnEffect, BatchPc,
            sqliteVars, chromaVars, graphVars, adminVars
<1>0. work[b] \in Work
  OBVIOUS
<1>1. CASE EmbedChunks(b)
  BY <1>1 DEF EmbedChunks
<1>2. ASSUME EmbedFails(b) \/ ReplaceFails(b) PROVE OwnEffect(b) /\ work'[b].item = work[b].item
  <2>1. work' = [work EXCEPT ![b].failed = TRUE]
    BY <1>2 DEF EmbedFails, ReplaceFails, NoteError
  <2>2. /\ work' \in [Batches -> Work]
        /\ work'[b].handle = work[b].handle /\ work'[b].item = work[b].item
        /\ \A c \in Batches \ {b} : work'[c] = work[c]
    BY <1>0, <2>1 DEF Work
  <2> QED
    BY <1>2, <2>2 DEF EmbedFails, ReplaceFails
<1> QED
  BY <1>1, <1>2 DEF EmbedFails, ReplaceFails

\* What ReplaceChunks does: the row of b's item gets b's chunks.
LEMMA ReplaceChunksEffect ==
  ASSUME Typed, NEW b \in Batches, ReplaceChunks(b)
  PROVE  /\ OwnEffect(b)
         /\ work[b].item \in Ids
         /\ chunks' = [chunks EXCEPT ![work[b].item[2]] = b]
         /\ ItemExists(work[b].item)
         /\ pc[b] = "replace" /\ pc'[b] = "items"
<1> USE DEF Typed, TypeOK
<1> DEFINE i == work[b].item
           u == IF i[1] = b THEN work[b].updated ELSE work[b].updated \cup {i}
<1>0. work[b] \in Work
  OBVIOUS
<1>1. i \in Ids
  BY DEF ReplaceChunks, ItemInHand, Goto, Holding
<1>2. work[b].processed \cup {i} \in SUBSET Ids /\ u \in SUBSET Ids
  BY <1>0, <1>1 DEF Work
<1>3. work' = [work EXCEPT ![b].processed = @ \cup {i}, ![b].updated = u, ![b].item = NoItem]
  BY <1>0 DEF ReplaceChunks
<1> HIDE DEF u
<1>4. /\ work' \in [Batches -> Work]
      /\ work'[b].handle = work[b].handle
      /\ \A c \in Batches \ {b} : work'[c] = work[c]
  BY <1>0, <1>2, <1>3 DEF Work
<1> QED
  BY <1>1, <1>4 DEF ReplaceChunks, OwnEffect, Goto, BatchPc, Mid

\* What UndoItem does: the row of b's item, if still there, goes.
LEMMA UndoItemEffect ==
  ASSUME Typed, NEW b \in Batches, UndoItem(b)
  PROVE  /\ OwnEffect(b)
         /\ work[b].item \in Ids
         /\ \A r \in Refs :
              \/ items'[r] = NoBatch /\ chunks'[r] = NoBatch
              \/ /\ items'[r] = items[r] /\ chunks'[r] = chunks[r]
                 /\ work[b].item # <<items[r], r>>
         /\ items' \in [Refs -> Batches \cup {NoBatch}]
         /\ chunks' \in [Refs -> Batches \cup {NoBatch}]
         /\ pc[b] = "undo" /\ pc'[b] = "items"
<1> USE DEF Typed, TypeOK
<1> DEFINE i == work[b].item
<1>0. work[b] \in Work
  OBVIOUS
<1>1. i \in Ids
  BY DEF UndoItem, ItemInHand, Goto, Holding
<1>2. \A r \in Refs :
        \/ items'[r] = NoBatch /\ chunks'[r] = NoBatch
        \/ /\ items'[r] = items[r] /\ chunks'[r] = chunks[r]
           /\ i # <<items[r], r>>
  BY <1>1 DEF UndoItem, ItemExists, Ids
<1>3. /\ items' \in [Refs -> Batches \cup {NoBatch}]
      /\ chunks' \in [Refs -> Batches \cup {NoBatch}]
  BY DEF UndoItem
<1>4. /\ work' \in [Batches -> Work]
      /\ work'[b].handle = work[b].handle
      /\ \A c \in Batches \ {b} : work'[c] = work[c]
  <2>1. work' = [work EXCEPT ![b].item = NoItem]
    BY DEF UndoItem
  <2> QED
    BY <1>0, <2>1 DEF Work
<1>5. OwnEffect(b) /\ pc[b] = "undo" /\ pc'[b] = "items"
  BY <1>4 DEF UndoItem, OwnEffect, Goto, BatchPc, Mid
<1> QED
  BY <1>1, <1>2, <1>3, <1>5

\* What Begin does: b has the collection that is there now.
LEMMA BeginEffect ==
  ASSUME Typed, NEW b \in Batches, Begin(b)
  PROVE  /\ work' \in [Batches -> Work]
         /\ work'[b].handle = collection
         /\ pc' \in [Batches -> BatchPc]
         /\ runs' \in [Batches -> RunStatus]
         /\ \A c \in Batches \ {b} : work'[c] = work[c] /\ pc'[c] = pc[c]
         /\ pc[b] = "unborn" /\ pc'[b] = "source"
         /\ UNCHANGED <<items, chunks, chromaVars, graphVars, adminVars, lapses>>
<1>0. work \in [Batches -> Work] /\ work[b] \in Work /\ collection \in Nat
  BY DEF Typed, TypeOK
<1>1. work' = [work EXCEPT ![b].handle = collection]
  BY DEF Begin
<1>2. /\ work' \in [Batches -> Work]
      /\ work'[b].handle = collection
      /\ \A c \in Batches \ {b} : work'[c] = work[c]
  BY <1>0, <1>1 DEF Work
<1> QED
  BY <1>2 DEF Typed, TypeOK, Begin, Goto, BatchPc, RunStatus, sqliteVars, chromaVars,
              graphVars, adminVars

-----------------------------------------------------------------------------
(* Type correctness.                                                       *)

\* Every step of a batch has one of the effects above.
LEMMA RunSteps ==
  ASSUME NEW b \in Batches, Run(b)
  PROVE  \/ Begin(b) \/ Quiet(b)
         \/ (\E r \in Refs : InsertItem(b, r))
         \/ EmbedChunks(b) \/ EmbedFails(b) \/ ReplaceFails(b)
         \/ ReplaceChunks(b) \/ UndoItem(b)
  BY DEF Run, ProcessItem, Quiet

\* Every step preserves the types, and that a batch knows its item.
LEMMA TypedStep == Typed /\ [Next]_vars => Typed'
<1> SUFFICES ASSUME Typed, [Next]_vars PROVE Typed'
  OBVIOUS
<1> USE DEF Typed, TypeOK, vars, sqliteVars, chromaVars, graphVars, adminVars, ItemInHand
<1>1. ASSUME NEW b \in Batches, Begin(b) PROVE Typed'
  BY <1>1, BeginEffect DEF Holding
<1>2. ASSUME NEW b \in Batches, Quiet(b) PROVE Typed'
  BY <1>2, QuietSteps DEF QuietEffect
<1>3. ASSUME NEW b \in Batches, NEW r \in Refs, InsertItem(b, r) PROVE Typed'
  BY <1>3, InsertItemEffect DEF InsertItem, OwnEffect, Holding, Mid
<1>4. ASSUME NEW b \in Batches, EmbedChunks(b) \/ EmbedFails(b) \/ ReplaceFails(b)
      PROVE  Typed'
  <2>1. vectors' \in SUBSET Vector
    BY <1>4, EmbedEffect DEF EmbedChunks, Goto, Holding, Vector
  <2> QED
    BY <1>4, <2>1, EmbedEffect DEF OwnEffect, Holding, Mid
<1>5. ASSUME NEW b \in Batches, ReplaceChunks(b) PROVE Typed'
  BY <1>5, ReplaceChunksEffect DEF ReplaceChunks, OwnEffect, Holding, Mid
<1>6. ASSUME NEW b \in Batches, UndoItem(b) PROVE Typed'
  BY <1>6, UndoItemEffect DEF UndoItem, OwnEffect, Holding, Mid
<1>7. ASSUME ResetSqlite PROVE Typed'
  BY <1>7 DEF ResetSqlite, RunStatus
<1>8. ASSUME ResetChroma PROVE Typed'
  BY <1>8 DEF ResetChroma
<1>9. ASSUME ResetNeo4j PROVE Typed'
  BY <1>9 DEF ResetNeo4j
<1>10. ASSUME UNCHANGED vars PROVE Typed'
  BY <1>10
<1> QED
  BY <1>1, <1>2, <1>3, <1>4, <1>5, <1>6, <1>7, <1>8, <1>9, <1>10, RunSteps DEF Next

\* Type correctness: every variable stays in its set, whatever the batches,
\* resets, failures and kills do.
THEOREM TypeCorrect == Spec => []TypeOK
<1>1. Init => Typed
  BY DEF Init, Typed, TypeOK, ItemInHand, Holding, NewWork, Work, RunStatus, BatchPc
<1>2. Typed => TypeOK
  BY DEF Typed
<1> QED
  BY <1>1, <1>2, TypedStep, PTL DEF Spec

-----------------------------------------------------------------------------
(* Chunks stay searchable.                                                 *)

VectorOf(b, i) == [by |-> b, item |-> i]

\* No batch has opened a collection that is still to come.
Handles == \A b \in Batches : work[b].handle =< collection

\* A batch that has not begun has written nothing.
Fresh == \A b \in Batches : pc[b] = "unborn" => \A r \in Refs : chunks[r] # b

\* No chunks without their row.
Rowless == \A r \in Refs : items[r] = NoBatch => chunks[r] = NoBatch

\* Chunks are embedded before they are written.
Embedded ==
  \A b \in Batches :
    pc[b] = "replace" /\ Opened(b) => VectorOf(b, work[b].item) \in vectors

Searchable == Handles /\ Fresh /\ Rowless /\ Embedded /\ ChunksAreSearchable

\* A batch begins: it has written no chunks yet.
LEMMA SearchableBegin ==
  ASSUME Typed, Searchable, NEW b \in Batches, Begin(b) PROVE Searchable'
<1> USE DEF Typed, TypeOK, Searchable, chromaVars
<1>1. Handles'
  BY BeginEffect DEF Handles
<1>2. Fresh' /\ Rowless'
  BY BeginEffect DEF Fresh, Rowless
<1>3. Embedded'
  BY BeginEffect DEF Embedded, Opened, VectorOf
<1>4. ChunksAreSearchable'
  BY BeginEffect DEF ChunksAreSearchable, Fresh, Opened
<1> QED
  BY <1>1, <1>2, <1>3, <1>4

\* A quiet step disturbs none of it.
LEMMA SearchableQuiet ==
  ASSUME Typed, Searchable, NEW b \in Batches, Quiet(b) PROVE Searchable'
<1> USE QuietSteps DEF QuietEffect, Typed, TypeOK, Searchable, chromaVars
<1>1. Handles'
  BY DEF Handles
<1>2. Fresh' /\ Rowless'
  BY DEF Fresh, Rowless
<1>3. Embedded'
  BY DEF Embedded, Opened, VectorOf, Mid
<1>4. ChunksAreSearchable'
  BY DEF ChunksAreSearchable, Opened
<1> QED
  BY <1>1, <1>2, <1>3, <1>4

\* A new row has no chunks; one that is there keeps its name.
LEMMA SearchableInsert ==
  ASSUME Typed, Searchable, NEW b \in Batches, NEW r \in Refs, InsertItem(b, r)
  PROVE  Searchable'
<1> USE InsertItemEffect DEF OwnEffect, Typed, TypeOK, Searchable
<1>0. UNCHANGED <<chunks, vectors, collection>>
  BY DEF InsertItem, chromaVars
<1>1. Handles'
  BY <1>0 DEF Handles
<1>2. Fresh' /\ Rowless'
  BY <1>0, NoBatchAssumption DEF Fresh, Rowless
<1>3. Embedded'
  BY <1>0 DEF Embedded, Opened, VectorOf
<1>4. ChunksAreSearchable'
  BY <1>0 DEF ChunksAreSearchable, Opened, Rowless
<1> QED
  BY <1>1, <1>2, <1>3, <1>4

\* Vectors are only added, and b's before it may replace chunks.
LEMMA SearchableEmbed ==
  ASSUME Typed, Searchable, NEW b \in Batches,
         EmbedChunks(b) \/ EmbedFails(b) \/ ReplaceFails(b)
  PROVE  Searchable'
<1> USE EmbedEffect DEF OwnEffect, Typed, TypeOK, Searchable, sqliteVars
<1>0. vectors \subseteq vectors'
  BY DEF EmbedChunks
<1>1. Handles'
  BY DEF Handles
<1>2. Fresh' /\ Rowless'
  BY DEF Fresh, Rowless
<1>3. Embedded'
  BY <1>0 DEF Embedded, Opened, VectorOf, EmbedChunks
<1>4. ChunksAreSearchable'
  BY <1>0 DEF ChunksAreSearchable, Opened
<1> QED
  BY <1>1, <1>2, <1>3, <1>4

\* The chunks that b writes are those it has embedded.
LEMMA SearchableReplace ==
  ASSUME Typed, Searchable, NEW b \in Batches, ReplaceChunks(b)
  PROVE  Searchable'
<1> USE ReplaceChunksEffect DEF OwnEffect, Typed, TypeOK, Searchable
<1> DEFINE i == work[b].item
<1>0. /\ UNCHANGED <<items, vectors, collection>>
      /\ i[1] \in Batches /\ i[2] \in Refs /\ i = <<i[1], i[2]>>
      /\ items[i[2]] = i[1]
      /\ \A r \in Refs \ {i[2]} : chunks'[r] = chunks[r]
      /\ chunks'[i[2]] = b
  <2>1. i \in Ids /\ ItemExists(i) /\ chunks' = [chunks EXCEPT ![i[2]] = b]
    OBVIOUS
  <2>2. i[1] \in Batches /\ i[2] \in Refs /\ i = <<i[1], i[2]>>
    BY <2>1 DEF Ids
  <2>3. UNCHANGED <<items, vectors, collection>>
    BY DEF ReplaceChunks, chromaVars
  <2> HIDE DEF i
  <2> QED
    BY <2>1, <2>2, <2>3 DEF ItemExists
<1> HIDE DEF i
<1>1. Handles'
  BY <1>0 DEF Handles
<1>2. Fresh' /\ Rowless'
  BY <1>0, NoBatchAssumption DEF Fresh, Rowless
<1>3. Embedded'
  BY <1>0 DEF Embedded, Opened, VectorOf
<1>4. ChunksAreSearchable'
  <2> SUFFICES ASSUME NEW r \in Refs, chunks'[r] # NoBatch,
                      work'[chunks'[r]].handle = collection
               PROVE  VectorOf(chunks'[r], <<items[r], r>>) \in vectors
    BY <1>0 DEF ChunksAreSearchable, VectorOf, Opened
  <2>0. chunks'[r] \in Batches /\ work[chunks'[r]].handle = collection
    BY <1>0
  <2>1. CASE r = i[2]
    BY <1>0, <2>0, <2>1 DEF Embedded, Opened, i
  <2>2. CASE r # i[2]
    BY <1>0, <2>0, <2>2 DEF ChunksAreSearchable, Opened, VectorOf
  <2> QED
    BY <2>1, <2>2
<1> QED
  BY <1>1, <1>2, <1>3, <1>4

\* A row that goes takes its chunks with it.
LEMMA SearchableUndo ==
  ASSUME Typed, Searchable, NEW b \in Batches, UndoItem(b)
  PROVE  Searchable'
<1> USE UndoItemEffect, NoBatchAssumption DEF OwnEffect, Typed, TypeOK, Searchable
<1>0. UNCHANGED <<vectors, collection>>
  BY DEF UndoItem, chromaVars
<1>1. Handles'
  BY <1>0 DEF Handles
<1>2. Fresh' /\ Rowless'
  BY <1>0 DEF Fresh, Rowless
<1>3. Embedded'
  BY <1>0 DEF Embedded, Opened, VectorOf
<1>4. ChunksAreSearchable'
  BY <1>0 DEF ChunksAreSearchable, Opened
<1> QED
  BY <1>1, <1>2, <1>3, <1>4

\* A reset deletes all rows, or a collection with every handle to it.
LEMMA SearchableReset ==
  ASSUME Typed, Searchable, ResetSqlite \/ ResetChroma \/ ResetNeo4j
  PROVE  Searchable'
<1> USE NoBatchAssumption
        DEF Typed, TypeOK, Searchable, Handles, Fresh, Rowless, Embedded,
            ChunksAreSearchable, Opened, VectorOf, chromaVars, sqliteVars
<1>1. CASE ResetSqlite
  BY <1>1 DEF ResetSqlite
<1>2. ASSUME ResetChroma, UNCHANGED chromaVars PROVE Searchable'
  BY <1>2 DEF ResetChroma
<1>3. ASSUME ResetChroma, collection' = collection + 1 PROVE Searchable'
  <2>1. UNCHANGED <<items, chunks, pc, work>>
    BY <1>3 DEF ResetChroma
  <2>2. \A b \in Batches : work[b].handle \in Nat
    BY DEF Work
  <2>3. \A b \in Batches :
          work'[b].handle =< collection' /\ work'[b].handle # collection'
    BY <1>3, <2>1, <2>2
  <2> QED
    BY <2>1, <2>3
<1>4. CASE ResetNeo4j
  BY <1>4 DEF ResetNeo4j
<1> QED
  BY <1>1, <1>2, <1>3, <1>4 DEF ResetChroma

\* The initial states are typed, and their chunks searchable.
LEMMA SearchableInit == Init => Typed /\ Searchable
<1> SUFFICES ASSUME Init PROVE Typed /\ Searchable
  OBVIOUS
<1>1. Typed
  BY DEF Init, Typed, TypeOK, ItemInHand, Holding, NewWork, Work, RunStatus, BatchPc
<1>2. Searchable
  BY NoBatchAssumption DEF Init, Searchable, Handles, Fresh, Rowless, Embedded,
     ChunksAreSearchable, NewWork
<1> QED
  BY <1>1, <1>2

\* Every step keeps them searchable.
LEMMA SearchableStep == Typed /\ Searchable /\ [Next]_vars => Searchable'
<1> SUFFICES ASSUME Typed, Searchable, [Next]_vars PROVE Searchable'
  OBVIOUS
<1>1. ASSUME NEW b \in Batches, Run(b) PROVE Searchable'
  BY <1>1, RunSteps, SearchableBegin, SearchableQuiet, SearchableInsert,
     SearchableEmbed, SearchableReplace, SearchableUndo
<1>2. ASSUME UNCHANGED vars PROVE Searchable'
  BY <1>2 DEF vars, sqliteVars, chromaVars, Searchable, Handles, Fresh, Rowless,
     Embedded, ChunksAreSearchable, Opened, VectorOf
<1> QED
  BY <1>1, <1>2, SearchableReset DEF Next

\* The vector of every chunk row is in the collection its batch opened, as
\* long as that one is in use: whatever embed_chunks(), replace_chunks(),
\* delete_item() and resets of other processes come between.
THEOREM ChunksStaySearchable == Spec => []ChunksAreSearchable
<1> DEFINE IInv == Typed /\ Searchable
<1>1. IInv /\ [Next]_vars => IInv'
  BY TypedStep, SearchableStep
<1>2. IInv => ChunksAreSearchable
  BY DEF Searchable
<1> QED
  BY SearchableInit, <1>1, <1>2, PTL DEF Spec

-----------------------------------------------------------------------------
(* Items without chunks.                                                   *)

\* The rows that have no chunks, and that no batch is working on.
Empty ==
  {r \in Refs : /\ items[r] # NoBatch
                /\ chunks[r] = NoBatch
                /\ \A b \in Batches : ~MidItem(b, r)}

\* A step adds no such row, or just one, and that by a lapse.
AddsByLapse ==
  \/ Empty' \subseteq Empty /\ lapses' = lapses
  \/ lapses' = lapses + 1 /\ \E r \in Refs : Empty' \subseteq Empty \cup {r}
  \/ lapses' = lapses + 1 /\ Empty' \subseteq Empty

\* A quiet step may add the one row that b was working on.
LEMMA EmptyQuiet ==
  ASSUME Typed, NEW b \in Batches, Quiet(b) PROVE AddsByLapse
<1> USE QuietSteps DEF QuietEffect, Typed, TypeOK
<1>1. CASE pc[b] \in Mid
  <2>1. work[b].item \in Ids /\ work[b].item[2] \in Refs
    BY <1>1 DEF ItemInHand, Holding, Mid, Ids
  <2>2. Empty' \subseteq Empty \cup {work[b].item[2]}
    BY <2>1 DEF Empty, MidItem, Mid
  <2> QED
    BY <1>1, <2>1, <2>2 DEF AddsByLapse
<1>2. CASE pc[b] \notin Mid
  <2>1. Empty' \subseteq Empty
    BY <1>2 DEF Empty, MidItem, Mid
  <2> QED
    BY <2>1 DEF AddsByLapse
<1> QED
  BY <1>1, <1>2

\* No other step adds any.
LEMMA EmptyOther ==
  ASSUME Typed, NEW b \in Batches,
         \/ Begin(b)
         \/ (\E r \in Refs : InsertItem(b, r))
         \/ EmbedChunks(b) \/ EmbedFails(b) \/ ReplaceFails(b)
         \/ ReplaceChunks(b) \/ UndoItem(b)
  PROVE  AddsByLapse
<1> USE DEF Typed, TypeOK, AddsByLapse, Empty, MidItem, Mid, sqliteVars
<1>1. CASE Begin(b)
  BY <1>1, BeginEffect
<1>2. ASSUME NEW r \in Refs, InsertItem(b, r) PROVE AddsByLapse
  <2>1. lapses' = lapses /\ chunks' = chunks
    BY <1>2 DEF InsertItem
  <2> QED
    BY <1>2, <2>1, InsertItemEffect DEF OwnEffect
<1>3. CASE EmbedChunks(b) \/ EmbedFails(b) \/ ReplaceFails(b)
  BY <1>3, EmbedEffect DEF OwnEffect
<1>4. CASE ReplaceChunks(b)
  <2>1. lapses' = lapses /\ items' = items
    BY <1>4 DEF ReplaceChunks
  <2>2. \A r \in Refs : work[b].item = <<items[r], r>> => chunks'[r] = b
    BY <1>4, ReplaceChunksEffect
  <2>3. \A r \in Refs : chunks'[r] = NoBatch => chunks[r] = NoBatch
    BY <1>4, ReplaceChunksEffect, NoBatchAssumption
  <2> QED
    BY <1>4, <2>1, <2>2, <2>3, ReplaceChunksEffect, NoBatchAssumption DEF OwnEffect
<1>5. CASE UndoItem(b)
  <2>1. lapses' = lapses
    BY <1>5 DEF UndoItem
  <2> QED
    BY <1>5, <2>1, UndoItemEffect DEF OwnEffect
<1> QED
  BY <1>1, <1>2, <1>3, <1>4, <1>5

\* Adding a row by a lapse keeps the rows no more than the lapses.
LEMMA LapsesCount ==
  ASSUME Typed, Cardinality(Empty) =< lapses, AddsByLapse
  PROVE  Cardinality(Empty') =< lapses'
<1>1. IsFiniteSet(Empty) /\ Cardinality(Empty) \in Nat
  BY RefsAssumption, FS_Subset, FS_CardinalityType DEF Empty
<1>2. lapses \in Nat
  BY DEF Typed, TypeOK
<1>3. CASE Empty' \subseteq Empty
  <2>1. Cardinality(Empty') =< Cardinality(Empty) /\ Cardinality(Empty') \in Nat
    BY <1>1, <1>3, FS_Subset, FS_CardinalityType
  <2> QED
    BY <1>1, <1>2, <2>1 DEF AddsByLapse
<1>4. ASSUME NEW r \in Refs, Empty' \subseteq Empty \cup {r}, lapses' = lapses + 1
      PROVE  Cardinality(Empty') =< lapses'
  <2>1. /\ IsFiniteSet(Empty \cup {r})
        /\ Cardinality(Empty \cup {r}) =< Cardinality(Empty) + 1
        /\ Cardinality(Empty \cup {r}) \in Nat
    <3>1. /\ IsFiniteSet(Empty \cup {r})
          /\ \/ Cardinality(Empty \cup {r}) = Cardinality(Empty)
             \/ Cardinality(Empty \cup {r}) = Cardinality(Empty) + 1
      BY <1>1, FS_AddElement, Zenon
    <3> QED
      BY <1>1, <3>1
  <2>2. /\ Cardinality(Empty') =< Cardinality(Empty \cup {r})
        /\ Cardinality(Empty') \in Nat
    BY <1>4, <2>1, FS_Subset, FS_CardinalityType
  <2> QED
    BY <1>1, <1>2, <1>4, <2>1, <2>2
<1> QED
  BY <1>3, <1>4 DEF AddsByLapse

\* An item in SQLite has its chunks, is being worked on, or is due to a kill
\* or a failed delete_item() of its own: no failure of an embedding provider
\* or a store, and no other batch or reset, leaves one without.
THEOREM EmptyItemsStayLapses == Spec => []EmptyItemsAreLapses
<1> DEFINE IInv == Typed /\ Cardinality(Empty) =< lapses
<1>1. Init => IInv
  <2> SUFFICES ASSUME Init PROVE IInv
    OBVIOUS
  <2>1. Typed
    BY DEF Init, Typed, TypeOK, ItemInHand, Holding, NewWork, Work, RunStatus, BatchPc
  <2>2. Empty = {}
    BY DEF Init, Empty
  <2> QED
    BY <2>1, <2>2, FS_EmptySet DEF Init
<1>2. IInv /\ [Next]_vars => IInv'
  <2> SUFFICES ASSUME IInv, [Next]_vars PROVE Cardinality(Empty') =< lapses'
    BY TypedStep
  <2>1. ASSUME NEW b \in Batches, Run(b) PROVE AddsByLapse
    BY <2>1, RunSteps, EmptyQuiet, EmptyOther
  <2>2. ASSUME ResetSqlite \/ ResetChroma \/ ResetNeo4j \/ UNCHANGED vars
        PROVE  AddsByLapse
    <3>1. /\ UNCHANGED <<pc, work, lapses>>
          /\ UNCHANGED <<items, chunks>> \/ items' = [r \in Refs |-> NoBatch]
      BY <2>2 DEF ResetSqlite, ResetChroma, ResetNeo4j, sqliteVars, vars
    <3> QED
      BY <3>1 DEF AddsByLapse, Empty, MidItem
  <2> QED
    BY <2>1, <2>2, LapsesCount DEF Next
<1>3. IInv => EmptyItemsAreLapses
  BY DEF EmptyItemsAreLapses, Empty
<1> QED
  BY <1>1, <1>2, <1>3, PTL DEF Spec

-----------------------------------------------------------------------------
(* One batch at a time: what holds only while batches do not overlap.      *)

Alone == \A b, c \in Batches : Alive(b) /\ Alive(c) => b = c

Unbegun == \A b \in Batches : pc[b] = "unborn" => work[b] = NewWork

\* The pair about to be written is still joined by no edge.
Judged(b) ==
  pc[b] = "write" => \A j \in work[b].judged : ~Related(work[b].item, j.with.item)

\* What is not cleared yet of the edges of an updated item is still to come.
Cleared(b) ==
  ~work[b].failed /\ pc[b] \notin {"source", "items"} \cup Mid =>
    \A e \in edges : \A i \in work[b].updated :
      Touches(e, i) => e.by = b \/ (pc[b] = "cleanup" /\ i \in work[b].left)

\* Without an error, the chunks of what was extracted are written, or those
\* of the item at hand, or they are still to do.
Extracted(b) ==
  /\ pc[b] \notin {"items"} \cup Mid => work[b].todo = {}
  /\ pc[b] = "undo" => work[b].failed
  /\ ~work[b].failed /\ runs[b] # "none" =>
       \A r \in work[b].seen \ work[b].todo :
         \/ chunks[r] = b
         \/ pc[b] \in {"embed", "replace"} /\ work[b].item = <<items[r], r>>

Progress(b) == Judged(b) /\ Cleared(b) /\ Extracted(b)

InTurn ==
  /\ Alone /\ Unbegun /\ OneEdgePerPair
  /\ \A b \in Batches : Alive(b) => Progress(b)

\* A batch that takes a step is the only one under way, before and after.
LEMMA OneActs ==
  ASSUME ~Overlap, Typed, InTurn, NEW b \in Batches, Run(b)
  PROVE  /\ \A c \in Batches \ {b} :
              ~Alive(c) /\ ~Alive(c)' /\ work'[c] = work[c] /\ pc'[c] = pc[c]
         /\ pc'[b] # "unborn"
         /\ Begin(b) \/ (Alive(b) /\ Progress(b))
<1> USE DEF Typed
<1>1. CASE Begin(b)
  BY <1>1, BeginEffect DEF Begin, Alive
<1> DEFINE Acts == /\ pc[b] \notin {"unborn", "done", "killed"}
                   /\ pc'[b] # "unborn"
                   /\ \A c \in Batches \ {b} : work'[c] = work[c] /\ pc'[c] = pc[c]
<1>2. ASSUME ~Begin(b) PROVE Acts
  <2> USE DEF TypeOK
  <2>1. ASSUME Quiet(b) PROVE Acts
    <3>1. pc[b] \notin {"unborn", "done", "killed"}
      BY <2>1 DEF Quiet, Extract, ExtractFails, InsertItemFails, UndoFails, NextSource,
         EndSources, ClearRelationships, ClearFails, EndCleanup, DetectRelationships,
         SkipItem, NarrowItem, NarrowFails, SkipPair, JudgePair, WriteRelationship,
         WriteFails, EndPairs, Finish, Crash, Alive, Goto
    <3> QED
      BY <2>1, <3>1, QuietSteps DEF QuietEffect
  <2>2. ASSUME NEW r \in Refs, InsertItem(b, r) PROVE Acts
    BY <2>2, InsertItemEffect DEF OwnEffect
  <2>3. ASSUME EmbedChunks(b) \/ EmbedFails(b) \/ ReplaceFails(b) PROVE Acts
    BY <2>3, EmbedEffect DEF OwnEffect, Mid
  <2>4. ASSUME ReplaceChunks(b) PROVE Acts
    BY <2>4, ReplaceChunksEffect DEF OwnEffect
  <2>5. ASSUME UndoItem(b) PROVE Acts
    BY <2>5, UndoItemEffect DEF OwnEffect
  <2> QED
    BY <1>2, <2>1, <2>2, <2>3, <2>4, <2>5, RunSteps
<1>3. CASE ~Begin(b)
  BY <1>2, <1>3 DEF InTurn, Alone, Alive
<1> QED
  BY <1>1, <1>3

\* The steps over the candidates of an item leave the lists of the run alone.
LEMMA PassFields ==
  ASSUME Typed, NEW b \in Batches, DetectRelationships(b)
  PROVE  /\ work'[b].seen = work[b].seen /\ work'[b].todo = work[b].todo
         /\ work'[b].updated = work[b].updated
         /\ work[b].failed => work'[b].failed
         /\ UNCHANGED <<items, chunks, runs>>
         /\ pc[b] \in {"relate", "pair", "write"} /\ pc'[b] \in {"relate", "pair", "write"}
         /\ WriteRelationship(b) \/ edges' = edges
         /\ pc'[b] = "write" => \E v \in vectors \cup work[b].pairs : JudgePair(b, v)
<1> USE DEF Typed, TypeOK, Goto, sqliteVars, graphVars
<1>0. work[b] \in Work /\ work \in [Batches -> Work] /\ pc \in [Batches -> BatchPc]
  OBVIOUS
<1> DEFINE Kept == /\ work'[b].seen = work[b].seen /\ work'[b].todo = work[b].todo
                   /\ work'[b].updated = work[b].updated
                   /\ work[b].failed => work'[b].failed
<1>1. ASSUME NEW i \in Ids, SkipItem(b, i) \/ NarrowItem(b, i) \/ NarrowFails(b, i)
      PROVE  Kept /\ pc[b] = "relate" /\ pc'[b] \in {"relate", "pair"}
  <2>1. CASE SkipItem(b, i)
    BY <1>0, <2>1 DEF SkipItem, Work
  <2>2. CASE NarrowFails(b, i)
    BY <1>0, <2>2 DEF NarrowFails, Work
  <2>3. CASE NarrowItem(b, i)
    <3>1. PICK C, T : work' = [work EXCEPT ![b].left = @ \ {i}, ![b].item = i,
                                           ![b].pairs = C, ![b].texts = T]
      BY <2>3 DEF NarrowItem
    <3>2. Kept
      BY <1>0, <3>1 DEF Work
    <3> QED
      BY <1>0, <2>3, <3>2 DEF NarrowItem
  <2> QED
    BY <1>1, <2>1, <2>2, <2>3
<1>2. ASSUME NEW v \in vectors \cup work[b].pairs, SkipPair(b, v) \/ JudgePair(b, v)
      PROVE  /\ Kept /\ pc[b] = "pair" /\ pc'[b] \in {"pair", "write"}
             /\ pc'[b] = "write" => JudgePair(b, v)
  <2>1. CASE SkipPair(b, v)
    BY <1>0, <2>1 DEF SkipPair, Work
  <2>2. CASE JudgePair(b, v)
    <3>1. PICK J : work' = [work EXCEPT ![b].pairs = @ \ {v}, ![b].judged = J]
      BY <2>2 DEF JudgePair
    <3>2. Kept
      BY <1>0, <3>1 DEF Work
    <3> QED
      BY <1>0, <2>2, <3>2 DEF JudgePair
  <2> QED
    BY <1>2, <2>1, <2>2
<1>3. ASSUME WriteRelationship(b) \/ WriteFails(b) \/ EndPairs(b)
      PROVE  Kept /\ pc[b] \in {"pair", "write"} /\ pc'[b] \in {"pair", "relate"}
  BY <1>0, <1>3 DEF WriteRelationship, WriteFails, EndPairs, Work
<1>4. UNCHANGED <<items, chunks, runs>> /\ (WriteRelationship(b) \/ edges' = edges)
  BY DEF DetectRelationships, SkipItem, NarrowItem, NarrowFails, SkipPair, JudgePair,
     WriteRelationship, WriteFails, EndPairs
<1> QED
  BY <1>1, <1>2, <1>3, <1>4 DEF DetectRelationships

\* What the steps of _run() between the stages do to the lists of the run.
LEMMA StageFields ==
  ASSUME Typed, NEW b \in Batches,
         \/ NextSource(b) \/ EndSources(b) \/ EndCleanup(b) \/ UndoFails(b)
         \/ ExtractFails(b)
         \/ (\E i \in Ids : ClearRelationships(b, i) \/ ClearFails(b, i))
  PROVE  /\ work'[b].seen = work[b].seen /\ work'[b].todo = work[b].todo
         /\ work'[b].updated = work[b].updated
         /\ work[b].failed => work'[b].failed
         /\ UNCHANGED <<items, chunks, runs>>
         /\ edges' \subseteq edges
         /\ pc'[b] \in {"source", "items", "cleanup", "relate"}
         /\ pc'[b] = "items" => UndoFails(b)
         /\ pc[b] = "items" => work[b].todo = {}
<1> USE DEF Typed, TypeOK, Goto, sqliteVars, graphVars
<1>0. work[b] \in Work /\ work \in [Batches -> Work] /\ pc \in [Batches -> BatchPc]
  OBVIOUS
<1>1. CASE NextSource(b)
  BY <1>0, <1>1 DEF NextSource
<1>4. CASE EndSources(b) \/ EndCleanup(b)
  <2>1. PICK L : work' = [work EXCEPT ![b].left = L]
    BY <1>4 DEF EndSources, EndCleanup
  <2> QED
    BY <1>0, <1>4, <2>1 DEF EndSources, EndCleanup, Work
<1>2. CASE UndoFails(b) \/ ExtractFails(b)
  BY <1>0, <1>2 DEF UndoFails, ExtractFails, NoteError, Work
<1>3. CASE \E i \in Ids : ClearRelationships(b, i) \/ ClearFails(b, i)
  BY <1>0, <1>3 DEF ClearRelationships, ClearFails, Work
<1> QED
  BY <1>1, <1>2, <1>3, <1>4

\* An edge is written only between items that none joins.
LEMMA EdgesStep ==
  ASSUME ~Overlap, Typed, InTurn, NEW b \in Batches, Run(b)
  PROVE  OneEdgePerPair' /\ Judged(b)'
<1> USE DEF Typed, OneEdgePerPair, Judged, Related
<1>1. CASE DetectRelationships(b)
  <2>1. CASE WriteRelationship(b)
    <3> PICK j \in work[b].judged :
          \E new : /\ new.from = work[b].item /\ new.to = j.with.item
                   /\ edges' = edges \cup {new} \/ edges' = edges
      BY <2>1 DEF WriteRelationship
    <3>1. PICK new : /\ new.from = work[b].item /\ new.to = j.with.item
                     /\ edges' = edges \cup {new} \/ edges' = edges
      OBVIOUS
    <3>2. ~Related(work[b].item, j.with.item)
      BY <2>1, <3>1, OneActs DEF WriteRelationship, Goto, Progress, Begin
    <3>3. OneEdgePerPair /\ pc'[b] = "pair"
      BY <2>1 DEF InTurn, TypeOK, WriteRelationship, Goto
    <3> QED
      BY <3>1, <3>2, <3>3
  <2>2. ASSUME NEW v \in vectors \cup work[b].pairs, JudgePair(b, v)
        PROVE  OneEdgePerPair' /\ Judged(b)'
    <3>1. PICK t \in work[b].texts :
            work' = [work EXCEPT ![b].pairs = @ \ {v},
                                 ![b].judged = {[text |-> t, with |-> v]}]
      BY <2>2 DEF JudgePair
    <3>2. work[b] \in Work /\ work \in [Batches -> Work]
      BY DEF TypeOK
    <3>3. /\ work'[b].item = work[b].item
          /\ work'[b].judged = {[text |-> t, with |-> v]}
      BY <3>1, <3>2 DEF Work
    <3>4. ~Related(work[b].item, v.item) /\ edges' = edges
      BY <2>2 DEF JudgePair, graphVars
    <3> QED
      BY <3>3, <3>4 DEF InTurn
  <2> QED
    BY <1>1, <2>1, <2>2, PassFields DEF InTurn
<1>2. CASE ~DetectRelationships(b)
  <2>1. edges' \subseteq edges /\ pc'[b] # "write"
    <3>1. CASE \/ NextSource(b) \/ EndSources(b) \/ EndCleanup(b) \/ UndoFails(b)
               \/ ExtractFails(b)
               \/ (\E i \in Ids : ClearRelationships(b, i) \/ ClearFails(b, i))
      BY <3>1, StageFields
    <3>2. CASE Begin(b)
      BY <3>2, BeginEffect DEF graphVars
    <3>3. CASE EmbedChunks(b) \/ EmbedFails(b) \/ ReplaceFails(b)
      BY <3>3, EmbedEffect DEF graphVars, Mid
    <3>4. CASE \/ Extract(b) \/ Finish(b) \/ Crash(b) \/ ReplaceChunks(b) \/ UndoItem(b)
               \/ (\E r \in Refs : InsertItem(b, r) \/ InsertItemFails(b, r))
      BY <3>4 DEF TypeOK, Extract, Finish, Crash, ReplaceChunks, UndoItem, InsertItem,
         InsertItemFails, Goto, graphVars
    <3> QED
      BY <1>2, <3>1, <3>2, <3>3, <3>4 DEF Run, ProcessItem
  <2> QED
    BY <2>1 DEF InTurn
<1> QED
  BY <1>1, <1>2

\* The edges of an updated item go, one item after the other.
LEMMA ClearedStep ==
  ASSUME ~Overlap, Typed, InTurn, NEW b \in Batches, Run(b), Alive(b)'
  PROVE  Cleared(b)'
<1> USE DEF Typed, Mid
<1>0. /\ work[b] \in Work /\ work \in [Batches -> Work] /\ pc \in [Batches -> BatchPc]
      /\ Begin(b) \/ Cleared(b)
  BY OneActs DEF TypeOK, Progress
<1>1. CASE EndSources(b)
  <2>1. /\ pc'[b] = "cleanup" /\ edges' = edges
        /\ work'[b].updated = work[b].updated /\ work'[b].left = work[b].updated
    BY <1>0, <1>1 DEF EndSources, Goto, graphVars, Work
  <2> QED
    BY <2>1 DEF Cleared
<1>2. ASSUME NEW i \in Ids, ClearRelationships(b, i) PROVE Cleared(b)'
  <2>1. /\ pc[b] = "cleanup" /\ pc'[b] = "cleanup"
        /\ edges' = {e \in edges : ~Touches(e, i)}
        /\ work'[b].updated = work[b].updated /\ work'[b].left = work[b].left \ {i}
        /\ work'[b].failed = work[b].failed
    BY <1>0, <1>2 DEF ClearRelationships, Work
  <2>2. Cleared(b)
    BY <1>0, <2>1 DEF Begin, Goto
  <2> QED
    BY <2>1, <2>2 DEF Cleared, Touches
<1>3. CASE EndCleanup(b)
  <2>1. /\ pc[b] = "cleanup" /\ pc'[b] = "relate" /\ work[b].left = {} /\ edges' = edges
        /\ work'[b].updated = work[b].updated /\ work'[b].failed = work[b].failed
    BY <1>0, <1>3 DEF EndCleanup, Goto, graphVars, Work
  <2>2. Cleared(b)
    BY <1>0, <2>1 DEF Begin, Goto
  <2> QED
    BY <2>1, <2>2 DEF Cleared, Touches
<1>4. CASE DetectRelationships(b)
  <2>1. Cleared(b) /\ pc[b] \in {"relate", "pair", "write"}
    BY <1>0, <1>4, PassFields DEF Begin, Goto
  <2>2. \A e \in edges' \ edges : e.by = b
    BY <1>4, PassFields DEF WriteRelationship
  <2> QED
    BY <1>4, <2>1, <2>2, PassFields DEF Cleared, Touches
<1>5. ASSUME NEW i \in Ids, ClearFails(b, i) PROVE Cleared(b)'
  BY <1>0, <1>5 DEF ClearFails, Cleared, Work
<1>6. CASE pc'[b] \in {"source", "items"} \cup Mid
  BY <1>6 DEF Cleared
<1>7. CASE \/ Begin(b) \/ Extract(b) \/ ExtractFails(b) \/ NextSource(b) \/ ProcessItem(b)
  BY <1>0, <1>6, <1>7 DEF Begin, Extract, ExtractFails, NextSource, ProcessItem, InsertItem,
     InsertItemFails, EmbedChunks, EmbedFails, ReplaceChunks, ReplaceFails, UndoItem,
     UndoFails, Goto
<1>8. ~Finish(b) /\ ~Crash(b)
  BY <1>0 DEF Finish, Crash, Goto, Alive
<1> QED
  BY <1>1, <1>2, <1>3, <1>4, <1>5, <1>7, <1>8 DEF Run

\* Each ref that is extracted gets its chunks, or an error is noted.
LEMMA ExtractedStep ==
  ASSUME ~Overlap, Typed, InTurn, NEW b \in Batches, Run(b), Alive(b)'
  PROVE  Extracted(b)'
<1> USE DEF Typed, Mid
<1>0. /\ work[b] \in Work /\ work \in [Batches -> Work] /\ pc \in [Batches -> BatchPc]
      /\ Begin(b) \/ Extracted(b)
  BY OneActs DEF TypeOK, Progress
<1>1. CASE Begin(b)
  <2>1. work[b] = NewWork /\ work' = [work EXCEPT ![b].handle = collection]
    BY <1>1 DEF InTurn, Unbegun, Begin, Goto
  <2>2. work'[b].seen = {} /\ work'[b].todo = {} /\ pc'[b] = "source"
    BY <1>0, <1>1, <2>1, BeginEffect DEF NewWork
  <2> QED
    BY <2>2 DEF Extracted
<1>2. CASE Extract(b)
  <2>1. PICK S : work' = [work EXCEPT ![b].todo = S, ![b].seen = @ \cup S]
    BY <1>2 DEF Extract
  <2>2. /\ work'[b].todo = S /\ work'[b].seen = work[b].seen \cup S
        /\ work'[b].failed = work[b].failed
    BY <1>0, <2>1 DEF Work
  <2>3. /\ pc[b] = "source" /\ pc'[b] = "items"
        /\ UNCHANGED <<items, chunks, runs>>
    BY <1>0, <1>2 DEF Extract, Goto, sqliteVars
  <2>4. Extracted(b)
    BY <1>0, <2>3 DEF Begin, Goto
  <2> QED
    BY <2>2, <2>3, <2>4 DEF Extracted
<1>3. ASSUME NEW r \in Refs, InsertItem(b, r) PROVE Extracted(b)'
  <2>1. PICK i : work' = [work EXCEPT ![b].todo = @ \ {r}, ![b].item = i]
    BY <1>3 DEF InsertItem
  <2>2. /\ work'[b].todo = work[b].todo \ {r} /\ work'[b].seen = work[b].seen
        /\ work'[b].failed = work[b].failed
    BY <1>0, <2>1 DEF Work
  <2>3. /\ pc[b] = "items" /\ pc'[b] = "embed"
        /\ chunks' = chunks /\ runs' = runs
        /\ work'[b].item = <<items'[r], r>>
    BY <1>3, InsertItemEffect DEF InsertItem
  <2>4. Extracted(b)
    BY <1>0, <2>3 DEF Begin, Goto
  <2> QED
    BY <2>2, <2>3, <2>4 DEF Extracted
<1>4. ASSUME NEW r \in Refs, InsertItemFails(b, r) PROVE Extracted(b)'
  BY <1>0, <1>4 DEF InsertItemFails, Extracted, Work
<1>5. CASE EmbedChunks(b)
  <2>1. /\ pc[b] = "embed" /\ pc'[b] = "replace"
        /\ UNCHANGED <<items, chunks, runs, work>>
    BY <1>0, <1>5 DEF EmbedChunks, Goto, sqliteVars
  <2> QED
    BY <1>0, <2>1 DEF Extracted, Begin, Goto
<1>6. CASE EmbedFails(b) \/ ReplaceFails(b)
  BY <1>0, <1>6 DEF EmbedFails, ReplaceFails, NoteError, Goto, Extracted, Work
<1>7. CASE ReplaceChunks(b)
  <2>1. PICK P, U : work' = [work EXCEPT ![b].processed = P, ![b].updated = U,
                                         ![b].item = NoItem]
    BY <1>7 DEF ReplaceChunks
  <2>2. /\ work'[b].todo = work[b].todo /\ work'[b].seen = work[b].seen
        /\ work'[b].failed = work[b].failed
    BY <1>0, <2>1 DEF Work
  <2>5. /\ work[b].item[2] \in Refs
        /\ chunks' = [chunks EXCEPT ![work[b].item[2]] = b]
    BY <1>7, ReplaceChunksEffect DEF Ids
  <2>6. \A r \in Refs : chunks[r] = b \/ work[b].item[2] = r => chunks'[r] = b
    BY <2>5 DEF TypeOK
  <2>3. /\ pc[b] = "replace" /\ pc'[b] = "items" /\ runs' = runs
        /\ \A r \in Refs : work[b].item = <<items[r], r>> => chunks'[r] = b
        /\ \A r \in Refs : chunks[r] = b => chunks'[r] = b
    <3>1. pc[b] = "replace" /\ pc'[b] = "items"
      BY <1>7, ReplaceChunksEffect
    <3>2. runs' = runs
      BY <1>7 DEF ReplaceChunks
    <3>3. \A r \in Refs : work[b].item = <<items[r], r>> => work[b].item[2] = r
      OBVIOUS
    <3> QED
      BY <2>6, <3>1, <3>2, <3>3
  <2>4. Extracted(b) /\ work[b].seen \subseteq Refs
    BY <1>0, <2>3 DEF Begin, Goto, Work
  <2> QED
    BY <2>2, <2>3, <2>4 DEF Extracted
<1>8. CASE UndoItem(b)
  <2>1. pc[b] = "undo" /\ pc'[b] = "items" /\ work'[b].failed = work[b].failed
    BY <1>0, <1>8 DEF UndoItem, Goto, Work
  <2>2. work[b].failed
    BY <1>0, <2>1 DEF Extracted, Begin, Goto
  <2> QED
    BY <2>1, <2>2 DEF Extracted
<1>9. CASE \/ NextSource(b) \/ EndSources(b) \/ EndCleanup(b) \/ UndoFails(b)
           \/ ExtractFails(b)
           \/ (\E i \in Ids : ClearRelationships(b, i) \/ ClearFails(b, i))
  <2>1. CASE UndoFails(b)
    <3>1. pc[b] = "undo" /\ pc'[b] = "items" /\ work'[b].failed = work[b].failed
      BY <1>0, <2>1 DEF UndoFails, Goto, Work
    <3>2. work[b].failed
      BY <1>0, <3>1 DEF Extracted, Begin, Goto
    <3> QED
      BY <3>1, <3>2 DEF Extracted
  <2>2. CASE ~UndoFails(b)
    <3>1. pc[b] \in {"source", "items", "cleanup"}
      BY <1>9, <2>2 DEF NextSource, EndSources, EndCleanup, ExtractFails,
         ClearRelationships, ClearFails, Goto
    <3>2. Extracted(b)
      BY <1>0, <3>1 DEF Begin, Goto
    <3> QED
      BY <1>9, <2>2, <3>1, <3>2, StageFields DEF Extracted
  <2> QED
    BY <2>1, <2>2
<1>10. CASE DetectRelationships(b)
  <2>1. Extracted(b)
    BY <1>0, <1>10, PassFields DEF Begin, Goto
  <2> QED
    BY <1>10, <2>1, PassFields DEF Extracted
<1>11. ~Finish(b) /\ ~Crash(b)
  BY <1>0 DEF Finish, Crash, Goto, Alive
<1> QED
  BY <1>1, <1>2, <1>3, <1>4, <1>5, <1>6, <1>7, <1>8, <1>9, <1>10, <1>11 DEF Run, ProcessItem

\* The four of them hold in turn, step by step.
LEMMA InTurnStep ==
  ASSUME ~Overlap PROVE Typed /\ InTurn /\ [Next]_vars => InTurn'
<1> SUFFICES ASSUME Typed, InTurn, [Next]_vars PROVE InTurn'
  OBVIOUS
<1>1. ASSUME NEW b \in Batches, Run(b) PROVE InTurn'
  <2>1. Alive(b)' => Progress(b)'
    BY <1>1, EdgesStep, ClearedStep, ExtractedStep DEF Progress
  <2>2. Alone' /\ Unbegun'
    BY <1>1, OneActs DEF InTurn, Alone, Unbegun
  <2> QED
    BY <1>1, <2>1, <2>2, OneActs, EdgesStep DEF InTurn
<1>2. ASSUME /\ UNCHANGED <<pc, work>> /\ edges' \subseteq edges
             /\ \A b \in Batches : runs'[b] = "none" \/ UNCHANGED sqliteVars
      PROVE  InTurn'
  <2>1. \A b \in Batches : Judged(b) => Judged(b)'
    BY <1>2 DEF Judged, Related
  <2>2. \A b \in Batches : Cleared(b) => Cleared(b)'
    BY <1>2 DEF Cleared, Touches
  <2>3. \A b \in Batches : Extracted(b) => Extracted(b)'
    BY <1>2 DEF Extracted, sqliteVars
  <2> QED
    BY <1>2, <2>1, <2>2, <2>3 DEF InTurn, Alone, Alive, Unbegun, OneEdgePerPair, Progress
<1>3. ASSUME ResetSqlite \/ ResetChroma \/ ResetNeo4j \/ UNCHANGED vars PROVE InTurn'
  BY <1>2, <1>3 DEF ResetSqlite, ResetChroma, ResetNeo4j, vars, graphVars, sqliteVars
<1> QED
  BY <1>1, <1>3 DEF Next

\* At first no batch is under way.
LEMMA InTurnInit == Init => InTurn
  BY DEF Init, InTurn, Alone, Unbegun, OneEdgePerPair, Alive

\* One at a time, batches join two items by one edge at most, however many of
\* them process these items, in whatever order, and whatever fails.
THEOREM OneEdgeInTurn == ~Overlap => (Spec => []OneEdgePerPair)
<1> SUFFICES ASSUME ~Overlap PROVE Spec => []OneEdgePerPair
  OBVIOUS
<1> DEFINE IInv == Typed /\ InTurn
<1>1. Init => IInv
  BY SearchableInit, InTurnInit
<1>2. IInv /\ [Next]_vars => IInv'
  BY TypedStep, InTurnStep
<1>3. IInv => OneEdgePerPair
  BY DEF InTurn
<1> QED
  BY <1>1, <1>2, <1>3, PTL DEF Spec

\* When a run's status turns to success, its last step ends it.
LEMMA SuccessIsFinish ==
  ASSUME Typed, [Next]_vars, NEW b \in Batches,
         runs'[b] = "success", runs[b] # "success"
  PROVE  Finish(b) /\ runs[b] # "none" /\ ~work[b].failed
<1> USE DEF Typed, TypeOK
<1>1. runs' # runs
  OBVIOUS
<1>2. ~UNCHANGED vars /\ ~ResetSqlite /\ ~ResetChroma /\ ~ResetNeo4j
  BY <1>1 DEF vars, sqliteVars, ResetSqlite, ResetChroma, ResetNeo4j
<1>3. PICK c \in Batches : Run(c)
  BY <1>2 DEF Next
<1>4. ~Begin(c)
  BY DEF Begin
<1>5. Finish(c)
  BY <1>1, <1>3, <1>4, PassFields, StageFields
     DEF Run, ProcessItem, Extract, InsertItem, InsertItemFails, EmbedChunks, EmbedFails,
         ReplaceChunks, ReplaceFails, UndoItem, Crash, sqliteVars
<1> QED
  BY <1>5 DEF Finish, RunStatus

\* One at a time, a batch that ends in success leaves each ref it extracted
\* stored with the text it read, in SQLite and in the collection it opened.
THEOREM SuccessStoresAll == ~Overlap => (Spec => SuccessIsStored)
<1> SUFFICES ASSUME ~Overlap PROVE Spec => SuccessIsStored
  OBVIOUS
<1> DEFINE IInv == Typed /\ Searchable /\ InTurn
           StoredAll(b) == runs'[b] = "success" /\ runs[b] # "success" /\ Opened(b) =>
                             \A r \in work[b].seen : Stored(b, r)
<1>1. Init => IInv
  BY SearchableInit, InTurnInit
<1>2. IInv /\ [Next]_vars => IInv'
  BY TypedStep, SearchableStep, InTurnStep
<1>3. IInv /\ [Next]_vars => \A b \in Batches : StoredAll(b)
  <2> SUFFICES ASSUME IInv, [Next]_vars, NEW b \in Batches, runs'[b] = "success",
                      runs[b] # "success", Opened(b), NEW r \in work[b].seen
               PROVE  Stored(b, r)
    OBVIOUS
  <2>1. Finish(b) /\ runs[b] # "none" /\ ~work[b].failed
    BY SuccessIsFinish
  <2>2. pc[b] = "relate" /\ Extracted(b)
    BY <2>1 DEF Finish, Goto, InTurn, Alive, Progress
  <2>3. chunks[r] = b /\ r \in Refs
    BY <2>1, <2>2 DEF Extracted, Mid, Typed, TypeOK, Work
  <2> QED
    BY <2>3, NoBatchAssumption DEF Searchable, ChunksAreSearchable, Stored
<1>4. IInv /\ [Next]_vars =>
        [\A b \in Batches : runs'[b] = "success" /\ runs[b] # "success" /\ Opened(b) =>
           \A r \in work[b].seen : Stored(b, r)]_vars
  BY <1>3
<1> QED
  BY <1>1, <1>2, <1>4, PTL DEF Spec, SuccessIsStored

\* One at a time, a batch that ends in success has cleared every edge of an
\* earlier run from the items it updated, before it judged them again.
THEOREM StaleEdgesCleared == ~Overlap => (Spec => StaleEdgesAreCleared)
<1> SUFFICES ASSUME ~Overlap PROVE Spec => StaleEdgesAreCleared
  OBVIOUS
<1> DEFINE IInv == Typed /\ InTurn
<1>1. Init => IInv
  BY SearchableInit, InTurnInit
<1>2. IInv /\ [Next]_vars => IInv'
  BY TypedStep, InTurnStep
<1>3. IInv /\ [Next]_vars =>
        \A b \in Batches : runs'[b] = "success" /\ runs[b] # "success" =>
          \A e \in edges : (\E i \in work[b].updated : Touches(e, i)) => e.by = b
  <2> SUFFICES ASSUME IInv, [Next]_vars, NEW b \in Batches, runs'[b] = "success",
                      runs[b] # "success", NEW e \in edges,
                      NEW i \in work[b].updated, Touches(e, i)
               PROVE  e.by = b
    OBVIOUS
  <2>1. Finish(b) /\ ~work[b].failed
    BY SuccessIsFinish
  <2>2. pc[b] = "relate" /\ Cleared(b)
    BY <2>1 DEF Finish, Goto, InTurn, Alive, Progress
  <2> QED
    BY <2>1, <2>2 DEF Cleared, Mid
<1> QED
  BY <1>1, <1>2, <1>3, PTL DEF Spec, StaleEdgesAreCleared

=============================================================================
