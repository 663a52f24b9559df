--------------------------- MODULE QueryPipeline ---------------------------
(***************************************************************************)
(* One question on its way through the agent's graph: routed, searched by  *)
(* vector and by keyword, expanded over the relationships, merged, and     *)
(* answered from the items whose text is still there.                      *)
(*                                                                         *)
(* What the stores return is chosen freely: a search returns chunks of any *)
(* items, several of one item among them; the relationships are any few,   *)
(* and one pair may have two; a lookup may fail; an item may be deleted    *)
(* before its text is read, or between its row and its chunks. A hit is an *)
(* item at its place in a list, which is its rank.                         *)
(***************************************************************************)
EXTENDS Integers, SequencesExt, FiniteSetsExt, Orders

CONSTANTS
  ItemCount,    \* the items, numbered in the order in which the question finds them
  TopKVector,   \* retrieval.top_k_vector, also how many items are cited
  TopKKeyword,  \* retrieval.top_k_keyword
  MaxLinks      \* bound: the pairs of items that are related

Assumptions == {ItemCount, TopKVector, TopKKeyword, MaxLinks} \subseteq Nat

VARIABLE query
queryVars == <<query>>

Items == 1..ItemCount
Pairs == {p \in SUBSET Items : Cardinality(p) = 2}
Hits == BoundedSeq(Items, ItemCount)
NoLinks == [pairs |-> {}, double |-> {}, failed |-> {}]
Links == [pairs : SUBSET Pairs,  \* related items
          double : SUBSET Items, \* the pair with a relationship each way
          failed : SUBSET Items] \* seeds whose lookup fails

TypeOK ==
  /\ query.pc \in {"route", "vector", "keyword", "graph", "merge", "item", "chunks",
                   "answer", "answered", "failed"}
  /\ query.decision \in [vector : BOOLEAN, graph : BOOLEAN]
  /\ {query.vector, query.keyword, query.graph, query.merged} \subseteq Hits
  /\ query.links \in Links
  /\ {query.context, query.sources} \subseteq BoundedSeq(Items, TopKVector)
  /\ query.next \in 1..TopKVector + 1

Init ==
  query = [pc |-> "route", decision |-> [vector |-> FALSE, graph |-> FALSE],
           vector |-> <<>>, keyword |-> <<>>, graph |-> <<>>, links |-> NoLinks,
           merged |-> <<>>, context |-> <<>>, sources |-> <<>>, next |-> 1]

-----------------------------------------------------------------------------
(* The pure parts.                                                         *)

\* _to_hits(): the items of the chunks found, each at its first place.
ToHits(found) ==
  LET first == {k \in DOMAIN found : \A j \in 1..k - 1 : found[j] # found[k]}
      order == Sorted(first, {p \in first \X first : p[1] < p[2]})
  IN [n \in DOMAIN order |-> found[order[n]]]

\* What a search for at most k chunks may return, after `before`: the items are
\* numbered as they turn up.
Numbered(s) == \A k \in DOMAIN s : s[k] <= 1 + Max({0} \cup {s[j] : j \in 1..k - 1})
Searches(k, before) == {s \in BoundedSeq(Items, k) : Numbered(before \o s)}

\* _RRF_K and the score of a rank, times what makes it whole for ranks up to 4, and
\* rounded down beyond.
RrfK == 60
Scale == 61 * 62 * 63 * 64
\* Mutant of RankScore: without the smoothing constant.
RankScoreUnsmoothed(rank) == Scale \div rank
RankScore(rank) == Scale \div (RrfK + rank)

Rank(hits, i) == SelectInSeq(hits, LAMBDA j : j = i)
ScoreIn(hits, i) == IF i \in ToSet(hits) THEN RankScore(Rank(hits, i)) ELSE 0
Score(i) ==
  ScoreIn(query.vector, i) + ScoreIn(query.keyword, i) + ScoreIn(query.graph, i)

\* merge(): by score, and what was found first stays first.
Merged ==
  LET found == ToHits(query.vector \o query.keyword \o query.graph)
      Before(i, j) == \/ Score(i) > Score(j)
                      \/ Score(i) = Score(j) /\ Rank(found, i) < Rank(found, j)
  IN Sorted(ToSet(found), {p \in ToSet(found) \X ToSet(found) : Before(p[1], p[2])})

\* graph_traversal(): every lookup of a seed that does not fail counts all its
\* relationships; an item that both searches found is a seed twice.
Seeds == query.vector \o query.keyword
SeedRank(k) ==
  IF k <= Len(query.vector) THEN k ELSE k - Len(query.vector)
Relations(links, i, n) ==
  IF {i, n} \notin links.pairs THEN 0 ELSE IF {i, n} = links.double THEN 2 ELSE 1
LookedUp(links) == {k \in DOMAIN Seeds : Seeds[k] \notin links.failed}
ConnectionCount(links, n) ==
  Cardinality({p \in LookedUp(links) \X (1..2) : p[2] <= Relations(links, Seeds[p[1]], n)})
BestSeedRank(links, n) ==
  Min({SeedRank(k) : k \in {j \in LookedUp(links) : Relations(links, Seeds[j], n) > 0}})

\* Mutant of Neighbours: seeds are not left out.
AllNeighbours(links) == {n \in Items : ConnectionCount(links, n) > 0}
Neighbours(links) ==
  {n \in Items \ ToSet(Seeds) : ConnectionCount(links, n) > 0}

\* The order in which Neo4j returns them decides between equals.
Closer(links, m, n) ==
  \/ ConnectionCount(links, m) > ConnectionCount(links, n)
  \/ /\ ConnectionCount(links, m) = ConnectionCount(links, n)
     /\ BestSeedRank(links, m) < BestSeedRank(links, n)
GraphHits(links) ==
  {s \in SetToSeqs(Neighbours(links)) :
     \A j, k \in DOMAIN s : j < k => ~Closer(links, s[k], s[j])}

-----------------------------------------------------------------------------
(* The nodes of the graph, in their order.                                 *)

\* route(): the keyword search always runs.
Route ==
  /\ query.pc = "route"
  /\ \E d \in [vector : BOOLEAN, graph : BOOLEAN] :
       query' = [query EXCEPT !.pc = "vector", !.decision = d]

VectorSearch ==
  /\ query.pc = "vector"
  /\ \E found \in IF query.decision.vector THEN Searches(TopKVector, <<>>) ELSE {<<>>} :
       query' = [query EXCEPT !.pc = "keyword", !.vector = ToHits(found)]

\* A question of stopwords alone finds nothing.
KeywordSearch ==
  /\ query.pc = "keyword"
  /\ \E found \in Searches(TopKKeyword, query.vector) :
       query' = [query EXCEPT !.pc = "graph", !.keyword = ToHits(found)]

PossibleLinks ==
  {l \in [pairs : UNION {kSubset(k, Pairs) : k \in 0..MaxLinks},
          double : Pairs \cup {{}}, failed : {{}} \cup {{i} : i \in ToSet(Seeds)}] :
     l.double \in l.pairs \cup {{}}}
GraphTraversal ==
  /\ query.pc = "graph"
  /\ \E links \in IF query.decision.graph THEN PossibleLinks ELSE {NoLinks} :
       \E hits \in IF query.decision.graph THEN GraphHits(links) ELSE {<<>>} :
         query' = [query EXCEPT !.pc = "merge", !.links = links, !.graph = hits]

Merge ==
  /\ query.pc = "merge"
  /\ query' = [query EXCEPT !.pc = "item", !.merged = Merged, !.links = NoLinks]

\* synthesize(): the next of the first results, if there is one.
MoreResults == query.next <= Min({TopKVector, Len(query.merged)})
ReadItem ==
  /\ query.pc = "item" /\ MoreResults
  /\ \/ query' = [query EXCEPT !.pc = "chunks"]
     \/ query' = [query EXCEPT !.next = @ + 1]

\* Mutant of ReadChunks: the source is listed even if there is no text.
ReadChunksLate ==
  /\ query.pc = "chunks"
  /\ LET i == query.merged[query.next]
         later == [query EXCEPT !.pc = "item", !.next = @ + 1,
                                !.sources = Append(@, i)] IN
       \/ query' = [later EXCEPT !.context = Append(@, i)]
       \/ query' = later
ReadChunks ==
  /\ query.pc = "chunks"
  /\ LET i == query.merged[query.next]
         later == [query EXCEPT !.pc = "item", !.next = @ + 1] IN
       \/ query' = [later EXCEPT !.context = Append(@, i), !.sources = Append(@, i)]
       \/ query' = later

\* Without context the fixed answer is given, and no model is asked.
EndReading ==
  /\ query.pc = "item" /\ ~MoreResults
  /\ query' = [query EXCEPT !.pc = IF query.context = <<>> THEN "answered" ELSE "answer"]

GenerateAnswer ==
  /\ query.pc = "answer"
  /\ query' = [query EXCEPT !.pc = "answered"]

\* A search, a read or the model fails, and the request with it.
Fail ==
  /\ query.pc \in {"vector", "keyword", "item", "chunks", "answer"}
  /\ query' = [query EXCEPT !.pc = "failed"]

Next ==
  \/ Route \/ VectorSearch \/ KeywordSearch \/ GraphTraversal \/ Merge
  \/ ReadItem \/ ReadChunks \/ EndReading \/ GenerateAnswer \/ Fail

Spec == Init /\ [][Next]_queryVars

-----------------------------------------------------------------------------
(* Properties.                                                             *)

\* merge() ranks what both searches have found before all that one of them or
\* the traversal found alone, however high that was; nothing found is lost
\* and nothing is there twice, however many of its chunks were found.
FoundTwiceIsAhead ==
  LET Twice == ToSet(query.vector) \cap ToSet(query.keyword)
      m == query.merged
  IN query.pc = "item" =>
       /\ ToSet(m) = ToSet(query.vector) \cup ToSet(query.keyword) \cup ToSet(query.graph)
       /\ IsInjective(m)
       /\ \A j, k \in DOMAIN m : m[j] \notin Twice /\ m[k] \in Twice => k < j

\* The items of one search that could be looked up and are related to n, and
\* those of them that are related to it in both directions.
Near(links, hits, n) == {i \in ToSet(hits) \ links.failed : {i, n} \in links.pairs}
Mutual(links, hits, n) == {i \in Near(links, hits, n) : {i, n} = links.double}
Weight(links, n) ==
  (Cardinality(Near(links, query.vector, n)) + Cardinality(Mutual(links, query.vector, n)))
  + (Cardinality(Near(links, query.keyword, n)) + Cardinality(Mutual(links, query.keyword, n)))

\* graph_traversal() adds every item that is related to a seed it could look up
\* and that the searches have not found, and nothing else. The better connected
\* come first: each search that found a seed counts it once for each of its
\* relationships to the item; between equals the best rank of a seed decides.
NeighboursByConnections ==
  LET l == query.links
      g == query.graph
  IN query.pc = "merge" /\ query.decision.graph =>
       /\ ToSet(g) = {n \in Items \ ToSet(Seeds) :
                        Near(l, query.vector, n) \cup Near(l, query.keyword, n) # {}}
       /\ \A j, k \in DOMAIN g :
            j < k => \/ Weight(l, g[j]) > Weight(l, g[k])
                     \/ /\ Weight(l, g[j]) = Weight(l, g[k])
                        /\ BestSeedRank(l, g[j]) <= BestSeedRank(l, g[k])

\* The citation [i] of an answer is its i-th source: the sources are the items
\* whose text the model was given, in that order, among the best of the merged
\* results, each once, even if items are deleted meanwhile.
CitationsMatchContext ==
  query.pc \in {"answer", "answered"} =>
    /\ query.sources = query.context
    /\ \A j, k \in DOMAIN query.sources :
         j < k => Rank(query.merged, query.sources[j]) < Rank(query.merged, query.sources[k])
    /\ \A i \in ToSet(query.sources) : Rank(query.merged, i) \in 1..TopKVector
=============================================================================
